\* All kinds of fields, called at every half minute of two and a half days.
SPECIFICATION FairCronSpec
CONSTANTS
  Exprs <- FieldExprs
  Star = Star
  Afters <- EveryAfter
  Tick = 2
  MinutesPerHour = 2
  HoursPerDay = 2
  DaysPerWeek = 2
  MonthStart <- Year
  LastDay = 3
INVARIANTS TypeOK NextIsFirstMatch
PROPERTY SatisfiableReturns
CHECK_DEADLOCK FALSE
