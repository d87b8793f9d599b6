-------------------------------- MODULE Cron --------------------------------
(***************************************************************************)
(* nextRunTime (internal/scheduler): ParseCron, field by field, and the    *)
(* minute-by-minute search of CronSchedule.Next.                           *)
(*                                                                         *)
(* The calendar is a parameter and repeats: hours of MinutesPerHour, days  *)
(* of HoursPerDay, a year of months that start on the given days, weeks of *)
(* DaysPerWeek.  A time is a number of ticks, Tick of them to the minute;  *)
(* minute 0 is the first of the year and weekday 0.                        *)
(*                                                                         *)
(* A field is "*" or a comma-separated list of parts; a part is a value, a *)
(* range, or something strconv.Atoi or the range syntax refuses.           *)
(***************************************************************************)
EXTENDS Integers, Sequences, FiniteSets

CONSTANTS
  Exprs,           \* the text of a field: Star or a sequence of parts
  Star,            \* "*"
  Afters,          \* the times nextRunTime is called at
  Tick,            \* ticks in a minute
  MinutesPerHour, HoursPerDay, DaysPerWeek,
  MonthStart,      \* the days of the year before each month, and those of the year
  LastDay          \* the days of the longest month

(* The days before each month are those of the table of package time. *)
ASSUME CalendarAssumption ==
  /\ MinutesPerHour \in Nat \ {0} /\ HoursPerDay \in Nat \ {0} /\ DaysPerWeek \in Nat \ {0}
  /\ Tick \in Nat \ {0} /\ LastDay \in Nat /\ Afters \subseteq Nat
  /\ MonthStart \in Seq(Nat) /\ Len(MonthStart) > 1 /\ MonthStart[1] = 0
  /\ \A m, n \in DOMAIN MonthStart : m < n => MonthStart[m] < MonthStart[n]
  /\ \A m \in 2..Len(MonthStart) : MonthStart[m] - MonthStart[m - 1] <= LastDay

(* strings.Split returns at least one part. *)
Parts == [kind : {"value", "range", "bad"}, lo : Int, hi : Int]
ASSUME ExprsAssumption == Exprs \ {Star} \subseteq Seq(Parts) \ {<<>>}

VARIABLES
  pc,      \* "parsing", "searching", "returned" or "fallback"
  fields,  \* the parsed fields so far: minute, hour, day, month, weekday
  after,   \* the time of the call
  offset   \* minutes from the first one the search has looked at to its t

cronVars == <<pc, fields, after, offset>>

-----------------------------------------------------------------------------
(* The calendar of package time. *)
Months == 1..(Len(MonthStart) - 1)
YearDays == MonthStart[Len(MonthStart)]
DayMinutes == MinutesPerHour * HoursPerDay

(* After this many minutes date and weekday are the same again. *)
Period == YearDays * DaysPerWeek * DayMinutes

DayOfYear(t) == (t \div DayMinutes) % YearDays
Month(t) == CHOOSE m \in Months :
              MonthStart[m] <= DayOfYear(t) /\ DayOfYear(t) < MonthStart[m + 1]
(* Minute, hour, day, month and weekday of minute t. *)
Date(t) == <<t % MinutesPerHour, (t \div MinutesPerHour) % HoursPerDay,
             DayOfYear(t) - MonthStart[Month(t)] + 1, Month(t),
             (t \div DayMinutes) % DaysPerWeek>>

(* The bounds ParseCron gives each field. *)
Bounds == <<0..(MinutesPerHour - 1), 0..(HoursPerDay - 1), 1..LastDay,
            Months, 0..(DaysPerWeek - 1)>>

TypeOK ==
  /\ pc \in {"parsing", "searching", "returned", "fallback"}
  /\ fields \in Seq(SUBSET Int) /\ Len(fields) <= 5
  /\ \A n \in DOMAIN fields : fields[n] # {} /\ fields[n] \subseteq Bounds[n]
  /\ pc \in {"searching", "returned"} => Len(fields) = 5
  /\ after \in Afters
  /\ offset \in 0..(Period - 1)

-----------------------------------------------------------------------------
(* parseCronField: a range must lie within the bounds and be in order, a   *)
(* value within the bounds.                                                *)
PartAllowedLoose(p, bounds) ==  \* mutant
  p.kind = "range" \/ (p.kind = "value" /\ p.lo \in bounds)
PartAllowed(p, bounds) ==
  \/ p.kind = "value" /\ p.lo \in bounds
  \/ p.kind = "range" /\ p.lo <= p.hi /\ p.lo \in bounds /\ p.hi \in bounds
Covered(p) == IF p.kind = "value" THEN {p.lo} ELSE p.lo..p.hi

FieldAllowed(e, bounds) == e # Star => \A n \in DOMAIN e : PartAllowed(e[n], bounds)
parseCronField(e, bounds) ==
  IF e = Star THEN bounds ELSE UNION {Covered(e[n]) : n \in DOMAIN e}

(* ParseCron goes on to the next field; the first error ends it, and       *)
(* nextRunTime falls back to an hour from now.                             *)
ParseField(e) ==
  /\ pc = "parsing" /\ Len(fields) < 5
  /\ LET bounds == Bounds[Len(fields) + 1] IN
       \/ /\ FieldAllowed(e, bounds)
          /\ fields' = Append(fields, parseCronField(e, bounds))
          /\ UNCHANGED pc
       \/ /\ ~FieldAllowed(e, bounds)
          /\ pc' = "fallback"
          /\ UNCHANGED fields
  /\ UNCHANGED <<after, offset>>

(* Next starts at after.Add(time.Minute).Truncate(time.Minute). *)
FirstMinuteTruncated == after \div Tick  \* mutant
FirstMinute == (after + Tick) \div Tick
StartSearch ==
  /\ pc = "parsing" /\ Len(fields) = 5
  /\ pc' = "searching"
  /\ UNCHANGED <<fields, after, offset>>

Matches(t) == \A n \in 1..5 : Date(t)[n] \in fields[n]

(* One turn of the loop.  The search is at the same place in the calendar  *)
(* after a whole Period, and is taken back to where it was.                *)
StepByHour == MinutesPerHour  \* mutant
NextTurn == 1
Search ==
  /\ pc = "searching"
  /\ \/ /\ Matches(FirstMinute + offset)
        /\ pc' = "returned"
        /\ UNCHANGED offset
     \/ /\ ~Matches(FirstMinute + offset)
        /\ offset' = (offset + NextTurn) % Period
        /\ UNCHANGED pc
  /\ UNCHANGED <<fields, after>>

Init == pc = "parsing" /\ fields = <<>> /\ after \in Afters /\ offset = 0
Next == StartSearch \/ Search \/ \E e \in Exprs : ParseField(e)
CronSpec == Init /\ [][Next]_cronVars

(* The goroutine that called nextRunTime runs. *)
FairCronSpec == CronSpec /\ WF_cronVars(StartSearch \/ Search)

-----------------------------------------------------------------------------
(* What Next returns is later than after, matches every field, and is the  *)
(* first such minute: no run is skipped or repeated, at whatever point in  *)
(* the minute it is called.                                                *)
NextIsFirstMatch ==
  pc = "returned" =>
    LET t == FirstMinute + offset IN
      /\ t * Tick > after /\ Matches(t)
      /\ \A u \in 0..(t - 1) : u * Tick > after => ~Matches(u)

(* A schedule that some day of the calendar matches gets a next run. *)
SatisfiableReturns ==
  (pc = "searching" /\ \E t \in 0..(Period - 1) : Matches(t)) ~> pc = "returned"
=============================================================================
