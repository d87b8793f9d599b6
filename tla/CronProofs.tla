------------------------------ MODULE CronProofs ------------------------------
(***************************************************************************)
(* What holds of nextRunTime for every expression, every time it is called *)
(* at and every calendar.                                                  *)
(***************************************************************************)
EXTENDS Cron, SequenceTheorems, WellFoundedInduction, TLAPS

(* The search has passed over no minute that matches. *)
Sought ==
  /\ pc \in {"parsing", "fallback"} => offset = 0
  /\ pc \in {"searching", "returned"} => \A k \in 0..(offset - 1) : ~Matches(FirstMinute + k)
  /\ pc = "returned" => Matches(FirstMinute + offset)

CronInv == TypeOK /\ Sought

-----------------------------------------------------------------------------
(* Arithmetic. *)

LEMMA Division ==
  ASSUME NEW a \in Nat, NEW m \in Nat \ {0}
  PROVE  a \div m \in Nat /\ a % m \in 0..(m - 1) /\ a = (a \div m) * m + (a % m)
  OBVIOUS

LEMMA DivisionIsUnique ==
  ASSUME NEW q \in Nat, NEW m \in Nat \ {0}, NEW r \in 0..(m - 1)
  PROVE  (q * m + r) \div m = q /\ (q * m + r) % m = r
  OBVIOUS

LEMMA ProductIsOrdered ==
  ASSUME NEW x \in Nat, NEW y \in Nat, NEW m \in Nat, x <= y
  PROVE  x * m <= y * m
  OBVIOUS

LEMMA Distributes ==
  ASSUME NEW x \in Int, NEW y \in Int, NEW m \in Int
  PROVE  (x + y) * m = x * m + y * m
  OBVIOUS

LEMMA ProductIsPositive ==
  ASSUME NEW x \in Nat \ {0}, NEW y \in Nat \ {0}
  PROVE  x * y \in Nat \ {0}
  OBVIOUS

(* A whole number of times m more has the same remainder. *)
LEMMA Repeats ==
  ASSUME NEW a \in Nat, NEW k \in Nat, NEW m \in Nat \ {0}
  PROVE  (a + k * m) \div m = (a \div m) + k /\ (a + k * m) % m = a % m
  <1> DEFINE q == a \div m
             r == a % m
  <1>1. q \in Nat /\ r \in 0..(m - 1) /\ a = q * m + r
    BY Division
  <1> HIDE DEF q, r
  <1>2. q + k \in Nat /\ (q + k) * m = q * m + k * m /\ q * m \in Nat /\ k * m \in Nat /\ r \in Nat
    BY <1>1, Distributes
  <1>3. a + k * m = (q + k) * m + r
    BY <1>1, <1>2
  <1>4. ((q + k) * m + r) \div m = q + k /\ ((q + k) * m + r) % m = r
    BY <1>1, <1>2, DivisionIsUnique
  <1>5. QED
    BY <1>3, <1>4 DEF q, r

(* The least element of a set of numbers. *)
LEMMA Least ==
  ASSUME NEW T, T \subseteq Nat, T # {}
  PROVE  \E x \in T : \A y \in T : x <= y
  <1> DEFINE R == {p \in Nat \X Nat : p[1] < p[2]}
  <1>1. IsWellFoundedOn(R, Nat)
    BY NatLessThanWellFounded DEF OpToRel
  <1>2. PICK x \in T : \A y \in T : ~(<<y, x>> \in R)
    BY <1>1, WFMin
  <1>3. ASSUME NEW y \in T PROVE x <= y
    <2>1. <<y, x>> \in Nat \X Nat /\ ~(<<y, x>> \in R)
      BY <1>2, <1>3
    <2>2. ~(y < x)
      BY <2>1
    <2>3. QED
      BY <2>2
  <1>4. QED
    BY <1>3

-----------------------------------------------------------------------------
(* The calendar. *)

(* A year, a day and a period have days and minutes. *)
LEMMA CalendarIsPositive ==
  /\ YearDays \in Nat \ {0} /\ DayMinutes \in Nat \ {0} /\ Period \in Nat \ {0}
  /\ LastDay \in Nat \ {0} /\ Len(MonthStart) \in Nat /\ Len(MonthStart) > 1
  <1>1. Len(MonthStart) \in Nat /\ Len(MonthStart) > 1 /\ DOMAIN MonthStart = 1..Len(MonthStart)
    BY CalendarAssumption
  <1>2. 1 \in DOMAIN MonthStart /\ 2 \in DOMAIN MonthStart /\ Len(MonthStart) \in DOMAIN MonthStart
    BY <1>1
  <1>3. YearDays \in Nat \ {0}
    BY <1>1, <1>2, CalendarAssumption DEF YearDays
  <1>4. DayMinutes \in Nat \ {0}
    BY CalendarAssumption, ProductIsPositive DEF DayMinutes
  <1>5. YearDays * DaysPerWeek \in Nat \ {0}
    BY <1>3, CalendarAssumption, ProductIsPositive
  <1>6. Period \in Nat \ {0}
    BY <1>4, <1>5, ProductIsPositive DEF Period
  <1>7. LastDay \in Nat \ {0}
    <2>1. MonthStart[1] = 0 /\ MonthStart[1] < MonthStart[2] /\ MonthStart[2] \in Nat
      BY <1>2, CalendarAssumption
    <2>2. MonthStart[2] - MonthStart[2 - 1] <= LastDay
      BY <1>1, CalendarAssumption
    <2>3. QED
      BY <2>1, <2>2, CalendarAssumption
  <1>8. QED
    BY <1>1, <1>3, <1>4, <1>6, <1>7

(* Every minute lies in a month. *)
LEMMA DayHasMonth ==
  ASSUME NEW t \in Nat
  PROVE  /\ DayOfYear(t) \in 0..(YearDays - 1) /\ Month(t) \in Months
         /\ MonthStart[Month(t)] <= DayOfYear(t) /\ DayOfYear(t) < MonthStart[Month(t) + 1]
  <1> DEFINE d == DayOfYear(t)
             T == {m \in 1..Len(MonthStart) : d < MonthStart[m]}
  <1>1. d \in 0..(YearDays - 1)
    BY CalendarIsPositive, Division DEF DayOfYear
  <1> HIDE DEF d
  <1>2. Len(MonthStart) \in T /\ T \subseteq Nat
    BY <1>1, CalendarIsPositive DEF YearDays
  <1>3. PICK x \in T : \A y \in T : x <= y
    BY <1>2, Least
  <1>4. x # 1 /\ x \in 1..Len(MonthStart) /\ d < MonthStart[x]
    BY <1>1, <1>3, CalendarAssumption, CalendarIsPositive
  <1>5. x - 1 \in Months /\ x - 1 \in 1..Len(MonthStart) /\ (x - 1) + 1 = x
    BY <1>4, CalendarIsPositive DEF Months
  <1>6. MonthStart[x - 1] <= d
    <2>1. x - 1 \notin T
      BY <1>3, <1>5
    <2>2. MonthStart[x - 1] \in Nat
      BY <1>5, CalendarAssumption
    <2>3. QED
      BY <1>1, <1>5, <2>1, <2>2, CalendarIsPositive
  <1>7. \E m \in Months : MonthStart[m] <= d /\ d < MonthStart[m + 1]
    BY <1>4, <1>5, <1>6
  <1>8. QED
    BY <1>1, <1>7 DEF Month, d

(* What t.Minute(), t.Hour(), t.Day(), t.Month() and t.Weekday() return is *)
(* within the bounds that ParseCron gives the fields: "*" matches always.  *)
THEOREM DatesAreInBounds ==
  ASSUME NEW t \in Nat
  PROVE  \A n \in 1..5 : Date(t)[n] \in Bounds[n]
  <1>1. t % MinutesPerHour \in 0..(MinutesPerHour - 1)
    BY CalendarAssumption, Division
  <1>2. (t \div MinutesPerHour) % HoursPerDay \in 0..(HoursPerDay - 1)
    BY CalendarAssumption, Division
  <1>3. (t \div DayMinutes) % DaysPerWeek \in 0..(DaysPerWeek - 1)
    BY CalendarAssumption, CalendarIsPositive, Division
  <1>4. DayOfYear(t) - MonthStart[Month(t)] + 1 \in 1..LastDay
    <2> DEFINE m == Month(t)
    <2>1. /\ DayOfYear(t) \in Int /\ m \in Months
          /\ MonthStart[m] <= DayOfYear(t) /\ DayOfYear(t) < MonthStart[m + 1]
      BY DayHasMonth, CalendarIsPositive
    <2> HIDE DEF m
    <2>2. m \in 1..Len(MonthStart) /\ m + 1 \in 2..Len(MonthStart) /\ (m + 1) - 1 = m
      BY <2>1, CalendarIsPositive DEF Months
    <2>3. MonthStart[m] \in Nat /\ MonthStart[m + 1] \in Nat
      BY <2>2, CalendarIsPositive, CalendarAssumption
    <2>4. MonthStart[m + 1] - MonthStart[m] <= LastDay
      BY <2>2, CalendarAssumption
    <2>5. \A a, b, e \in Int : b <= a /\ a < e /\ e - b <= LastDay => a - b + 1 \in 1..LastDay
      BY CalendarAssumption
    <2>6. DayOfYear(t) - MonthStart[m] + 1 \in 1..LastDay
      BY <2>1, <2>3, <2>4, <2>5
    <2>7. QED
      BY <2>6 DEF m
  <1>5. Month(t) \in Months
    BY DayHasMonth
  <1>6. /\ Date(t)[1] \in Bounds[1] /\ Date(t)[2] \in Bounds[2] /\ Date(t)[3] \in Bounds[3]
        /\ Date(t)[4] \in Bounds[4] /\ Date(t)[5] \in Bounds[5]
    BY <1>1, <1>2, <1>3, <1>4, <1>5 DEF Date, Bounds
  <1>7. \A n \in 1..5 : n = 1 \/ n = 2 \/ n = 3 \/ n = 4 \/ n = 5
    OBVIOUS
  <1>8. QED
    BY <1>6, <1>7

(* Date and weekday are the same after any number of Periods. *)
LEMMA CalendarRepeats ==
  ASSUME NEW t \in Nat, NEW k \in Nat
  PROVE  Date(t + k * Period) = Date(t)
  <1> DEFINE d == k * (YearDays * DaysPerWeek)
             h == d * HoursPerDay
             p == k * Period
  <1>1. d \in Nat /\ h \in Nat /\ p \in Nat
    BY CalendarAssumption, CalendarIsPositive
  <1>2. /\ p = d * DayMinutes /\ p = h * MinutesPerHour
        /\ d = (k * YearDays) * DaysPerWeek /\ d = (k * DaysPerWeek) * YearDays
    <2>1. \A a, b, c \in Nat : a * (b * c) = (a * b) * c /\ a * (b * c) = (a * c) * b
      OBVIOUS
    <2>2. p = d * DayMinutes
      BY <2>1, CalendarAssumption, CalendarIsPositive DEF Period
    <2>3. d = (k * YearDays) * DaysPerWeek /\ d = (k * DaysPerWeek) * YearDays
      BY <2>1, CalendarAssumption, CalendarIsPositive
    <2> HIDE DEF d, p
    <2>4. p = h * MinutesPerHour
      BY <1>1, <2>1, <2>2, CalendarAssumption DEF DayMinutes
    <2>5. QED
      BY <2>2, <2>3, <2>4
  <1> HIDE DEF d, h, p
  <1>3. /\ (t + p) \div MinutesPerHour = (t \div MinutesPerHour) + h
        /\ (t + p) % MinutesPerHour = t % MinutesPerHour
    <2>1. /\ (t + h * MinutesPerHour) \div MinutesPerHour = (t \div MinutesPerHour) + h
          /\ (t + h * MinutesPerHour) % MinutesPerHour = t % MinutesPerHour
      BY <1>1, CalendarAssumption, Repeats
    <2>2. QED
      BY <1>2, <2>1
  <1>4. ((t \div MinutesPerHour) + h) % HoursPerDay = (t \div MinutesPerHour) % HoursPerDay
    <2>1. t \div MinutesPerHour \in Nat
      BY CalendarAssumption, Division
    <2>2. ASSUME NEW a \in Nat PROVE (a + d * HoursPerDay) % HoursPerDay = a % HoursPerDay
      BY <1>1, CalendarAssumption, Repeats
    <2>3. h = d * HoursPerDay
      BY DEF h
    <2>4. QED
      BY <2>1, <2>2, <2>3, Zenon
  <1>5. (t + p) \div DayMinutes = (t \div DayMinutes) + d
    <2>1. (t + d * DayMinutes) \div DayMinutes = (t \div DayMinutes) + d
      BY <1>1, CalendarIsPositive, Repeats
    <2>2. QED
      BY <1>2, <2>1
  <1>6. t \div DayMinutes \in Nat
    BY CalendarIsPositive, Division
  <1>7. ASSUME NEW a \in Nat, NEW i \in Nat, NEW m \in Nat \ {0}, d = i * m
        PROVE  (a + d) % m = a % m
    <2>1. (a + i * m) % m = a % m
      BY Repeats
    <2>2. QED
      BY <1>7, <2>1
  <1>8. ((t \div DayMinutes) + d) % DaysPerWeek = (t \div DayMinutes) % DaysPerWeek
    <2>1. k * YearDays \in Nat /\ DaysPerWeek \in Nat \ {0}
      BY CalendarAssumption, CalendarIsPositive
    <2>2. QED
      BY <1>2, <1>6, <1>7, <2>1, Zenon
  <1>9. ((t \div DayMinutes) + d) % YearDays = (t \div DayMinutes) % YearDays
    <2>1. k * DaysPerWeek \in Nat /\ YearDays \in Nat \ {0}
      BY CalendarAssumption, CalendarIsPositive
    <2>2. QED
      BY <1>2, <1>6, <1>7, <2>1, Zenon
  <1>10. DayOfYear(t + p) = DayOfYear(t)
    BY <1>5, <1>9 DEF DayOfYear
  <1>11. Month(t + p) = Month(t)
    BY <1>10 DEF Month
  <1>12. Date(t + p) = Date(t)
    BY <1>3, <1>4, <1>5, <1>8, <1>10, <1>11 DEF Date
  <1>13. QED
    BY <1>12 DEF p

(* From whatever minute the search of Next starts, the Period minutes that *)
(* follow decide it: a schedule that any minute of the calendar matches,   *)
(* earlier or later, matches one of them, and if none of them matches no   *)
(* minute ever does.                                                       *)
THEOREM OnePeriodIsEnough ==
  ASSUME NEW s \in Nat
  PROVE  (\E t \in Nat : Matches(t)) <=> (\E k \in 0..(Period - 1) : Matches(s + k))
  <1>1. ASSUME NEW t \in Nat, Matches(t) PROVE \E k \in 0..(Period - 1) : Matches(s + k)
    <2> DEFINE a == t + (s * Period - s)
               q == a \div Period
               k == a % Period
    <2>1. s * Period \in Nat /\ s <= s * Period /\ Period \in Nat \ {0}
      <3>1. Period \in Nat \ {0}
        BY CalendarIsPositive
      <3>2. 1 * s <= Period * s /\ Period * s = s * Period /\ s * Period \in Nat
        BY <3>1, ProductIsOrdered
      <3>3. QED
        BY <3>1, <3>2
    <2>2. a \in Nat
      BY <2>1
    <2>3. q \in Nat /\ k \in 0..(Period - 1) /\ a = q * Period + k
      BY <2>1, <2>2, Division
    <2> HIDE DEF q, k
    <2>4. q * Period \in Nat /\ k \in Nat /\ (s + k) + q * Period = t + s * Period
      BY <2>1, <2>3
    <2>5. Date((s + k) + q * Period) = Date(s + k) /\ Date(t + s * Period) = Date(t)
      BY <2>3, <2>4, CalendarRepeats
    <2>6. Matches(s + k)
      BY <1>1, <2>4, <2>5 DEF Matches
    <2>7. QED
      BY <2>3, <2>6
  <1>2. ASSUME NEW k \in 0..(Period - 1), Matches(s + k) PROVE \E t \in Nat : Matches(t)
    BY <1>2, CalendarIsPositive
  <1>3. QED
    BY <1>1, <1>2

-----------------------------------------------------------------------------
(* Parsing. *)

(* The bounds of a field are two numbers in order. *)
LEMMA BoundsAreIntervals ==
  ASSUME NEW n \in 1..5
  PROVE  \E a, b \in Int : a <= b /\ Bounds[n] = a..b
  <1>1. /\ 0 <= MinutesPerHour - 1 /\ 0 <= HoursPerDay - 1 /\ 1 <= LastDay
        /\ 1 <= Len(MonthStart) - 1 /\ 0 <= DaysPerWeek - 1
    BY CalendarAssumption, CalendarIsPositive
  <1>2. /\ MinutesPerHour - 1 \in Int /\ HoursPerDay - 1 \in Int /\ LastDay \in Int
        /\ Len(MonthStart) - 1 \in Int /\ DaysPerWeek - 1 \in Int /\ 0 \in Int /\ 1 \in Int
    BY CalendarAssumption, CalendarIsPositive
  <1>3. /\ Bounds[1] = 0..(MinutesPerHour - 1) /\ Bounds[2] = 0..(HoursPerDay - 1)
        /\ Bounds[3] = 1..LastDay /\ Bounds[4] = 1..(Len(MonthStart) - 1)
        /\ Bounds[5] = 0..(DaysPerWeek - 1)
    BY DEF Bounds, Months
  <1>4. n = 1 \/ n = 2 \/ n = 3 \/ n = 4 \/ n = 5
    OBVIOUS
  <1>5. QED
    BY <1>1, <1>2, <1>3, <1>4, Zenon

(* A field that is not refused stands for some values within its bounds.   *)
LEMMA ParsedFields ==
  ASSUME NEW e \in Exprs, NEW n \in 1..5, FieldAllowed(e, Bounds[n])
  PROVE  LET f == parseCronField(e, Bounds[n])
         IN f \subseteq Bounds[n] /\ f # {} /\ f \in SUBSET Int
  <1>1. PICK a, b \in Int : a <= b /\ Bounds[n] = a..b
    BY BoundsAreIntervals
  <1>2. a..b # {} /\ a..b \subseteq Int
    <2>1. a \in a..b
      BY <1>1
    <2>2. QED
      BY <2>1
  <1>3. CASE e = Star
    BY <1>1, <1>2, <1>3 DEF parseCronField
  <1>4. CASE e # Star
    <2>1. /\ e \in Seq(Parts) /\ e # <<>>
          /\ \A i \in DOMAIN e : PartAllowed(e[i], a..b)
      BY <1>1, <1>4, ExprsAssumption DEF FieldAllowed
    <2>2. ASSUME NEW i \in DOMAIN e PROVE Covered(e[i]) \subseteq a..b /\ Covered(e[i]) # {}
      <3>1. /\ e[i].lo \in Int /\ e[i].hi \in Int /\ PartAllowed(e[i], a..b)
        <4>1. e[i] \in Parts
          BY <2>1, <2>2, LenProperties
        <4>2. QED
          BY <2>1, <2>2, <4>1 DEF Parts
      <3>2. QED
        BY <1>1, <3>1 DEF PartAllowed, Covered
    <2>3. 1 \in DOMAIN e
      BY <2>1
    <2>4. parseCronField(e, a..b) = UNION {Covered(e[i]) : i \in DOMAIN e}
      BY <1>4 DEF parseCronField
    <2>5. parseCronField(e, a..b) \subseteq a..b /\ parseCronField(e, a..b) # {}
      BY <2>2, <2>3, <2>4
    <2>6. QED
      BY <1>1, <1>2, <2>5
  <1>5. QED
    BY <1>3, <1>4

-----------------------------------------------------------------------------
(* Steps. *)

LEMMA FirstMinuteFacts ==
  ASSUME after \in Nat
  PROVE  /\ FirstMinute \in Nat /\ FirstMinute * Tick > after
         /\ \A u \in Nat : u * Tick > after => u >= FirstMinute
  <1> DEFINE q == FirstMinute
  <1>1. /\ q \in Nat /\ (after + Tick) % Tick \in 0..(Tick - 1) /\ Tick \in Nat \ {0}
        /\ after + Tick = q * Tick + ((after + Tick) % Tick)
    <2>1. after + Tick \in Nat /\ Tick \in Nat \ {0}
      BY CalendarAssumption
    <2>2. QED
      BY <2>1, Division DEF FirstMinute
  <1> HIDE DEF q
  <1>2. q * Tick \in Nat /\ q * Tick > after /\ q * Tick <= after + Tick
    BY <1>1
  <1>3. ASSUME NEW u \in Nat, u < q PROVE ~(u * Tick > after)
    <2>1. (u + 1) * Tick <= q * Tick
      BY <1>1, <1>3, ProductIsOrdered
    <2>2. (u + 1) * Tick = u * Tick + Tick /\ u * Tick \in Nat
      BY <1>1, Distributes
    <2>3. QED
      BY <1>1, <1>2, <2>1, <2>2
  <1>4. \A u \in Nat : u * Tick > after => u >= q
    BY <1>1, <1>3
  <1>5. QED
    BY <1>1, <1>2, <1>4 DEF q

LEMMA CronInit == Init => CronInv
  <1> SUFFICES ASSUME Init PROVE CronInv
    OBVIOUS
  <1>1. 0 \in 0..(Period - 1)
    BY CalendarIsPositive
  <1>2. QED
    BY <1>1 DEF Init, CronInv, TypeOK, Sought

(* ParseCron accepts or refuses a field. *)
LEMMA ParseStep ==
  ASSUME CronInv, NEW e \in Exprs, ParseField(e)
  PROVE  CronInv'
  <1> DEFINE n == Len(fields) + 1
  <1>1. /\ pc = "parsing" /\ Len(fields) \in 0..4 /\ n \in 1..5 /\ fields \in Seq(SUBSET Int)
        /\ TypeOK /\ Sought
    <2>1. pc = "parsing" /\ Len(fields) < 5 /\ TypeOK /\ Sought /\ fields \in Seq(SUBSET Int)
      BY DEF CronInv, ParseField, TypeOK
    <2>2. Len(fields) \in Nat
      BY <2>1, LenProperties
    <2>3. \A i \in Nat : i < 5 => i \in 0..4 /\ i + 1 \in 1..5
      OBVIOUS
    <2>4. QED
      BY <2>1, <2>2, <2>3
  <1>2. UNCHANGED <<after, offset>>
    BY DEF ParseField
  <1>3. CASE FieldAllowed(e, Bounds[n]) /\ fields' = Append(fields, parseCronField(e, Bounds[n]))
             /\ UNCHANGED pc
    <2> DEFINE f == parseCronField(e, Bounds[n])
    <2>1. f \subseteq Bounds[n] /\ f # {} /\ f \in SUBSET Int
      BY <1>1, <1>3, ParsedFields
    <2> HIDE DEF f
    <2>2. fields' = Append(fields, f)
      BY <1>3 DEF f
    <2>3. /\ fields' \in Seq(SUBSET Int) /\ Len(fields') = n
          /\ \A i \in 1..Len(fields) : fields'[i] = fields[i]
          /\ fields'[n] = f
      BY <1>1, <2>1, <2>2, AppendProperties
    <2>4. \A i \in DOMAIN fields' : i \in 1..Len(fields) \/ i = n
      BY <1>1, <2>3
    <2>5. \A i \in DOMAIN fields' : fields'[i] # {} /\ fields'[i] \subseteq Bounds[i]
      BY <1>1, <2>1, <2>3, <2>4 DEF TypeOK
    <2>6. Len(fields') <= 5
      BY <1>1, <2>3
    <2>7. TypeOK'
      BY <1>1, <1>2, <1>3, <2>3, <2>5, <2>6 DEF TypeOK
    <2>8. Sought'
      BY <1>1, <1>2, <1>3 DEF Sought
    <2>9. QED
      BY <2>7, <2>8 DEF CronInv
  <1>4. CASE pc' = "fallback" /\ UNCHANGED fields
    BY <1>1, <1>2, <1>4 DEF CronInv, TypeOK, Sought
  <1>5. QED
    BY <1>3, <1>4 DEF ParseField

(* A turn of the loop of Next. *)
LEMMA SearchStep ==
  ASSUME CronInv, Search
  PROVE  CronInv'
  <1>1. /\ pc = "searching" /\ TypeOK /\ Sought /\ offset \in 0..(Period - 1)
        /\ after \in Nat /\ UNCHANGED <<fields, after>> /\ Period \in Nat \ {0}
    BY CalendarAssumption, CalendarIsPositive DEF CronInv, Search, TypeOK
  <1>2. FirstMinute \in Nat /\ FirstMinute' = FirstMinute
    BY <1>1, FirstMinuteFacts DEF FirstMinute
  <1>3. \A t : Matches(t)' <=> Matches(t)
    BY <1>1 DEF Matches
  <1>4. CASE Matches(FirstMinute + offset) /\ pc' = "returned" /\ UNCHANGED offset
    <2>1. TypeOK'
      BY <1>1, <1>4 DEF TypeOK
    <2>2. Sought'
      BY <1>1, <1>2, <1>3, <1>4 DEF Sought
    <2>3. QED
      BY <2>1, <2>2 DEF CronInv
  <1>5. CASE ~Matches(FirstMinute + offset) /\ offset' = (offset + NextTurn) % Period /\ UNCHANGED pc
    <2>1. offset' = (offset + 1) % Period
      BY <1>5 DEF NextTurn
    <2>2. offset' \in 0..(Period - 1) /\ (offset' = offset + 1 \/ offset' = 0)
      <3>1. CASE offset + 1 \in 0..(Period - 1)
        <4>1. (0 * Period + (offset + 1)) % Period = offset + 1
          BY <1>1, <3>1, DivisionIsUnique
        <4>2. 0 * Period + (offset + 1) = offset + 1
          BY <1>1
        <4>3. QED
          BY <2>1, <3>1, <4>1, <4>2
      <3>2. CASE offset + 1 = Period
        <4>1. (1 * Period + 0) % Period = 0
          BY <1>1, DivisionIsUnique
        <4>2. 1 * Period + 0 = Period
          BY <1>1
        <4>3. QED
          BY <1>1, <2>1, <3>2, <4>1, <4>2
      <3>3. QED
        BY <1>1, <3>1, <3>2
    <2>3. TypeOK'
      BY <1>1, <1>5, <2>2 DEF TypeOK
    <2>4. \A k \in 0..(offset' - 1) : ~Matches(FirstMinute + k)
      <3>1. \A k \in 0..(offset' - 1) : k \in 0..(offset - 1) \/ k = offset
        <4>1. offset \in Nat /\ offset' \in Nat /\ offset' <= offset + 1
          BY <1>1, <2>2
        <4>2. \A i, j \in Nat : j <= i + 1 => \A k \in 0..(j - 1) : k \in 0..(i - 1) \/ k = i
          OBVIOUS
        <4>3. QED
          BY <4>1, <4>2
      <3>2. QED
        BY <1>1, <1>5, <3>1 DEF Sought
    <2>5. Sought'
      BY <1>1, <1>2, <1>3, <1>5, <2>4 DEF Sought
    <2>6. QED
      BY <2>3, <2>5 DEF CronInv
  <1>6. QED
    BY <1>4, <1>5 DEF Search

LEMMA CronStep == CronInv /\ [Next]_cronVars => CronInv'
  <1> SUFFICES ASSUME CronInv, [Next]_cronVars PROVE CronInv'
    OBVIOUS
  <1>1. CASE StartSearch
    <2>1. offset = 0 /\ UNCHANGED <<fields, after, offset>> /\ pc' = "searching" /\ Len(fields) = 5
      BY <1>1 DEF StartSearch, CronInv, Sought
    <2>2. 0..(0 - 1) = {}
      OBVIOUS
    <2>3. QED
      BY <2>1, <2>2 DEF CronInv, TypeOK, Sought
  <1>2. ASSUME NEW e \in Exprs, ParseField(e) PROVE CronInv'
    BY <1>2, ParseStep
  <1>3. CASE Search
    BY <1>3, SearchStep
  <1>4. CASE UNCHANGED cronVars
    <2>1. \A t : Matches(t)' <=> Matches(t)
      BY <1>4 DEF Matches, cronVars
    <2>2. FirstMinute' = FirstMinute
      BY <1>4 DEF FirstMinute, cronVars
    <2>3. QED
      BY <1>4, <2>1, <2>2 DEF CronInv, TypeOK, Sought, cronVars
  <1>5. QED
    BY <1>1, <1>2, <1>3, <1>4 DEF Next

THEOREM CronSafe == CronSpec => []CronInv
  BY CronInit, CronStep, PTL DEF CronSpec

(* What ParseCron accepts has five fields of values within their bounds,   *)
(* none of them empty.                                                     *)
THEOREM CronTypeCorrect == CronSpec => []TypeOK
  <1>1. CronInv => TypeOK
    BY DEF CronInv
  <1>2. QED
    BY <1>1, CronSafe, PTL

(* CronSchedule.Next returns the first minute after the call that matches  *)
(* every field.                                                            *)
THEOREM FirstMatchSafe == CronSpec => []NextIsFirstMatch
  <1>1. CronInv => NextIsFirstMatch
    <2> SUFFICES ASSUME CronInv, pc = "returned"
                 PROVE  LET t == FirstMinute + offset IN
                          /\ t * Tick > after /\ Matches(t)
                          /\ \A u \in 0..(t - 1) : u * Tick > after => ~Matches(u)
      BY DEF NextIsFirstMatch
    <2> DEFINE t == FirstMinute + offset
    <2>1. /\ after \in Nat /\ offset \in Nat /\ Tick \in Nat \ {0} /\ Sought
      BY CalendarAssumption, CalendarIsPositive DEF CronInv, TypeOK
    <2>2. /\ FirstMinute \in Nat /\ FirstMinute * Tick > after
          /\ \A u \in Nat : u * Tick > after => u >= FirstMinute
      BY <2>1, FirstMinuteFacts
    <2>3. t * Tick > after
      <3>1. FirstMinute * Tick <= t * Tick /\ FirstMinute * Tick \in Nat /\ t * Tick \in Nat
        BY <2>1, <2>2, ProductIsOrdered
      <3>2. QED
        BY <2>1, <2>2, <3>1
    <2>4. ASSUME NEW u \in 0..(t - 1), u * Tick > after PROVE ~Matches(u)
      <3>1. u \in Nat /\ u >= FirstMinute
        BY <2>1, <2>2, <2>4
      <3>2. u - FirstMinute \in 0..(offset - 1) /\ FirstMinute + (u - FirstMinute) = u
        BY <2>1, <2>2, <2>4, <3>1
      <3>3. ~Matches(FirstMinute + (u - FirstMinute))
        BY <2>1, <3>2 DEF Sought
      <3>4. QED
        BY <3>2, <3>3
    <2>5. Matches(t)
      BY <2>1 DEF Sought
    <2>6. QED
      BY <2>3, <2>4, <2>5
  <1>2. QED
    BY <1>1, CronSafe, PTL

(* The model takes a search back to its first minute only when no minute   *)
(* of the calendar matches: the loop of CronSchedule.Next, which has no    *)
(* bound, then never returns.                                              *)
THEOREM OnlyEndlessSearchesWrap ==
  CronSpec => [][Search /\ pc' = "searching" /\ offset' = 0 => \A t \in Nat : ~Matches(t)]_cronVars
  <1>1. CronInv /\ [Next]_cronVars
          => [Search /\ pc' = "searching" /\ offset' = 0 => \A t \in Nat : ~Matches(t)]_cronVars
    <2> SUFFICES ASSUME CronInv, Search, pc' = "searching", offset' = 0
                 PROVE  \A t \in Nat : ~Matches(t)
      OBVIOUS
    <2>1. /\ offset \in 0..(Period - 1) /\ Period \in Nat \ {0} /\ after \in Nat
          /\ ~Matches(FirstMinute + offset) /\ offset' = (offset + 1) % Period
          /\ \A k \in 0..(offset - 1) : ~Matches(FirstMinute + k)
      BY CalendarAssumption, CalendarIsPositive DEF Search, CronInv, TypeOK, Sought, NextTurn
    <2>2. offset = Period - 1
      <3>1. CASE offset + 1 \in 0..(Period - 1)
        <4>1. (0 * Period + (offset + 1)) % Period = offset + 1
          BY <2>1, <3>1, DivisionIsUnique
        <4>2. 0 * Period + (offset + 1) = offset + 1
          BY <2>1
        <4>3. QED
          BY <2>1, <4>1, <4>2
      <3>2. QED
        BY <2>1, <3>1
    <2>3. \A k \in 0..(Period - 1) : ~Matches(FirstMinute + k)
      <3>1. \A k \in 0..(Period - 1) : k \in 0..(offset - 1) \/ k = offset
        BY <2>1, <2>2
      <3>2. QED
        BY <2>1, <3>1
    <2>4. FirstMinute \in Nat
      BY <2>1, FirstMinuteFacts
    <2>5. QED
      BY <2>3, <2>4, OnePeriodIsEnough
  <1>2. QED
    BY <1>1, CronSafe, PTL DEF CronSpec
=============================================================================
