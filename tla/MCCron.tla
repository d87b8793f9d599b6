------------------------------- MODULE MCCron -------------------------------
(* Cron with a small calendar: two minutes to the hour, two hours to the   *)
(* day, a year of a month of three days and one of two, weeks of two days. *)
EXTENDS Cron

Value(v) == [kind |-> "value", lo |-> v, hi |-> v]
Between(a, b) == [kind |-> "range", lo |-> a, hi |-> b]
Bad == [kind |-> "bad", lo |-> 0, hi |-> 0]

(* "*", values in and out of bounds, a range, one the wrong way round, one *)
(* that is too long, a list, and lists with a part that is refused.        *)
FieldExprs ==
  {Star, <<Bad>>} \cup {<<Value(v)>> : v \in 0..4} \cup
  {<<Between(1, 2)>>, <<Between(0, 1)>>, <<Between(2, 1)>>, <<Between(1, 9)>>,
   <<Value(1), Value(3)>>, <<Value(0), Value(1)>>, <<Value(1), Bad>>}
Year == <<0, 3, 5>>
EveryAfter == 0..19
=============================================================================
