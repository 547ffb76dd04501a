------------------------------- MODULE Brightness -------------------------------
(***************************************************************************)
(* The brightness plan (manifest/brightness.go): periods of the day, each  *)
(* with a brightness and perhaps without the media area.  A period         *)
(* includes its start and not its end, and may pass midnight.              *)
(***************************************************************************)
EXTENDS Naturals, FiniteSets

CONSTANTS
  Day,              \* minutes of a day
  Percents,         \* the steps of brightness, 100 among them
  MaxPeriods        \* MaxBrightnessPeriods

ASSUME DayAssumption == Day \in Nat \ {0} /\ 100 \in Percents /\ MaxPeriods \in Nat

Minutes == 0 .. Day - 1
Periods == [start : Minutes, end : Minutes, percent : Percents, hideMedia : BOOLEAN]

Covers(p, m) ==
  IF p.start < p.end THEN p.start <= m /\ m < p.end ELSE p.start <= m \/ m < p.end

(* ValidateBrightness: no period is empty, and no two meet.                *)
Valid(plan) ==
  /\ plan \subseteq Periods /\ IsFiniteSet(plan) /\ Cardinality(plan) <= MaxPeriods
  /\ \A p \in plan : p.start # p.end
  /\ \A m \in Minutes : \A p, q \in plan : Covers(p, m) /\ Covers(q, m) => p = q

(* BrightnessAt, and whether the media area plays.                         *)
BrightnessAt(plan, m) ==
  IF \E p \in plan : Covers(p, m)
  THEN LET p == CHOOSE q \in plan : Covers(q, m)
       IN [percent |-> p.percent, media |-> ~p.hideMedia]
  ELSE [percent |-> 100, media |-> TRUE]
================================================================================
