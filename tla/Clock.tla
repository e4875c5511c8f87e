------------------------------- MODULE Clock -------------------------------
(***************************************************************************)
(* The wall clock the operational services read, in units that matter to   *)
(* them (a cooldown, a day of retention).                                  *)
(***************************************************************************)
EXTENDS Naturals

CONSTANT MaxTime

ASSUME ClockAssumption == MaxTime \in Nat

VARIABLE now

ClockInit == now = 0
Tick == now < MaxTime /\ now' = now + 1
=============================================================================
