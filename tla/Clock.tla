-------------------------------- MODULE Clock --------------------------------
(***************************************************************************)
(* The clock that time.Now() reads, in ticks.  The modules that extend it  *)
(* say when it may advance: never past a deadline the code has set.        *)
(***************************************************************************)
EXTENDS Naturals

CONSTANT MaxTime    \* bound: the clock stops here

ASSUME MaxTimeIsNatural == MaxTime \in Nat

VARIABLE now

Advance == now < MaxTime /\ now' = now + 1
==============================================================================
