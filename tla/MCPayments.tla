----------------------------- MODULE MCPayments ------------------------------
(***************************************************************************)
(* Small instances of Payments for TLC.                                    *)
(***************************************************************************)
EXTENDS Payments, TLC

NoFault    == {}
EveryFault == FaultKinds

Interchangeable == Permutations(Bills) \cup Permutations(Payments)
                     \cup Permutations(Requests)
=============================================================================
