------------------------------- MODULE MCFiles -------------------------------
(***************************************************************************)
(* Small instances of Files for TLC.                                       *)
(***************************************************************************)
EXTENDS Files, TLC

EveryFault == FaultKinds
NoFault    == {}

Interchangeable == Permutations(Files) \cup Permutations(Tickets)
                     \cup Permutations(Requests)
=============================================================================
