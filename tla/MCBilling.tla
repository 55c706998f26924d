------------------------------ MODULE MCBilling ------------------------------
(***************************************************************************)
(* Small instances of Billing for TLC.                                     *)
(***************************************************************************)
EXTENDS Billing

\* Lists of charges in tenths of a cent, all of them whole cents.
WholeCents == {<<>>, <<20>>, <<10, 20>>}

Interchangeable == Permutations(Contracts) \cup Permutations(Bills)
                     \cup Permutations(Requests) \cup Permutations(Periods)
=============================================================================
