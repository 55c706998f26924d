----------------------------- MODULE MCOccupancy -----------------------------
(***************************************************************************)
(* Small instances of Occupancy for TLC.                                   *)
(***************************************************************************)
EXTENDS Occupancy, TLC

CONSTANTS r1, r2, p1, p2, o1

\* One owner with one property that has every room.
OneProperty   == {p1}
AllInOne      == [r \in Rooms |-> p1]
OneOwner      == [p \in Properties |-> o1]

\* One owner with two properties, a room in each.
TwoProperties == {p1, p2}
RoomInEach    == (r1 :> p1) @@ (r2 :> p2)

\* Amounts in tenths of a cent.  0.6 cents are recorded as 1 and 2.4 as 2, so
\* that a refund of 0.6 is rounded up to a deposit of 1, and a refund of 2.4 is
\* refused although the deposit was 2.4 as well.
OneAmount  == {0}
TwoAmounts == {10, 20}
OddAmounts == {6, 24}

NoRoomRequests == {}
KeepStatus == {Keep}

Interchangeable == Permutations(Tenants) \cup Permutations(Contracts)
                     \cup Permutations(Requests)
=============================================================================
