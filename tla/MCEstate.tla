------------------------------ MODULE MCEstate ------------------------------
(***************************************************************************)
(* The owner's side in one run.  Estate and Export share no variable, and  *)
(* a property of one sees a step of the other as a stutter; so only one of *)
(* them moves in a behaviour, and the run explores the sum of their states *)
(* instead of the product.                                                 *)
(***************************************************************************)
EXTENDS Estate, Export, TLC

CONSTANTS p1, p2    \* the properties of an export

Row(t, p, b) == [table |-> t, estate |-> p, bill |-> b]

\* A row of each table under p1, and a bill with its payment under p2.
ExportRecords ==
    {Row(t, p1, NoBill) : t \in {"rooms", "tenants", "contracts"}} \cup
    UNION {LET b == Row("bills", p, NoBill) IN {b, Row("payments", p, b)} : p \in {p1, p2}}

VARIABLE moving

Init == EstateInit /\ ExportInit /\ moving \in {"estate", "export"}

MoveEstate ==
    /\ moving = "estate"
    /\ EstateNext
    /\ UNCHANGED <<exportVars, moving>>

MoveExport ==
    /\ moving = "export"
    /\ ExportNext
    /\ UNCHANGED <<estateVars, moving>>

Next == MoveEstate \/ MoveExport

Spec == Init /\ [][Next]_<<estateVars, exportVars, moving>>

\* Type invariant of both.
TypeOK == EstateTypeOK /\ ExportTypeOK

Symmetry == Permutations(Rooms) \cup Permutations(Requests)
=============================================================================
