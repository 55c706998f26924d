------------------------------- MODULE MCLocks -------------------------------
(***************************************************************************)
(* The two places where a request holds a lock while it waits for someone  *)
(* else: the key cache, for the identity provider, and a layout, for the   *)
(* next row.  They share no variable, and every property is about one of   *)
(* them; what the other does in between is a stuttering step to it.  So    *)
(* only one of them moves in a behaviour, and the run explores the sum of  *)
(* their states instead of the product.                                    *)
(***************************************************************************)
EXTENDS KeyCache, Layout

CONSTANTS r1, r2    \* rooms

\* Two layouts that wait for one another, and one that names less.
SomeLayouts == {<<r1, r2>>, <<r2, r1>>, <<r2>>}

VARIABLE moving

Init ==
    /\ KeyInit
    /\ LayoutInit
    /\ \/ moving = "keys"
       \/ moving = "layout" /\ published = [i \in Issuers |-> Kids]

MoveKeys ==
    /\ moving = "keys"
    /\ KeyNext
    /\ UNCHANGED <<layoutVars, moving>>

MoveLayout ==
    /\ moving = "layout"
    /\ LayoutNext
    /\ UNCHANGED <<keyVars, moving>>

Next == MoveKeys \/ MoveLayout

\* Where a component does not move, no step is enabled that its fairness names.
Spec == Init /\ [][Next]_<<keyVars, layoutVars, moving>> /\ KeyFairness /\ LayoutFairness

\* Type invariant of both.
TypeOK == KeyTypeOK /\ LayoutTypeOK
=============================================================================
