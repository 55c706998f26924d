---------------------------- MODULE ContractLedger ----------------------------
(***************************************************************************)
(* What the contracts table promises, whoever writes it and in whatever    *)
(* order: a contract is signed once, is terminated at most once and for    *)
(* good, and gives back at most its deposit, after its termination.  The   *)
(* parties of a contract and its deposit never change.                     *)
(***************************************************************************)
EXTENDS Integers

CONSTANTS Contracts, Tenants, Rooms, Properties,
          Deposits,   \* the amounts a deposit may be recorded as
          None

VARIABLE contract

Sign(c) ==
    /\ contract[c] = None
    /\ \E t \in Tenants, r \in Rooms, p \in Properties, d \in Deposits :
          contract' = [contract EXCEPT ![c] =
             [tenant |-> t, room |-> r, property |-> p, status |-> "active",
              deposit |-> d, refunded |-> 0]]

Terminate(c) ==
    /\ contract[c] # None
    /\ contract' = [contract EXCEPT ![c].status = "terminated"]

\* A second check-out of the same contract may record another refund.
Refund(c) ==
    /\ contract[c] # None
    /\ contract[c].status = "terminated"
    /\ \E a \in 0 .. contract[c].deposit :
          contract' = [contract EXCEPT ![c].refunded = a]

Init == contract = [c \in Contracts |-> None]

Next == \E c \in Contracts : Sign(c) \/ Terminate(c) \/ Refund(c)

Spec == Init /\ [][Next]_contract

=============================================================================
