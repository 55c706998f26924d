------------------------------- MODULE Billing -------------------------------
(***************************************************************************)
(* Making bills and charging utilities: GenerateBills and UpdateUtilities  *)
(* of BillingService (internal/service/billing.go).                        *)
(*                                                                         *)
(* One action is one SQL statement of one request.  The contracts table is *)
(* written by Occupancy; here a contract is signed and ended by            *)
(* environment actions.  Callers who do not own the property leave before  *)
(* anything is written and are not modelled.                               *)
(***************************************************************************)
EXTENDS Money, SequencesExt

CONSTANTS
    Contracts, Bills, Periods,
    MonthlyPrice,   \* contracts.monthly_price
    ChargeLists,    \* the lists of charges UpdateUtilities requests carry
    Requests,       \* requests that may be in flight at once
    Serial,         \* TRUE: one request at a time
    Faults,         \* TRUE: a statement may fail, a request may die
    None            \* SQL NULL, or no row

ASSUME ConstantsAssumption ==
    /\ None \notin Contracts \cup Bills \cup Periods \cup Nat
    /\ MonthlyPrice \in Nat
    /\ ChargeLists \subseteq Seq(Nat)
    /\ Serial \in BOOLEAN
    /\ Faults \in BOOLEAN

VARIABLES
    contractStatus,  \* contracts.status, "none" while there is no row
    bill,            \* the bills table, None where there is no row
    charged,         \* SUM(amount) of the utility_charges rows of a bill
    torn,            \* history: bills whose last UpdateUtilities ended half-way
    pc,
    req

vars == <<contractStatus, bill, charged, torn, pc, req>>

BillRow == [contract : Contracts, period : Periods, base : Nat,
            utility : Nat \cup {None}, penalty : Nat \cup {None}]

ASSUME NoneIsNoRow == None \notin BillRow

Steps == {"idle", "gb_list", "gb_insert",
          "uu_bill", "uu_delete", "uu_insert"}

\* The skipped contracts of a request are history.
Blank == [period |-> None, todo |-> {}, skipped |-> {}, bill |-> None,
          charges |-> <<>>, total |-> 0]

-----------------------------------------------------------------------------
(* Control of a request *)

Goto(q, l) == pc' = [pc EXCEPT ![q] = l]

Finish(q) == /\ pc' = [pc EXCEPT ![q] = "idle"]
             /\ req' = [req EXCEPT ![q] = Blank]

Quiescent == \A q \in Requests : pc[q] = "idle"

Begin(q, l, r) == /\ pc[q] = "idle"
                  /\ Serial => Quiescent
                  /\ Goto(q, l)
                  /\ req' = [req EXCEPT ![q] = r]
                  /\ UNCHANGED <<contractStatus, bill, charged, torn>>

-----------------------------------------------------------------------------
(* GenerateBills *)

NoRow(b)  == bill[b] = None
ActiveNow == {c \in Contracts : contractStatus[c] = "active"}

\* Bound: a GenerateBills request starts only while identifiers are left for a
\* bill of every contract, for it and for those in flight.
BillsLeft ==
    Cardinality({b \in Bills : NoRow(b)})
      >= Cardinality(Contracts)
           * (1 + Cardinality({q \in Requests : pc[q] \in {"gb_list", "gb_insert"}}))

BeginGenerate(q) ==
    BillsLeft /\ \E m \in Periods : Begin(q, "gb_list", [Blank EXCEPT !.period = m])

\* Mutant: only the first row of the list is taken.
ListOnePage(q) ==
    /\ pc[q] = "gb_list"
    /\ \E s \in SUBSET ActiveNow :
          /\ Cardinality(s) = IF ActiveNow = {} THEN 0 ELSE 1
          /\ req' = [req EXCEPT ![q].todo = s]
    /\ Goto(q, "gb_insert")
    /\ UNCHANGED <<contractStatus, bill, charged, torn>>

GenerateList(q) ==
    /\ pc[q] = "gb_list"
    /\ req' = [req EXCEPT ![q].todo = ActiveNow]
    /\ Goto(q, "gb_insert")
    /\ UNCHANGED <<contractStatus, bill, charged, torn>>

\* CreateBill passes NULL for both amounts, which overrides DEFAULT 0.
GenerateInsert(q) ==
    /\ pc[q] = "gb_insert"
    /\ \E c \in req[q].todo, b \in Bills :
          /\ NoRow(b)
          /\ bill' = [bill EXCEPT ![b] =
                [contract |-> c, period |-> req[q].period, base |-> MonthlyPrice,
                 utility |-> None, penalty |-> None]]
          /\ req' = [req EXCEPT ![q].todo = @ \ {c}]
    /\ UNCHANGED <<contractStatus, charged, torn, pc>>

\* Whatever error an insert returns, the loop goes on with the next contract.
GenerateSkip(q) ==
    /\ Faults
    /\ pc[q] = "gb_insert"
    /\ \E c \in req[q].todo :
          req' = [req EXCEPT ![q].todo = @ \ {c}, ![q].skipped = @ \cup {c}]
    /\ UNCHANGED <<contractStatus, bill, charged, torn, pc>>

GenerateReturn(q) ==
    /\ pc[q] = "gb_insert"
    /\ req[q].todo = {}
    /\ Finish(q)
    /\ UNCHANGED <<contractStatus, bill, charged, torn>>

-----------------------------------------------------------------------------
(* UpdateUtilities *)

\* Mutant: the bill need not exist.
ChargeAnyBill(q) ==
    \E b \in Bills, l \in ChargeLists :
       Begin(q, "uu_bill", [Blank EXCEPT !.bill = b, !.charges = l])

BeginUtilities(q) ==
    \E b \in Bills, l \in ChargeLists :
       /\ ~NoRow(b)                                \* else ErrNotFound
       /\ Begin(q, "uu_bill", [Blank EXCEPT !.bill = b, !.charges = l])

\* GetBill and the ownership check; the status of the bill is not looked at.
UtilitiesGetBill(q) ==
    /\ pc[q] = "uu_bill"
    /\ Goto(q, "uu_delete")
    /\ UNCHANGED <<contractStatus, bill, charged, torn, req>>

\* Mutant: earlier charges stay.
KeepOldCharges(q) ==
    /\ pc[q] = "uu_delete"
    /\ Goto(q, "uu_insert")
    /\ UNCHANGED <<contractStatus, bill, charged, torn, req>>

UtilitiesDelete(q) ==
    /\ pc[q] = "uu_delete"
    /\ charged' = [charged EXCEPT ![req[q].bill] = 0]
    /\ Goto(q, "uu_insert")
    /\ UNCHANGED <<contractStatus, bill, torn, req>>

\* A charge is stored in cents; the total adds up what the request asked.
UtilitiesInsert(q) ==
    /\ pc[q] = "uu_insert"
    /\ req[q].charges # <<>>
    /\ charged' = [charged EXCEPT ![req[q].bill] = @ + Cents(Head(req[q].charges))]
    /\ req' = [req EXCEPT ![q].total = @ + Head(req[q].charges),
                          ![q].charges = Tail(@)]
    /\ UNCHANGED <<contractStatus, bill, torn, pc>>

UtilitiesUpdate(q) ==
    /\ pc[q] = "uu_insert"
    /\ req[q].charges = <<>>
    /\ bill' = [bill EXCEPT ![req[q].bill].utility = Cents(req[q].total)]
    /\ torn' = torn \ {req[q].bill}
    /\ Finish(q)
    /\ UNCHANGED <<contractStatus, charged>>

-----------------------------------------------------------------------------
(* The contracts table and faults *)

Sign(c) == /\ contractStatus[c] = "none"
           /\ contractStatus' = [contractStatus EXCEPT ![c] = "active"]

End(c) == /\ contractStatus[c] = "active"
          /\ contractStatus' = [contractStatus EXCEPT ![c] = "terminated"]

ContractChange == /\ Serial => Quiescent
                  /\ \E c \in Contracts : Sign(c) \/ End(c)
                  /\ UNCHANGED <<bill, charged, torn, pc, req>>

\* The request ends between two statements: one whose error is returned fails,
\* the client goes away, or the process is killed.
Abandon(q) == /\ Faults
              /\ pc[q] # "idle"
              /\ torn' = IF pc[q] = "uu_insert" THEN torn \cup {req[q].bill} ELSE torn
              /\ Finish(q)
              /\ UNCHANGED <<contractStatus, bill, charged>>

-----------------------------------------------------------------------------
(* The specification *)

Init == /\ contractStatus = [c \in Contracts |-> "none"]
        /\ bill = [b \in Bills |-> None]
        /\ charged = [b \in Bills |-> 0]
        /\ torn = {}
        /\ pc = [q \in Requests |-> "idle"]
        /\ req = [q \in Requests |-> Blank]

Generate(q) == BeginGenerate(q) \/ GenerateList(q) \/ GenerateInsert(q)
                 \/ GenerateSkip(q) \/ GenerateReturn(q)

Utilities(q) == BeginUtilities(q) \/ UtilitiesGetBill(q) \/ UtilitiesDelete(q)
                  \/ UtilitiesInsert(q) \/ UtilitiesUpdate(q)

Next == \/ ContractChange
        \/ \E q \in Requests : Generate(q) \/ Utilities(q) \/ Abandon(q)

Spec == Init /\ [][Next]_vars

-----------------------------------------------------------------------------
(* Properties *)

Rows == {b \in Bills : ~NoRow(b)}

\* Type invariant: the tables hold rows of their columns' types, a request that
\* charges a bill works on one that has a row, and charges are whole cents.
TypeOK ==
    /\ contractStatus \in [Contracts -> {"none", "active", "terminated"}]
    /\ bill \in [Bills -> BillRow \cup {None}]
    /\ charged \in [Bills -> Nat]
    /\ torn \subseteq Bills
    /\ pc \in [Requests -> Steps]
    /\ req \in [Requests -> [period : Periods \cup {None},
                              todo : SUBSET Contracts,
                              skipped : SUBSET Contracts,
                              bill : Bills \cup {None},
                              charges : Seq(Nat), total : Nat]]
    /\ \A q \in Requests :
         /\ pc[q] \in {"gb_list", "gb_insert"} => req[q].period \in Periods
         /\ pc[q] \in {"uu_bill", "uu_delete", "uu_insert"} => req[q].bill \in Rows
    /\ \A b \in Bills : charged[b] % 10 = 0

\* Requests handled one at a time, with charges in whole cents: the utility amount
\* of a bill is the sum of its charges (billing.go: UpdateUtilities "replaces all
\* utility charges for a bill and recalculates utility_amount").  One that ended
\* half-way breaks this for its bill, and the next that completes repairs it.
UtilityMatchesCharges ==
    Quiescent =>
      \A b \in Rows \ torn : charged[b] = IF bill[b].utility = None
                                          THEN 0 ELSE bill[b].utility

\* Requests handled one at a time: when GenerateBills returns, every active
\* contract has a bill for the period it was asked for, except the contracts whose
\* insert failed, however many times the period was generated before.
EveryActiveContractBilled ==
    [][\A q \in Requests :
         pc[q] = "gb_insert" /\ req[q].todo = {} /\ pc'[q] = "idle" =>
           \A c \in ActiveNow \ req[q].skipped : \E b \in Rows :
              bill[b].contract = c /\ bill[b].period = req[q].period]_vars
=============================================================================
