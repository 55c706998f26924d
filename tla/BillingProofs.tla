---------------------------- MODULE BillingProofs ----------------------------
(***************************************************************************)
(* What Billing guarantees for any contracts, bills, periods and requests, *)
(* and any price.                                                          *)
(*                                                                         *)
(* The promises of GenerateBills and of UpdateUtilities are about loops    *)
(* that a failure leaves half done.  BilledInv and ChargeInv say how far a *)
(* loop is: what it has passed by has a bill or was skipped, and what it   *)
(* has inserted adds up to its running total.                              *)
(***************************************************************************)
EXTENDS Billing, SequenceTheorems, TLAPS

Request == [period : Periods \cup {None}, todo : SUBSET Contracts,
            skipped : SUBSET Contracts, bill : Bills \cup {None},
            charges : Seq(Nat), total : Nat]

\* The steps of UpdateUtilities that follow the look-up of the bill.
Charging == {"uu_bill", "uu_delete", "uu_insert"}

\* What a request at step l holds.
Holds(l, r) == /\ l \in {"gb_list", "gb_insert"} => r.period \in Periods
               /\ l \in Charging => r.bill \in Rows

-----------------------------------------------------------------------------
(* Types *)

\* An amount in whole cents is stored as it is; any other becomes one.
LEMMA CentsTyped ==
  ASSUME NEW x \in Nat
  PROVE  Cents(x) \in Nat /\ Cents(x) % 10 = 0 /\ (x % 10 = 0 => Cents(x) = x)
  BY DEF Cents

\* A step of request q, which it leaves at l with the values r, keeps the types when
\* the tables stay typed and no row is lost.
LEMMA MoveTyped ==
  ASSUME TypeOK, NEW q \in Requests, NEW l \in Steps, NEW r \in Request,
         pc' = [pc EXCEPT ![q] = l], req' = [req EXCEPT ![q] = r],
         Holds(l, r), UNCHANGED contractStatus,
         bill' \in [Bills -> BillRow \cup {None}],
         \A b \in Rows : bill'[b] # None,
         charged' \in [Bills -> Nat], \A b \in Bills : charged'[b] % 10 = 0,
         torn' \subseteq Bills
  PROVE  TypeOK'
<1>1. /\ pc' \in [Requests -> Steps] /\ req' \in [Requests -> Request]
      /\ pc'[q] = l /\ req'[q] = r
      /\ \A o \in Requests \ {q} : pc'[o] = pc[o] /\ req'[o] = req[o]
  BY DEF TypeOK, Request
<1>2. Rows \subseteq Rows'
  BY DEF Rows, NoRow
<1>3. \A o \in Requests : Holds(pc[o], req[o])'
  <2>1. \A o \in Requests \ {q} : Holds(pc[o], req[o])
    BY DEF TypeOK, Holds, Charging
  <2> QED BY <1>1, <1>2, <2>1 DEF Holds
<1> QED BY <1>1, <1>3 DEF TypeOK, Request, Holds, Charging

\* A request that ends, the tables being as they were but for torn.
LEMMA FinishTyped ==
  ASSUME TypeOK, NEW q \in Requests, Finish(q), UNCHANGED <<contractStatus, charged>>,
         bill' \in [Bills -> BillRow \cup {None}],
         \A b \in Rows : bill'[b] # None,
         torn' \subseteq Bills
  PROVE  TypeOK'
<1>1. Blank \in Request /\ "idle" \in Steps /\ Holds("idle", Blank)
  BY DEF Blank, Request, Steps, Holds, Charging
<1> QED BY <1>1, MoveTyped DEF Finish, TypeOK

\* What the type invariant says of one request.
LEMMA RequestTyped ==
  ASSUME TypeOK, NEW q \in Requests
  PROVE  /\ pc[q] \in Steps /\ req[q] \in Request /\ Holds(pc[q], req[q])
         /\ Rows \subseteq Bills /\ Blank \in Request
         /\ \A b \in Rows : bill[b] \in BillRow
  BY DEF TypeOK, Request, Holds, Charging, Rows, NoRow, Blank

\* A request that arrives.
LEMMA BeginTyped ==
  ASSUME TypeOK, NEW q \in Requests, NEW l \in Steps, NEW r \in Request,
         Begin(q, l, r), Holds(l, r)
  PROVE  TypeOK'
  BY MoveTyped DEF Begin, Goto, TypeOK, Rows, NoRow

\* The steps of GenerateBills.
LEMMA GenerateTyped ==
  ASSUME TypeOK, NEW q \in Requests, Generate(q)
  PROVE  TypeOK'
<1> USE DEF Steps
<1>0. /\ req[q] \in Request /\ Holds(pc[q], req[q]) /\ Rows \subseteq Bills
      /\ Blank \in Request
  BY RequestTyped
<1>1. CASE BeginGenerate(q)
  <2>1. PICK m \in Periods : Begin(q, "gb_list", [Blank EXCEPT !.period = m])
    BY <1>1 DEF BeginGenerate
  <2> DEFINE r == [Blank EXCEPT !.period = m]
  <2>2. r \in Request /\ r.period = m
    BY <1>0 DEF Request
  <2> HIDE DEF r
  <2>3. Holds("gb_list", r)
    BY <2>2 DEF Holds, Charging
  <2> QED BY <2>1, <2>2, <2>3, BeginTyped DEF r
<1>2. CASE GenerateList(q)
  <2> DEFINE r == [req[q] EXCEPT !.todo = ActiveNow]
  <2>1. r \in Request /\ r.period = req[q].period
    BY <1>0 DEF Request, ActiveNow
  <2>2. req' = [req EXCEPT ![q] = r] /\ pc' = [pc EXCEPT ![q] = "gb_insert"]
    BY <1>2 DEF GenerateList, Goto, TypeOK
  <2> HIDE DEF r
  <2>3. Holds("gb_insert", r)
    BY <1>0, <1>2, <2>1 DEF Holds, Charging, GenerateList
  <2> QED BY <1>2, <2>1, <2>2, <2>3, MoveTyped DEF GenerateList, TypeOK, Rows, NoRow
<1>3. CASE GenerateInsert(q)
  <2>1. PICK c \in req[q].todo, b \in Bills :
          /\ NoRow(b)
          /\ bill' = [bill EXCEPT ![b] =
                [contract |-> c, period |-> req[q].period, base |-> MonthlyPrice,
                 utility |-> None, penalty |-> None]]
          /\ req' = [req EXCEPT ![q].todo = @ \ {c}]
    BY <1>3 DEF GenerateInsert
  <2> DEFINE r   == [req[q] EXCEPT !.todo = @ \ {c}]
             row == [contract |-> c, period |-> req[q].period, base |-> MonthlyPrice,
                     utility |-> None, penalty |-> None]
  <2>2. r \in Request /\ r.period = req[q].period
    BY <1>0 DEF Request
  <2>3. pc[q] = "gb_insert" /\ req[q].period \in Periods
    BY <1>0, <1>3 DEF GenerateInsert, Holds
  <2>4. row \in BillRow
    BY <1>0, <2>3, ConstantsAssumption DEF BillRow, Request
  <2>5. pc' = [pc EXCEPT ![q] = "gb_insert"] /\ req' = [req EXCEPT ![q] = r]
    BY <1>3, <2>1, <2>3 DEF GenerateInsert, TypeOK
  <2>6. bill' = [bill EXCEPT ![b] = row]
    BY <2>1
  <2> HIDE DEF r, row
  <2>7. Holds("gb_insert", r)
    BY <2>2, <2>3 DEF Holds, Charging
  <2>8. /\ bill' \in [Bills -> BillRow \cup {None}]
        /\ \A d \in Rows : bill'[d] # None
    BY <2>1, <2>4, <2>6 DEF TypeOK, Rows, NoRow
  <2> QED BY <1>3, <2>2, <2>5, <2>7, <2>8, MoveTyped DEF GenerateInsert, TypeOK
<1>4. CASE GenerateSkip(q)
  <2>1. PICK c \in req[q].todo :
          req' = [req EXCEPT ![q].todo = @ \ {c}, ![q].skipped = @ \cup {c}]
    BY <1>4 DEF GenerateSkip
  <2> DEFINE r == [req[q] EXCEPT !.todo = @ \ {c}, !.skipped = @ \cup {c}]
  <2>2. r \in Request /\ r.period = req[q].period
    BY <1>0 DEF Request
  <2>3. pc[q] = "gb_insert" /\ req[q].period \in Periods
    BY <1>0, <1>4 DEF GenerateSkip, Holds
  <2>5. pc' = [pc EXCEPT ![q] = "gb_insert"] /\ req' = [req EXCEPT ![q] = r]
    BY <1>4, <2>1, <2>3 DEF GenerateSkip, TypeOK
  <2> HIDE DEF r
  <2>7. Holds("gb_insert", r)
    BY <2>2, <2>3 DEF Holds, Charging
  <2> QED BY <1>4, <2>2, <2>5, <2>7, MoveTyped DEF GenerateSkip, TypeOK, Rows, NoRow
<1>5. CASE GenerateReturn(q)
  BY <1>5, FinishTyped DEF GenerateReturn, TypeOK, Rows, NoRow
<1> QED BY <1>1, <1>2, <1>3, <1>4, <1>5 DEF Generate

\* The charges of a request.
LEMMA ChargeList ==
  ASSUME NEW s \in Seq(Nat), s # <<>>
  PROVE  /\ Head(s) \in Nat /\ Tail(s) \in Seq(Nat) /\ Head(s) = s[1]
         /\ Len(s) \in Nat \ {0} /\ Len(Tail(s)) = Len(s) - 1
         /\ \A i \in 1 .. Len(Tail(s)) : Tail(s)[i] = s[i + 1]
  BY HeadTailProperties, EmptySeq

\* The steps of UpdateUtilities.
LEMMA UtilitiesTyped ==
  ASSUME TypeOK, NEW q \in Requests, Utilities(q)
  PROVE  TypeOK'
<1> USE DEF Steps
<1>0. /\ req[q] \in Request /\ Holds(pc[q], req[q]) /\ Rows \subseteq Bills
      /\ Blank \in Request /\ \A b \in Rows : bill[b] \in BillRow
  BY RequestTyped
<1>1. CASE BeginUtilities(q)
  <2>1. PICK b \in Bills, s \in ChargeLists :
          /\ ~NoRow(b)
          /\ Begin(q, "uu_bill", [Blank EXCEPT !.bill = b, !.charges = s])
    BY <1>1 DEF BeginUtilities
  <2> DEFINE r == [Blank EXCEPT !.bill = b, !.charges = s]
  <2>2. r \in Request /\ r.bill = b /\ b \in Rows
    BY <1>0, <2>1, ConstantsAssumption DEF Request, Rows
  <2> HIDE DEF r
  <2>3. Holds("uu_bill", r)
    BY <2>2 DEF Holds
  <2> QED BY <2>1, <2>2, <2>3, BeginTyped DEF r
<1>2. ASSUME NEW l \in {"uu_delete", "uu_insert"}, pc[q] \in Charging, Goto(q, l),
             UNCHANGED <<contractStatus, bill, torn, req>>,
             charged' \in [Bills -> Nat], \A b \in Bills : charged'[b] % 10 = 0
      PROVE  TypeOK'
  <2> DEFINE r == req[q]
  <2>1. Holds(l, r) /\ req' = [req EXCEPT ![q] = r] /\ r \in Request
    BY <1>0, <1>2 DEF Holds, Charging, TypeOK
  <2>2. bill' \in [Bills -> BillRow \cup {None}] /\ \A b \in Rows : bill'[b] # None
    BY <1>2 DEF TypeOK, Rows, NoRow
  <2>3. pc' = [pc EXCEPT ![q] = l] /\ torn' \subseteq Bills /\ UNCHANGED contractStatus
    BY <1>2 DEF Goto, TypeOK
  <2> HIDE DEF r
  <2>4. l \in Steps /\ charged' \in [Bills -> Nat] /\ \A b \in Bills : charged'[b] % 10 = 0
    BY <1>2
  <2> QED BY <2>1, <2>2, <2>3, <2>4, MoveTyped
<1>3. CASE UtilitiesGetBill(q)
  BY <1>2, <1>3 DEF UtilitiesGetBill, Charging, TypeOK
<1>4. CASE UtilitiesDelete(q)
  <2>1. charged' \in [Bills -> Nat] /\ \A b \in Bills : charged'[b] % 10 = 0
    <3>1. charged' = [charged EXCEPT ![req[q].bill] = 0] /\ 0 % 10 = 0
      BY <1>4 DEF UtilitiesDelete
    <3> QED BY <3>1 DEF TypeOK
  <2> QED BY <1>2, <1>4, <2>1 DEF UtilitiesDelete, Charging
<1>5. CASE UtilitiesInsert(q)
  <2> DEFINE x == Head(req[q].charges)
             s == Tail(req[q].charges)
             n == req[q].total + x
             r == [req[q] EXCEPT !.total = n, !.charges = s]
  <2>1. /\ pc[q] = "uu_insert" /\ req[q].bill \in Rows
        /\ req[q].charges \in Seq(Nat) /\ req[q].charges # <<>> /\ req[q].total \in Nat
    BY <1>0, <1>5 DEF UtilitiesInsert, Holds, Charging, Request
  <2>2. x \in Nat /\ s \in Seq(Nat) /\ n \in Nat
    <3>1. x \in Nat /\ s \in Seq(Nat)
      BY <2>1, ChargeList
    <3> HIDE DEF x
    <3> QED BY <2>1, <3>1
  <2>3. /\ req' = [req EXCEPT ![q] = r] /\ pc' = [pc EXCEPT ![q] = "uu_insert"]
        /\ charged' = [charged EXCEPT ![req[q].bill] = @ + Cents(x)]
        /\ UNCHANGED <<contractStatus, bill, torn>>
    BY <1>5, <2>1 DEF UtilitiesInsert, TypeOK
  <2> HIDE DEF x, s, n
  <2>4. r \in Request /\ r.bill = req[q].bill
    BY <1>0, <2>2 DEF Request
  <2> HIDE DEF r
  <2>5. Holds("uu_insert", r)
    BY <2>1, <2>4 DEF Holds
  <2>6. charged' \in [Bills -> Nat] /\ \A b \in Bills : charged'[b] % 10 = 0
    <3>1. Cents(x) \in Nat /\ Cents(x) % 10 = 0
      BY <2>2, CentsTyped
    <3>2. \A k, m \in Nat : k % 10 = 0 /\ m % 10 = 0 => (k + m) % 10 = 0 /\ k + m \in Nat
      OBVIOUS
    <3> QED BY <1>0, <2>1, <2>3, <3>1, <3>2 DEF TypeOK
  <2> QED BY <2>3, <2>4, <2>5, <2>6, MoveTyped DEF TypeOK, Rows, NoRow
<1>6. CASE UtilitiesUpdate(q)
  <2> DEFINE b == req[q].bill
             u == Cents(req[q].total)
  <2>1. b \in Rows /\ b \in Bills /\ bill[b] \in BillRow /\ req[q].total \in Nat
    BY <1>0, <1>6 DEF UtilitiesUpdate, Holds, Charging, Request
  <2>2. u \in Nat
    BY <2>1, CentsTyped
  <2>3. bill' = [bill EXCEPT ![b] = [bill[b] EXCEPT !.utility = u]]
    BY <1>6, <2>1 DEF UtilitiesUpdate, TypeOK
  <2> HIDE DEF u
  <2>4. [bill[b] EXCEPT !.utility = u] \in BillRow
    BY <2>1, <2>2 DEF BillRow
  <2>5. /\ bill' \in [Bills -> BillRow \cup {None}]
        /\ \A d \in Rows : bill'[d] # None
    BY <2>1, <2>3, <2>4, NoneIsNoRow DEF TypeOK, Rows, NoRow
  <2> QED BY <1>6, <2>5, FinishTyped DEF UtilitiesUpdate, TypeOK
<1> QED BY <1>1, <1>3, <1>4, <1>5, <1>6 DEF Utilities

\* Between requests or within one, the contracts, bills and charges are of their types.
THEOREM TypeCorrect == Spec => []TypeOK
<1>1. Init => TypeOK
  BY DEF Init, TypeOK, Blank, Steps
<1>2. TypeOK /\ [Next]_vars => TypeOK'
  <2> SUFFICES ASSUME TypeOK, [Next]_vars PROVE TypeOK'
    OBVIOUS
  <2>1. CASE ContractChange
    BY <2>1 DEF ContractChange, Sign, End, TypeOK, Rows, NoRow
  <2>2. ASSUME NEW q \in Requests, Abandon(q) PROVE TypeOK'
    <3>1. pc[q] = "uu_insert" => req[q].bill \in Bills
      BY RequestTyped DEF Holds, Charging
    <3> QED BY <2>2, <3>1, FinishTyped DEF Abandon, TypeOK, Rows, NoRow
  <2>3. CASE UNCHANGED vars
    BY <2>3 DEF vars, TypeOK, Rows, NoRow
  <2> QED BY <2>1, <2>2, <2>3, GenerateTyped, UtilitiesTyped DEF Next
<1> QED BY <1>1, <1>2, PTL DEF Spec

-----------------------------------------------------------------------------
(* One request at a time *)

\* At most one request is in flight.
OneAtATime == \A p, q \in Requests : pc[p] # "idle" /\ pc[q] # "idle" => p = q

\* While a request of a serial run takes a step all the others are idle.
LEMMA OthersAreIdle ==
  ASSUME Serial, TypeOK, OneAtATime, NEW q \in Requests,
         Generate(q) \/ Utilities(q) \/ Abandon(q)
  PROVE  /\ \A p \in Requests \ {q} :
              pc[p] = "idle" /\ pc'[p] = "idle" /\ req'[p] = req[p]
         /\ OneAtATime'
<1>1. pc[q] # "idle" \/ Quiescent
  BY DEF Generate, Utilities, Abandon, BeginGenerate, GenerateList, GenerateInsert,
         GenerateSkip, GenerateReturn, BeginUtilities, UtilitiesGetBill,
         UtilitiesDelete, UtilitiesInsert, UtilitiesUpdate, Begin
<1>2. \A p \in Requests \ {q} : pc'[p] = pc[p] /\ req'[p] = req[p]
  <2> USE DEF TypeOK, Begin, Goto, Finish
  <2>1. CASE Generate(q)
    BY <2>1 DEF Generate, BeginGenerate, GenerateList, GenerateInsert, GenerateSkip,
                GenerateReturn
  <2>2. CASE Utilities(q)
    BY <2>2 DEF Utilities, BeginUtilities, UtilitiesGetBill, UtilitiesDelete,
                UtilitiesInsert, UtilitiesUpdate
  <2>3. CASE Abandon(q)
    BY <2>3 DEF Abandon
  <2> QED BY <2>1, <2>2, <2>3
<1>3. \A p \in Requests \ {q} : pc[p] = "idle"
  BY <1>1 DEF Quiescent, OneAtATime
<1> QED BY <1>2, <1>3 DEF OneAtATime

-----------------------------------------------------------------------------
(* Every active contract has its bill *)

\* The bill of contract c for period m.
Billed(c, m) == \E b \in Rows : bill[b].contract = c /\ bill[b].period = m

\* What a loop has passed by has a bill or was skipped.
BilledInv ==
    \A q \in Requests : pc[q] = "gb_insert" =>
       \A c \in ActiveNow : \/ c \in req[q].todo \/ c \in req[q].skipped
                            \/ Billed(c, req[q].period)

\* No step takes a bill away from its contract or its period.
LEMMA BilledStays ==
  ASSUME TypeOK, [Next]_vars, NEW c, NEW m, Billed(c, m)
  PROVE  Billed(c, m)'
<1>1. PICK b \in Rows : bill[b].contract = c /\ bill[b].period = m
  BY DEF Billed
<1>2. b \in Bills /\ bill[b] \in BillRow
  BY DEF TypeOK, Rows, NoRow
<1>3. bill'[b] # None /\ bill'[b].contract = c /\ bill'[b].period = m
  <2>1. CASE UNCHANGED bill
    BY <1>1, <2>1 DEF Rows, NoRow
  <2>2. ASSUME NEW q \in Requests, GenerateInsert(q) PROVE bill'[b] = bill[b]
    <3>1. PICK d \in Bills : NoRow(d) /\ \E row : bill' = [bill EXCEPT ![d] = row]
      BY <2>2 DEF GenerateInsert
    <3>2. d # b
      BY <3>1 DEF Rows
    <3> QED BY <3>1, <3>2, <1>2 DEF TypeOK
  <2>3. ASSUME NEW q \in Requests, UtilitiesUpdate(q)
        PROVE  bill'[b] # None /\ bill'[b].contract = c /\ bill'[b].period = m
    <3>1. PICK d, u : bill' = [bill EXCEPT ![d] = [bill[d] EXCEPT !.utility = u]]
                        /\ d \in Bills /\ u \in Nat
      <4>1. req[q].bill \in Bills /\ req[q].total \in Nat
        BY <2>3, RequestTyped DEF UtilitiesUpdate, Holds, Charging, Request
      <4>2. Cents(req[q].total) \in Nat
        BY <4>1, CentsTyped
      <4> QED BY <2>3, <4>1, <4>2 DEF UtilitiesUpdate, TypeOK
    <3>2. [bill[b] EXCEPT !.utility = u] \in BillRow
            /\ [bill[b] EXCEPT !.utility = u].contract = c
            /\ [bill[b] EXCEPT !.utility = u].period = m
      BY <1>1, <1>2, <3>1 DEF BillRow
    <3> QED BY <1>1, <1>2, <3>1, <3>2, NoneIsNoRow DEF TypeOK, Rows, NoRow
  <2>4. \/ UNCHANGED bill
        \/ \E q \in Requests : GenerateInsert(q) \/ UtilitiesUpdate(q)
    BY DEF Next, ContractChange, Generate, Utilities, Abandon, BeginGenerate,
           GenerateList, GenerateSkip, GenerateReturn, BeginUtilities,
           UtilitiesGetBill, UtilitiesDelete, UtilitiesInsert, Begin, vars
  <2> QED BY <1>1, <2>1, <2>2, <2>3, <2>4 DEF Rows, NoRow
<1> QED BY <1>2, <1>3 DEF Billed, Rows, NoRow

\* A loop takes a contract from its list when it has made its bill or skipped it.
LEMMA BilledStep ==
  ASSUME Serial, TypeOK, OneAtATime, BilledInv, [Next]_vars
  PROVE  OneAtATime' /\ BilledInv'
<1>1. CASE ContractChange
  BY <1>1 DEF ContractChange, Quiescent, OneAtATime, BilledInv
<1>2. ASSUME NEW q \in Requests, Generate(q) \/ Utilities(q) \/ Abandon(q)
      PROVE  OneAtATime' /\ BilledInv'
  <2>1. /\ \A p \in Requests \ {q} : pc'[p] = "idle"
        /\ OneAtATime'
    BY <1>2, OthersAreIdle
  <2>2. /\ ActiveNow' = ActiveNow /\ req[q] \in Request
        /\ \A c, m : Billed(c, m) => Billed(c, m)'
    <3>1. UNCHANGED contractStatus
      BY <1>2 DEF Generate, Utilities, Abandon, BeginGenerate, GenerateList,
             GenerateInsert, GenerateSkip, GenerateReturn, BeginUtilities,
             UtilitiesGetBill, UtilitiesDelete, UtilitiesInsert, UtilitiesUpdate, Begin
    <3> QED BY <1>2, <3>1, BilledStays, RequestTyped DEF Next, ActiveNow
  <2>3. ASSUME pc'[q] = "gb_insert"
        PROVE  GenerateList(q) \/ GenerateInsert(q) \/ GenerateSkip(q)
    BY <1>2, <2>3
    DEF Generate, Utilities, Abandon, BeginGenerate, GenerateReturn, BeginUtilities,
        UtilitiesGetBill, UtilitiesDelete, UtilitiesInsert, UtilitiesUpdate, Begin,
        Goto, Finish, TypeOK
  <2> SUFFICES ASSUME pc'[q] = "gb_insert", NEW c \in ActiveNow
               PROVE  (\/ c \in req[q].todo \/ c \in req[q].skipped
                       \/ Billed(c, req[q].period))'
    BY <2>1, <2>2 DEF BilledInv
  <2>m. PICK m : m = req[q].period
    OBVIOUS
  <2>4. CASE GenerateList(q)
    <3>1. req'[q].todo = ActiveNow
      BY <2>2, <2>4 DEF GenerateList, TypeOK, Request
    <3> QED BY <3>1
  <2>5. CASE GenerateInsert(q)
    <3>1. PICK d \in req[q].todo, b \in Bills :
          /\ NoRow(b)
          /\ bill' = [bill EXCEPT ![b] =
                [contract |-> d, period |-> req[q].period, base |-> MonthlyPrice,
                 utility |-> None, penalty |-> None]]
          /\ req' = [req EXCEPT ![q].todo = @ \ {d}]
      BY <2>5 DEF GenerateInsert
    <3>2. /\ req'[q].todo = req[q].todo \ {d} /\ req'[q].skipped = req[q].skipped
          /\ req'[q].period = req[q].period /\ pc[q] = "gb_insert"
      BY <2>2, <2>5, <3>1 DEF GenerateInsert, TypeOK, Request
    <3>3. Billed(d, m)'
      <4>1. /\ bill'[b].contract = d /\ bill'[b].period = m
            /\ bill'[b] \in BillRow
        <5>1. d \in Contracts /\ req[q].period \in Periods
          BY <2>2, <3>2, RequestTyped DEF Request, Holds
        <5> QED BY <2>m, <3>1, <5>1, ConstantsAssumption DEF TypeOK, BillRow
      <4> QED BY <3>2, <4>1, NoneIsNoRow DEF Billed, Rows, NoRow
    <3>4. c \in req'[q].todo \/ c \in req'[q].skipped \/ Billed(c, m)'
      <4>1. c \in req[q].todo \/ c \in req[q].skipped \/ Billed(c, m)
        BY <2>m, <3>2 DEF BilledInv
      <4>2. CASE c \in req[q].todo \/ c \in req[q].skipped
        BY <3>2, <3>3, <4>2
      <4>3. CASE Billed(c, m)
        BY <2>2, <4>3
      <4> QED BY <4>1, <4>2, <4>3
    <3> QED BY <2>m, <3>2, <3>4 DEF Billed
  <2>6. CASE GenerateSkip(q)
    <3>1. PICK d \in req[q].todo :
             req' = [req EXCEPT ![q].todo = @ \ {d}, ![q].skipped = @ \cup {d}]
      BY <2>6 DEF GenerateSkip
    <3>2. /\ req'[q].todo = req[q].todo \ {d}
          /\ req'[q].skipped = req[q].skipped \cup {d}
          /\ req'[q].period = req[q].period /\ pc[q] = "gb_insert"
      BY <2>2, <2>6, <3>1 DEF GenerateSkip, TypeOK, Request
    <3>3. c \in req[q].todo \/ c \in req[q].skipped \/ Billed(c, m)
      BY <2>m, <3>2 DEF BilledInv
    <3>4. CASE Billed(c, m)
      BY <2>2, <2>m, <3>2, <3>4 DEF Billed
    <3> QED BY <3>2, <3>3, <3>4
  <2> QED BY <2>3, <2>4, <2>5, <2>6
<1>3. CASE UNCHANGED vars
  BY <1>3 DEF vars, OneAtATime, BilledInv, Billed, ActiveNow, Rows, NoRow
<1> QED BY <1>1, <1>2, <1>3 DEF Next

\* At most one request is in flight when requests are handled one at a time.
LEMMA NobodyInFlight == Init => OneAtATime
  BY DEF Init, OneAtATime

\* Requests handled one at a time, whatever fails half-way: when GenerateBills
\* returns, every active contract it did not skip has its bill for the period.
THEOREM EveryContractIsBilled ==
  ASSUME Serial
  PROVE  Spec => EveryActiveContractBilled
<1>1. Init => BilledInv
  BY DEF Init, BilledInv
<1>2. TypeOK /\ OneAtATime /\ BilledInv /\ [Next]_vars => OneAtATime' /\ BilledInv'
  BY BilledStep
<1>3. TypeOK /\ BilledInv =>
        \A q \in Requests :
           pc[q] = "gb_insert" /\ req[q].todo = {} /\ pc'[q] = "idle" =>
             \A c \in ActiveNow \ req[q].skipped : \E b \in Rows :
                bill[b].contract = c /\ bill[b].period = req[q].period
  BY DEF BilledInv, Billed
<1>4. TypeOK /\ BilledInv =>
        [\A q \in Requests :
           pc[q] = "gb_insert" /\ req[q].todo = {} /\ pc'[q] = "idle" =>
             \A c \in ActiveNow \ req[q].skipped : \E b \in Rows :
                bill[b].contract = c /\ bill[b].period = req[q].period]_vars
  BY <1>3
<1> QED
  BY <1>1, <1>2, <1>4, NobodyInFlight, TypeCorrect, PTL
  DEF Spec, EveryActiveContractBilled

-----------------------------------------------------------------------------
(* Utility amounts and the charges they add up *)

\* Amounts that Cents leaves alone.
Whole(s) == \A i \in 1 .. Len(s) : s[i] % 10 = 0

\* The utility amount of bill b is the sum of its charges.
Matches(b) == charged[b] = IF bill[b].utility = None THEN 0 ELSE bill[b].utility

\* Bill b is being charged: its charges are deleted or partly inserted.
Halfway(b) == \E q \in Requests : pc[q] = "uu_insert" /\ req[q].bill = b

\* The total of a request is what it has inserted so far, and only where it works, or
\* has been abandoned, do charges and amount differ.
ChargeInv ==
    /\ \A b \in Bills : NoRow(b) => charged[b] = 0
    /\ \A q \in Requests : pc[q] \in Charging =>
         /\ Whole(req[q].charges) /\ req[q].total % 10 = 0
         /\ pc[q] # "uu_insert" => req[q].total = 0
         /\ pc[q] = "uu_insert" => charged[req[q].bill] = req[q].total
    /\ \A b \in Rows : b \in torn \/ Matches(b) \/ Halfway(b)

\* A step that leaves the tables alone, of a request that inserts no charges.
LEMMA QuietCharges ==
  ASSUME ChargeInv, NEW q \in Requests,
         \A p \in Requests \ {q} : pc'[p] = "idle",
         UNCHANGED <<bill, charged, torn>>, pc[q] # "uu_insert", pc'[q] # "uu_insert",
         \A p \in Requests \ {q} : pc[p] = "idle",
         pc'[q] \in Charging => Whole(req'[q].charges) /\ req'[q].total = 0
  PROVE  ChargeInv'
<1>1. \A b \in Bills : NoRow(b)' => charged'[b] = 0
  BY DEF ChargeInv, NoRow
<1>2. ASSUME NEW p \in Requests, pc'[p] \in Charging
      PROVE  (/\ Whole(req[p].charges) /\ req[p].total % 10 = 0
              /\ pc[p] # "uu_insert" => req[p].total = 0
              /\ pc[p] = "uu_insert" => charged[req[p].bill] = req[p].total)'
  <2>1. p = q /\ 0 % 10 = 0
    BY <1>2 DEF Charging
  <2> QED BY <1>2, <2>1 DEF Whole
<1>3. ASSUME NEW b \in Rows'
      PROVE  (b \in torn \/ Matches(b) \/ Halfway(b))'
  <2>1. b \in Rows /\ ~Halfway(b)
    BY DEF Rows, NoRow, Halfway
  <2>2. b \in torn \/ Matches(b)
    BY <2>1 DEF ChargeInv
  <2> QED BY <2>2 DEF Matches
<1> QED BY <1>1, <1>2, <1>3 DEF ChargeInv

\* The steps that insert no charge.
LEMMA QuietSteps ==
  ASSUME \A s \in ChargeLists : Whole(s), Serial, TypeOK, OneAtATime, ChargeInv,
         NEW q \in Requests,
         \/ BeginGenerate(q) \/ GenerateList(q) \/ GenerateSkip(q) \/ GenerateReturn(q)
         \/ BeginUtilities(q) \/ UtilitiesGetBill(q)
         \/ Abandon(q) /\ pc[q] # "uu_insert"
  PROVE  ChargeInv'
<1> USE DEF Charging
<1>1. \A p \in Requests \ {q} : pc[p] = "idle" /\ pc'[p] = "idle"
  BY OthersAreIdle DEF Generate, Utilities
<1>2. Blank.total = 0 /\ Blank \in Request
  BY RequestTyped DEF Blank
<1>3. CASE BeginUtilities(q)
  <2>1. PICK b \in Bills, s \in ChargeLists :
          Begin(q, "uu_bill", [Blank EXCEPT !.bill = b, !.charges = s])
    BY <1>3 DEF BeginUtilities
  <2>2. /\ UNCHANGED <<bill, charged, torn>> /\ pc[q] = "idle" /\ pc'[q] = "uu_bill"
        /\ req'[q].charges = s /\ req'[q].total = 0
    BY <1>2, <2>1 DEF Begin, Goto, TypeOK, Request
  <2> QED BY <1>1, <2>1, <2>2, QuietCharges
<1>4. CASE UtilitiesGetBill(q)
  <2>1. /\ UNCHANGED <<bill, charged, torn>> /\ pc[q] = "uu_bill"
        /\ pc'[q] = "uu_delete" /\ req' = req
    BY <1>4 DEF UtilitiesGetBill, Goto, TypeOK
  <2>2. Whole(req[q].charges) /\ req[q].total = 0
    BY <2>1 DEF ChargeInv
  <2> QED BY <1>1, <2>1, <2>2, QuietCharges
<1>5. CASE \/ BeginGenerate(q) \/ GenerateList(q) \/ GenerateSkip(q)
           \/ GenerateReturn(q)
           \/ Abandon(q) /\ pc[q] # "uu_insert"
  <2>1. /\ UNCHANGED <<bill, charged, torn>> /\ pc[q] # "uu_insert"
        /\ pc'[q] \notin Charging
    BY <1>5 DEF BeginGenerate, GenerateList, GenerateSkip, GenerateReturn, Abandon,
                Begin, Goto, Finish, TypeOK
  <2> QED BY <1>1, <2>1, QuietCharges
<1> QED BY <1>3, <1>4, <1>5

\* A new bill has no charges and no amount.
LEMMA NewBill ==
  ASSUME Serial, TypeOK, OneAtATime, ChargeInv, NEW q \in Requests, GenerateInsert(q)
  PROVE  ChargeInv'
<1>1. \A p \in Requests \ {q} : pc[p] = "idle" /\ pc'[p] = "idle"
  BY OthersAreIdle DEF Generate
<1>2. PICK c \in req[q].todo, d \in Bills :
         /\ NoRow(d)
         /\ bill' = [bill EXCEPT ![d] =
                [contract |-> c, period |-> req[q].period, base |-> MonthlyPrice,
                 utility |-> None, penalty |-> None]]
  BY DEF GenerateInsert
<1>3. /\ pc[q] = "gb_insert" /\ pc' = pc /\ UNCHANGED <<charged, torn>>
      /\ bill'[d].utility = None /\ charged[d] = 0
      /\ \A b \in Bills \ {d} : bill'[b] = bill[b]
  BY <1>2 DEF GenerateInsert, TypeOK, ChargeInv
<1>4. \A p \in Requests : pc'[p] \notin Charging
  BY <1>1, <1>3 DEF Charging
<1>5. \A b \in Bills : NoRow(b)' => charged'[b] = 0
  BY <1>3 DEF ChargeInv, NoRow
<1>6. ASSUME NEW b \in Rows'
      PROVE  (b \in torn \/ Matches(b) \/ Halfway(b))'
  <2>1. CASE b = d
    BY <1>3, <2>1 DEF Matches
  <2>2. CASE b # d
    <3>1. b \in Rows /\ ~Halfway(b) /\ bill'[b] = bill[b]
      BY <1>1, <1>3, <2>2 DEF Rows, NoRow, Halfway
    <3> QED BY <1>3, <3>1 DEF ChargeInv, Matches
  <2> QED BY <2>1, <2>2
<1> QED BY <1>4, <1>5, <1>6 DEF ChargeInv

\* A request charges one bill and leaves the amounts of others alone.
LEMMA ChargeSteps ==
  ASSUME Serial, TypeOK, OneAtATime, ChargeInv, NEW q \in Requests,
         UtilitiesDelete(q) \/ UtilitiesInsert(q)
  PROVE  ChargeInv'
<1> DEFINE d == req[q].bill
<1>1. \A p \in Requests \ {q} : pc[p] = "idle" /\ pc'[p] = "idle"
  BY OthersAreIdle DEF Utilities
<1>2. /\ pc[q] \in {"uu_delete", "uu_insert"} /\ pc'[q] = "uu_insert"
      /\ d \in Rows /\ d \in Bills /\ req[q] \in Request
  BY RequestTyped DEF UtilitiesDelete, UtilitiesInsert, Goto, TypeOK, Holds, Charging
<1>3. /\ Whole(req[q].charges) /\ req[q].total % 10 = 0
      /\ pc[q] = "uu_insert" => charged[d] = req[q].total
      /\ pc[q] = "uu_delete" => req[q].total = 0
  BY <1>2 DEF ChargeInv, Charging
<1>4. /\ req'[q].bill = d /\ charged'[d] = req'[q].total
      /\ Whole(req'[q].charges) /\ req'[q].total % 10 = 0
      /\ UNCHANGED <<bill, torn>>
      /\ \A b \in Bills \ {d} : charged'[b] = charged[b]
  <2>1. CASE UtilitiesDelete(q)
    <3>1. /\ charged' = [charged EXCEPT ![d] = 0] /\ req' = req
          /\ pc[q] = "uu_delete" /\ UNCHANGED <<bill, torn>>
      BY <2>1 DEF UtilitiesDelete
    <3> QED BY <1>2, <1>3, <3>1 DEF TypeOK
  <2>2. CASE UtilitiesInsert(q)
    <3> DEFINE s == req[q].charges
               x == Head(s)
               n == req[q].total + x
    <3>1. s \in Seq(Nat) /\ s # <<>> /\ req[q].total \in Nat /\ pc[q] = "uu_insert"
      BY <1>2, <2>2 DEF UtilitiesInsert, Request
    <3>2. x \in Nat /\ x % 10 = 0 /\ Whole(Tail(s))
      <4>1. 1 \in 1 .. Len(s) /\ \A i \in 1 .. Len(Tail(s)) : i + 1 \in 1 .. Len(s)
        BY <3>1, ChargeList
      <4> QED BY <1>3, <3>1, <4>1, ChargeList DEF Whole
    <3>3. /\ charged' = [charged EXCEPT ![d] = @ + Cents(x)]
          /\ req' = [req EXCEPT ![q].total = n, ![q].charges = Tail(s)]
          /\ UNCHANGED <<bill, torn>>
      BY <2>2 DEF UtilitiesInsert, TypeOK
    <3> HIDE DEF s, x
    <3>4. /\ req'[q].bill = d /\ req'[q].total = n /\ req'[q].charges = Tail(s)
      BY <1>2, <3>3 DEF TypeOK, Request
    <3>5. Cents(x) = x
      BY <3>2, CentsTyped
    <3>6. n % 10 = 0
      <4>1. \A k, m \in Nat : k % 10 = 0 /\ m % 10 = 0 => (k + m) % 10 = 0
        OBVIOUS
      <4> QED BY <1>3, <3>1, <3>2, <4>1
    <3>7. charged'[d] = n /\ \A b \in Bills \ {d} : charged'[b] = charged[b]
      BY <1>2, <1>3, <3>1, <3>3, <3>5 DEF TypeOK
    <3> QED BY <3>2, <3>3, <3>4, <3>6, <3>7
  <2> QED BY <2>1, <2>2
<1>5. \A b \in Bills : NoRow(b)' => charged'[b] = 0
  BY <1>2, <1>4 DEF ChargeInv, NoRow, Rows
<1>6. ASSUME NEW p \in Requests, pc'[p] \in Charging
      PROVE  (/\ Whole(req[p].charges) /\ req[p].total % 10 = 0
              /\ pc[p] # "uu_insert" => req[p].total = 0
              /\ pc[p] = "uu_insert" => charged[req[p].bill] = req[p].total)'
  <2>1. p = q
    BY <1>1, <1>6 DEF Charging
  <2> HIDE DEF d
  <2> QED BY <1>2, <1>4, <2>1 DEF Whole
<1>7. ASSUME NEW b \in Rows'
      PROVE  (b \in torn \/ Matches(b) \/ Halfway(b))'
  <2>1. CASE b = d
    BY <1>2, <1>4, <2>1 DEF Halfway
  <2>2. CASE b # d
    <3>1. b \in Rows /\ b \in Bills /\ ~Halfway(b)
      BY <1>1, <1>4, <2>2 DEF Rows, NoRow, Halfway
    <3> HIDE DEF d
    <3> QED BY <1>4, <2>2, <3>1 DEF ChargeInv, Matches
  <2> QED BY <2>1, <2>2
<1> QED BY <1>5, <1>6, <1>7 DEF ChargeInv

\* The amount of a bill is set to the total, or the request ends before that.
LEMMA LastStep ==
  ASSUME Serial, TypeOK, OneAtATime, ChargeInv, NEW q \in Requests,
         UtilitiesUpdate(q) \/ (Abandon(q) /\ pc[q] = "uu_insert")
  PROVE  ChargeInv'
<1>0. PICK d : d = req[q].bill
  OBVIOUS
<1>1. \A p \in Requests \ {q} : pc[p] = "idle" /\ pc'[p] = "idle"
  BY OthersAreIdle DEF Utilities
<1>2. /\ pc[q] = "uu_insert" /\ pc'[q] = "idle" /\ charged' = charged
      /\ d \in Rows /\ d \in Bills /\ req[q] \in Request /\ bill[d] \in BillRow
  BY <1>0, RequestTyped DEF UtilitiesUpdate, Abandon, Finish, TypeOK, Holds, Charging
<1>3. req[q].total \in Nat /\ req[q].total % 10 = 0 /\ charged[d] = req[q].total
  BY <1>0, <1>2 DEF ChargeInv, Charging, Request
<1>4. \A p \in Requests : pc'[p] \notin Charging
  BY <1>1, <1>2 DEF Charging
<1>5. CASE UtilitiesUpdate(q)
  <2>1. /\ bill' = [bill EXCEPT ![d].utility = Cents(req[q].total)]
        /\ torn' = torn \ {d}
    BY <1>0, <1>5 DEF UtilitiesUpdate
  <2>2. Cents(req[q].total) = charged[d] /\ charged[d] # None
    BY <1>3, CentsTyped, ConstantsAssumption
  <2>3. bill'[d].utility = charged[d] /\ \A b \in Bills \ {d} : bill'[b] = bill[b]
    BY <1>2, <2>1, <2>2 DEF TypeOK, BillRow
  <2>4. \A b \in Bills : NoRow(b)' => charged'[b] = 0
    <3>1. \A b \in Bills : NoRow(b)' => NoRow(b) \/ b = d
      BY <2>3 DEF NoRow
    <3>2. ~NoRow(d)'
      <4>1. bill'[d] \in BillRow
        <5>1. [bill[d] EXCEPT !.utility = charged[d]] \in BillRow
          BY <1>2, <1>3 DEF BillRow
        <5> QED BY <1>2, <2>1, <2>2, <5>1 DEF TypeOK
      <4> QED BY <4>1, NoneIsNoRow DEF NoRow
    <3> QED BY <1>2, <3>1, <3>2 DEF ChargeInv
  <2>5. ASSUME NEW b \in Rows'
        PROVE  (b \in torn \/ Matches(b) \/ Halfway(b))'
    <3>1. CASE b = d
      BY <1>2, <2>2, <2>3, <3>1 DEF Matches
    <3>2. CASE b # d
      <4>1. b \in Rows /\ ~Halfway(b) /\ bill'[b] = bill[b]
        BY <1>0, <1>1, <2>3, <3>2 DEF Rows, NoRow, Halfway
      <4> QED BY <1>2, <2>1, <3>2, <4>1 DEF ChargeInv, Matches
    <3> QED BY <3>1, <3>2
  <2> QED BY <1>4, <2>4, <2>5 DEF ChargeInv
<1>6. CASE Abandon(q)
  <2>1. UNCHANGED <<bill, charged>> /\ torn' = torn \cup {d}
    BY <1>0, <1>2, <1>6 DEF Abandon
  <2>2. \A b \in Bills : NoRow(b)' => charged'[b] = 0
    BY <2>1 DEF ChargeInv, NoRow
  <2>3. ASSUME NEW b \in Rows'
        PROVE  (b \in torn \/ Matches(b) \/ Halfway(b))'
    <3>1. CASE b = d
      BY <2>1, <3>1
    <3>2. CASE b # d
      <4>1. b \in Rows /\ ~Halfway(b)
        BY <1>0, <1>1, <2>1, <3>2 DEF Rows, NoRow, Halfway
      <4> QED BY <2>1, <4>1 DEF ChargeInv, Matches
    <3> QED BY <3>1, <3>2
  <2> QED BY <1>4, <2>2, <2>3 DEF ChargeInv
<1> QED BY <1>5, <1>6

\* Requests handled one at a time, with charges in whole cents, whatever fails
\* half-way: the utility amount of a bill is the sum of its charges, unless the last
\* request that charged it ended between the first delete and the update.
THEOREM UtilitiesMatch ==
  ASSUME Serial, \A s \in ChargeLists : Whole(s)
  PROVE  Spec => []UtilityMatchesCharges
<1>1. Init => ChargeInv
  BY DEF Init, ChargeInv, Charging, Rows, NoRow
<1>2. TypeOK /\ OneAtATime /\ ChargeInv /\ [Next]_vars => OneAtATime' /\ ChargeInv'
  <2> SUFFICES ASSUME TypeOK, OneAtATime, ChargeInv, [Next]_vars
               PROVE  OneAtATime' /\ ChargeInv'
    OBVIOUS
  <2>1. CASE ContractChange
    BY <2>1 DEF ContractChange, OneAtATime, ChargeInv, Matches, Halfway, Rows, NoRow, Whole
  <2>2. ASSUME NEW q \in Requests, Generate(q) \/ Utilities(q) \/ Abandon(q)
        PROVE  OneAtATime' /\ ChargeInv'
    <3>1. OneAtATime'
      BY <2>2, OthersAreIdle
    <3> QED
      BY <2>2, <3>1, QuietSteps, NewBill, ChargeSteps, LastStep DEF Generate, Utilities
  <2>3. CASE UNCHANGED vars
    BY <2>3 DEF vars, OneAtATime, ChargeInv, Matches, Halfway, Rows, NoRow, Whole
  <2> QED BY <2>1, <2>2, <2>3 DEF Next
<1>3. ChargeInv => UtilityMatchesCharges
  BY DEF ChargeInv, UtilityMatchesCharges, Quiescent, Halfway, Matches
<1> QED BY <1>1, <1>2, <1>3, NobodyInFlight, TypeCorrect, PTL DEF Spec

=============================================================================
