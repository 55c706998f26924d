---------------------------- MODULE OccupancyProofs ----------------------------
(***************************************************************************)
(* What Occupancy guarantees for every value of its constants: any number  *)
(* of rooms, tenants, contracts and requests in flight, with or without    *)
(* faults.                                                                 *)
(***************************************************************************)
EXTENDS Occupancy, TLAPS

-----------------------------------------------------------------------------
(* Money *)

\* An amount rounded to cents is an amount.
LEMMA CentsType == ASSUME NEW x \in Nat PROVE Cents(x) \in Nat
  BY DEF Cents

\* Rounding keeps the order of amounts (FormatFloat in Checkin and Checkout).
LEMMA CentsMonotone ==
  ASSUME NEW x \in Nat, NEW y \in Nat, x <= y
  PROVE  Cents(x) <= Cents(y)
  BY DEF Cents

\* An amount already in whole cents is stored as it is.
LEMMA CentsIdempotent ==
  ASSUME NEW x \in Nat
  PROVE  Cents(Cents(x)) = Cents(x)
  BY DEF Cents

-----------------------------------------------------------------------------
(* Type correctness *)

\* The initial tables and requests are well typed.
LEMMA InitTypeOK == Init => TypeOK
  BY ConstantsAssumption
  DEF Init, TypeOK, RequestOK, Blank, Request, RoomStatus, Steps, AuditEntry, Keep,
      CheckinSteps, CheckoutSteps, BlacklistSteps, EditTenantSteps, EditRoomSteps,
      ContractSteps

\* A step of one request keeps the types when the request is left at a step l
\* with values r that suit it, and no contract is deleted.
LEMMA MoveTypeOK ==
  ASSUME TypeOK, NEW q \in Requests, NEW l \in Steps, NEW r \in Request,
         RequestOK(l, r),
         pc' = [pc EXCEPT ![q] = l], req' = [req EXCEPT ![q] = r],
         roomStatus' \in [Rooms -> RoomStatus],
         tenant' \in [Tenants -> TenantRow],
         contract' \in [Contracts -> ContractRow \cup {None}],
         audit' \subseteq AuditEntry,
         \A c \in Contracts : contract[c] # None => contract'[c] # None,
         l \in ContractSteps => contract'[r.contract] # None
  PROVE  TypeOK'
<1>1. pc' \in [Requests -> Steps] /\ req' \in [Requests -> Request]
  BY DEF TypeOK
<1>2. ASSUME NEW p \in Requests
      PROVE  /\ RequestOK(pc'[p], req'[p])
             /\ pc'[p] \in ContractSteps => contract'[req'[p].contract] # None
  <2>1. CASE p = q
    BY <2>1 DEF TypeOK
  <2>2. CASE p # q
    <3>1. pc'[p] = pc[p] /\ req'[p] = req[p]
      BY <2>2 DEF TypeOK
    <3>2. pc[p] \in ContractSteps => req[p].contract \in Contracts
      BY DEF TypeOK, RequestOK
    <3> QED BY <3>1, <3>2 DEF TypeOK, Signed
  <2> QED BY <2>1, <2>2
<1> QED BY <1>1, <1>2 DEF TypeOK, Signed

\* The same when the step leaves the tables alone.
LEMMA LocalTypeOK ==
  ASSUME TypeOK, NEW q \in Requests, NEW l \in Steps, NEW r \in Request,
         RequestOK(l, r),
         pc' = [pc EXCEPT ![q] = l], req' = [req EXCEPT ![q] = r],
         UNCHANGED <<roomStatus, tenant, contract, audit>>,
         l \in ContractSteps => contract[r.contract] # None
  PROVE  TypeOK'
  BY MoveTypeOK DEF TypeOK

\* An idle request holds nothing.
LEMMA BlankOK ==
  /\ Blank \in Request
  /\ "idle" \in Steps \ ContractSteps
  /\ RequestOK("idle", Blank)
  BY DEF Blank, Request, RequestOK, Keep, Steps, CheckinSteps, CheckoutSteps,
         BlacklistSteps, EditTenantSteps, EditRoomSteps, ContractSteps

\* A request that arrives holds well-typed values.
LEMMA BeginTypeOK ==
  ASSUME TypeOK, NEW q \in Requests,
         BeginCheckin(q) \/ BeginCheckout(q) \/ BeginBlacklist(q)
           \/ BeginUpdateTenant(q) \/ BeginUpdateRoom(q)
  PROVE  TypeOK'
<1> USE ConstantsAssumption
<1>1. CASE BeginCheckin(q)
  <2>1. PICK t \in Tenants, r \in Rooms, p \in Properties, a \in Amounts :
           Begin(q, "ci_room",
                 [Blank EXCEPT !.caller = OwnerOf[p], !.tenant = t, !.room = r,
                               !.property = p, !.amount = a,
                               !.barred = tenant[t].blacklisted])
    BY <1>1 DEF BeginCheckin
  <2>2. tenant[t].blacklisted \in BOOLEAN
    BY DEF TypeOK, TenantRow
  <2> QED
    BY <2>1, <2>2, LocalTypeOK
    DEF Begin, Goto, RequestOK, Blank, Request, Keep, Steps,
        CheckinSteps, CheckoutSteps, BlacklistSteps, EditTenantSteps, EditRoomSteps,
        ContractSteps
<1>2. CASE BeginCheckout(q)
  BY <1>2, LocalTypeOK
  DEF BeginCheckout, Begin, Goto, RequestOK, Blank, Request, Keep, Steps,
      CheckinSteps, CheckoutSteps, BlacklistSteps, EditTenantSteps, EditRoomSteps,
      ContractSteps
<1>3. CASE BeginBlacklist(q)
  BY <1>3, LocalTypeOK
  DEF BeginBlacklist, Begin, Goto, RequestOK, Blank, Request, Keep, Steps,
      CheckinSteps, CheckoutSteps, BlacklistSteps, EditTenantSteps, EditRoomSteps,
      ContractSteps
<1>4. CASE BeginUpdateTenant(q)
  BY <1>4, LocalTypeOK
  DEF BeginUpdateTenant, Begin, Goto, RequestOK, Blank, Request, Keep, Steps,
      CheckinSteps, CheckoutSteps, BlacklistSteps, EditTenantSteps, EditRoomSteps,
      ContractSteps
<1>5. CASE BeginUpdateRoom(q)
  BY <1>5, LocalTypeOK
  DEF BeginUpdateRoom, Begin, Goto, RequestOK, Blank, Request, Keep, Steps, RoomStatus,
      CheckinSteps, CheckoutSteps, BlacklistSteps, EditTenantSteps, EditRoomSteps,
      ContractSteps
<1> QED BY <1>1, <1>2, <1>3, <1>4, <1>5

\* A step that moves a request on with the values it has, perhaps after a write.
LEMMA GotoTypeOK ==
  ASSUME TypeOK, NEW q \in Requests, NEW l \in Steps, Goto(q, l), UNCHANGED req,
         RequestOK(l, req[q]),
         roomStatus' \in [Rooms -> RoomStatus],
         tenant' \in [Tenants -> TenantRow],
         contract' \in [Contracts -> ContractRow \cup {None}],
         audit' \subseteq AuditEntry,
         \A c \in Contracts : contract[c] # None => contract'[c] # None,
         l \in ContractSteps => contract'[req[q].contract] # None
  PROVE  TypeOK'
<1>1. req' = [req EXCEPT ![q] = req[q]] /\ req[q] \in Request
  BY DEF TypeOK
<1> QED BY <1>1, MoveTypeOK DEF Goto

\* A request that ends, having perhaps added an entry to the audit trail.
LEMMA FinishTypeOK ==
  ASSUME TypeOK, NEW q \in Requests, Finish(q),
         UNCHANGED <<tenant, contract>>,
         roomStatus' \in [Rooms -> RoomStatus], audit' \subseteq AuditEntry
  PROVE  TypeOK'
  BY MoveTypeOK, BlankOK DEF Finish, TypeOK

\* Every step of TenantService.Checkin keeps the types.
LEMMA CheckinTypeOK ==
  ASSUME TypeOK, NEW q \in Requests, Checkin(q)
  PROVE  TypeOK'
<1> USE DEF Steps, CheckinSteps, CheckoutSteps, BlacklistSteps, EditTenantSteps,
            EditRoomSteps, ContractSteps
<1>0. /\ RequestOK(pc[q], req[q]) /\ req[q] \in Request
      /\ pc[q] \in ContractSteps => contract[req[q].contract] # None
  BY DEF TypeOK, Signed
<1>1. CASE BeginCheckin(q)
  BY <1>1, BeginTypeOK
<1>2. CASE CheckinGetRoom(q)
  <2>1. CASE roomStatus[req[q].room] = "vacant"
    BY <1>0, <1>2, <2>1, GotoTypeOK DEF CheckinGetRoom, RequestOK, TypeOK
  <2>2. CASE roomStatus[req[q].room] # "vacant"
    BY <1>2, <2>2, FinishTypeOK DEF CheckinGetRoom, TypeOK
  <2> QED BY <2>1, <2>2
<1>3. CASE CheckinGetTenant(q)
  <2> DEFINE row == tenant[req[q].tenant]
             r   == [req[q] EXCEPT !.seen = row]
  <2>1. row \in TenantRow
    BY <1>0, <1>3 DEF CheckinGetTenant, RequestOK, TypeOK
  <2>2. CASE ~row.blacklisted
    <3>1. r \in Request /\ RequestOK("ci_contract", r)
      BY <1>0, <1>3, <2>1 DEF CheckinGetTenant, RequestOK, Request
    <3>2. req' = [req EXCEPT ![q] = r]
      BY <1>3, <2>2 DEF CheckinGetTenant, TypeOK
    <3> QED BY <1>3, <2>2, <3>1, <3>2, LocalTypeOK DEF CheckinGetTenant, Goto
  <2>3. CASE row.blacklisted
    BY <1>3, <2>3, FinishTypeOK DEF CheckinGetTenant, TypeOK
  <2> QED BY <2>2, <2>3
<1>4. CASE CheckinCreateContract(q)
  <2>1. PICK c \in Contracts :
           /\ contract' = [contract EXCEPT ![c] =
                 [tenant |-> req[q].tenant, room |-> req[q].room,
                  property |-> req[q].property, status |-> "active",
                  deposit |-> Cents(req[q].amount), refunded |-> 0]]
           /\ req' = [req EXCEPT ![q].contract = c]
    BY <1>4 DEF CheckinCreateContract
  <2> DEFINE r == [req[q] EXCEPT !.contract = c]
  <2>2. Cents(req[q].amount) \in Nat
    BY <1>0, CentsType DEF Request
  <2>3. contract' \in [Contracts -> ContractRow \cup {None}]
    BY <1>0, <1>4, <2>1, <2>2
    DEF CheckinCreateContract, TypeOK, RequestOK, ContractRow, ContractStatus
  <2>4. contract'[c] # None /\ \A d \in Contracts \ {c} : contract'[d] = contract[d]
    BY <1>0, <1>4, <2>1, <2>2, NoneIsNoRow
    DEF CheckinCreateContract, TypeOK, RequestOK, ContractRow, ContractStatus
  <2>5. r \in Request /\ RequestOK("ci_occupy", r) /\ r.contract = c
    BY <1>0, <1>4 DEF CheckinCreateContract, RequestOK, Request
  <2>6. req' = [req EXCEPT ![q] = r]
    BY <2>1 DEF TypeOK
  <2> QED
    BY <1>4, <2>3, <2>4, <2>5, <2>6, MoveTypeOK DEF CheckinCreateContract, Goto, TypeOK
<1>5. CASE CheckinOccupyRoom(q)
  BY <1>0, <1>5, GotoTypeOK DEF CheckinOccupyRoom, RequestOK, RoomStatus, TypeOK
<1>6. CASE CheckinAssignRoom(q)
  BY <1>0, <1>6, GotoTypeOK
  DEF CheckinAssignRoom, WriteTenant, RequestOK, TenantRow, TypeOK
<1>7. CASE CheckinAudit(q)
  BY <1>0, <1>7, FinishTypeOK DEF CheckinAudit, Log, RequestOK, AuditEntry, TypeOK
<1> QED BY <1>1, <1>2, <1>3, <1>4, <1>5, <1>6, <1>7 DEF Checkin

\* So does the lookup of a tenant that several handlers begin with.
LEMMA ReadTenantTypeOK ==
  ASSUME TypeOK, NEW q \in Requests, NEW from, NEW to \in Steps,
         ReadTenant(q, from, to),
         req[q].tenant \in Tenants,
         to \notin ContractSteps,
         \A row \in TenantRow : RequestOK(to, [req[q] EXCEPT !.seen = row])
  PROVE  TypeOK'
<1> DEFINE row == tenant[req[q].tenant]
           r   == [req[q] EXCEPT !.seen = row]
<1>1. row \in TenantRow
  BY DEF TypeOK
<1>2. CASE Owns(req[q].caller, row)
  <2>1. r \in Request /\ RequestOK(to, r)
    BY <1>1 DEF Request, TypeOK
  <2>2. req' = [req EXCEPT ![q] = r]
    BY <1>2 DEF ReadTenant, TypeOK
  <2> QED BY <1>2, <2>1, <2>2, LocalTypeOK DEF ReadTenant, Goto
<1>3. CASE ~Owns(req[q].caller, row)
  BY <1>3, FinishTypeOK DEF ReadTenant, TypeOK
<1> QED BY <1>2, <1>3

\* Writing a row of the contracts table keeps its type and deletes no row.
LEMMA WriteContractTyped ==
  ASSUME contract \in [Contracts -> ContractRow \cup {None}],
         NEW c \in Contracts, NEW row \in ContractRow,
         contract' = [contract EXCEPT ![c] = row]
  PROVE  /\ contract' \in [Contracts -> ContractRow \cup {None}]
         /\ \A d \in Contracts : contract[d] # None => contract'[d] # None
         /\ contract'[c] # None
  BY NoneIsNoRow

\* Every step of TenantService.Checkout keeps the types.
LEMMA CheckoutTypeOK ==
  ASSUME TypeOK, NEW q \in Requests, Checkout(q)
  PROVE  TypeOK'
<1> USE DEF Steps, CheckinSteps, CheckoutSteps, BlacklistSteps, EditTenantSteps,
            EditRoomSteps, ContractSteps
<1>0. /\ RequestOK(pc[q], req[q]) /\ req[q] \in Request
      /\ pc[q] \in ContractSteps => contract[req[q].contract] # None
  BY DEF TypeOK, Signed
<1>1. CASE BeginCheckout(q)
  BY <1>1, BeginTypeOK
<1>2. CASE CheckoutGetTenant(q)
  <2>1. pc[q] = "co_tenant" /\ req[q].tenant \in Tenants
    BY <1>0, <1>2 DEF CheckoutGetTenant, ReadTenant, RequestOK
  <2>2. \A row \in TenantRow : RequestOK("co_contract", [req[q] EXCEPT !.seen = row])
    BY <1>0, <2>1 DEF RequestOK, Request
  <2> QED BY <1>2, <2>1, <2>2, ReadTenantTypeOK DEF CheckoutGetTenant
<1>3. CASE CheckoutGetContract(q)
  <2>1. CASE Finish(q)
    BY <1>3, <2>1, FinishTypeOK DEF CheckoutGetContract, TypeOK
  <2>2. CASE ~Finish(q)
    <3>1. PICK c \in ActiveContractsOf(req[q].tenant) :
             /\ Goto(q, "co_terminate")
             /\ req' = [req EXCEPT ![q].contract = c, ![q].room = contract[c].room]
      BY <1>3, <2>2 DEF CheckoutGetContract
    <3> DEFINE r == [req[q] EXCEPT !.contract = c, !.room = contract[c].room]
    <3>2. c \in Contracts /\ contract[c] \in ContractRow /\ contract[c] # None
      BY <3>1 DEF ActiveContractsOf, TypeOK
    <3>3. r \in Request /\ RequestOK("co_terminate", r) /\ r.contract = c
      BY <1>0, <1>3, <3>2 DEF CheckoutGetContract, RequestOK, Request, ContractRow
    <3>4. req' = [req EXCEPT ![q] = r]
      BY <3>1 DEF TypeOK
    <3> QED BY <1>3, <3>1, <3>2, <3>3, <3>4, LocalTypeOK DEF CheckoutGetContract, Goto
  <2> QED BY <2>1, <2>2
<1>4. CASE CheckoutTerminate(q)
  <2> DEFINE c == req[q].contract
  <2>1. c \in Contracts /\ contract[c] \in ContractRow
    BY <1>0, <1>4 DEF CheckoutTerminate, RequestOK, TypeOK
  <2>2. [contract[c] EXCEPT !.status = "terminated"] \in ContractRow
    BY <2>1 DEF ContractRow, ContractStatus
  <2>3. RequestOK("co_refund", req[q]) /\ RequestOK("co_vacate", req[q])
    BY <1>0, <1>4 DEF CheckoutTerminate, RequestOK
  <2> QED
    BY <1>4, <2>1, <2>2, <2>3, WriteContractTyped, GotoTypeOK
    DEF CheckoutTerminate, TypeOK
<1>5. CASE CheckoutRefund(q)
  <2> DEFINE c == req[q].contract
  <2>1. c \in Contracts /\ contract[c] \in ContractRow /\ Cents(req[q].amount) \in Nat
    BY <1>0, <1>5, CentsType DEF CheckoutRefund, RequestOK, Request, TypeOK
  <2>2. [contract[c] EXCEPT !.refunded = Cents(req[q].amount)] \in ContractRow
    BY <2>1 DEF ContractRow, ContractStatus
  <2>3. RequestOK("co_vacate", req[q])
    BY <1>0, <1>5 DEF CheckoutRefund, RequestOK
  <2> QED
    BY <1>5, <2>1, <2>2, <2>3, WriteContractTyped, GotoTypeOK
    DEF CheckoutRefund, TypeOK
<1>6. CASE CheckoutVacateRoom(q)
  BY <1>0, <1>6, GotoTypeOK DEF CheckoutVacateRoom, RequestOK, RoomStatus, TypeOK
<1>7. CASE CheckoutUnassignRoom(q)
  BY <1>0, <1>7, GotoTypeOK
  DEF CheckoutUnassignRoom, WriteTenant, RequestOK, TenantRow, TypeOK
<1>8. CASE CheckoutAudit(q)
  BY <1>0, <1>8, FinishTypeOK, CentsType
  DEF CheckoutAudit, Log, RequestOK, Request, AuditEntry, TypeOK
<1> QED BY <1>1, <1>2, <1>3, <1>4, <1>5, <1>6, <1>7, <1>8 DEF Checkout

\* So do the steps of TenantService.Blacklist and UpdateTenant.
LEMMA EditTypeOK ==
  ASSUME TypeOK, NEW q \in Requests, Blacklist(q) \/ UpdateTenant(q)
  PROVE  TypeOK'
<1> USE DEF Steps, CheckinSteps, CheckoutSteps, BlacklistSteps, EditTenantSteps,
            EditRoomSteps, ContractSteps
<1>0. /\ RequestOK(pc[q], req[q]) /\ req[q] \in Request
      /\ pc[q] \in ContractSteps => contract[req[q].contract] # None
  BY DEF TypeOK, Signed
<1>1. CASE BeginBlacklist(q) \/ BeginUpdateTenant(q)
  BY <1>1, BeginTypeOK
<1>2. CASE BlacklistGetTenant(q)
  <2>1. pc[q] = "bl_tenant" /\ req[q].tenant \in Tenants
    BY <1>0, <1>2 DEF BlacklistGetTenant, ReadTenant, RequestOK
  <2>2. \A row \in TenantRow : RequestOK("bl_flag", [req[q] EXCEPT !.seen = row])
    BY <1>0, <2>1 DEF RequestOK, Request
  <2> QED BY <1>2, <2>1, <2>2, ReadTenantTypeOK DEF BlacklistGetTenant
<1>3. CASE BlacklistFlag(q)
  <2>1. req[q].tenant \in Tenants
    BY <1>0, <1>3 DEF BlacklistFlag, RequestOK
  <2>2. tenant' \in [Tenants -> TenantRow]
    BY <1>3, <2>1 DEF BlacklistFlag, TenantRow, TypeOK
  <2> QED BY <1>0, <1>3, <2>2, GotoTypeOK DEF BlacklistFlag, RequestOK, TypeOK
<1>4. CASE BlacklistAudit(q)
  BY <1>0, <1>4, FinishTypeOK DEF BlacklistAudit, Log, RequestOK, AuditEntry, TypeOK
<1>5. CASE UpdateTenantGetTenant(q)
  <2>1. pc[q] = "ut_tenant" /\ req[q].tenant \in Tenants
    BY <1>0, <1>5 DEF UpdateTenantGetTenant, ReadTenant, RequestOK
  <2>2. \A row \in TenantRow : RequestOK("ut_write", [req[q] EXCEPT !.seen = row])
    BY <1>0, <2>1 DEF RequestOK, Request
  <2> QED BY <1>5, <2>1, <2>2, ReadTenantTypeOK DEF UpdateTenantGetTenant
<1>6. CASE UpdateTenantWrite(q)
  <2>1. RequestOK("ut_profile", req[q]) /\ RequestOK("ut_audit", req[q])
    BY <1>0, <1>6 DEF UpdateTenantWrite, RequestOK
  <2>2. tenant' \in [Tenants -> TenantRow]
    BY <1>0, <1>6 DEF UpdateTenantWrite, WriteTenant, RequestOK, TenantRow, TypeOK
  <2> QED BY <1>6, <2>1, <2>2, GotoTypeOK DEF UpdateTenantWrite, TypeOK
<1>7. CASE UpdateTenantProfile(q)
  <2>1. req[q].tenant \in Tenants /\ req[q].details \in Details
    BY <1>0, <1>7 DEF UpdateTenantProfile, RequestOK
  <2>2. tenant' \in [Tenants -> TenantRow]
    BY <1>7, <2>1 DEF UpdateTenantProfile, TenantRow, TypeOK
  <2> QED BY <1>0, <1>7, <2>2, GotoTypeOK DEF UpdateTenantProfile, RequestOK, TypeOK
<1>8. CASE UpdateTenantAudit(q)
  BY <1>0, <1>8, FinishTypeOK DEF UpdateTenantAudit, Log, RequestOK, AuditEntry, TypeOK
<1> QED BY <1>1, <1>2, <1>3, <1>4, <1>5, <1>6, <1>7, <1>8 DEF Blacklist, UpdateTenant

\* So do those of RoomService.UpdateRoom and the faults.
LEMMA RoomAndFaultTypeOK ==
  ASSUME TypeOK, NEW q \in Requests, UpdateRoom(q) \/ Abandon(q) \/ LoseWrite(q)
  PROVE  TypeOK'
<1> USE DEF Steps, CheckinSteps, CheckoutSteps, BlacklistSteps, EditTenantSteps,
            EditRoomSteps, ContractSteps
<1>0. /\ RequestOK(pc[q], req[q]) /\ req[q] \in Request
      /\ pc[q] \in ContractSteps => contract[req[q].contract] # None
  BY DEF TypeOK, Signed
<1>1. CASE BeginUpdateRoom(q)
  BY <1>1, BeginTypeOK
<1>2. CASE UpdateRoomGetRoom(q)
  <2> DEFINE s == IF req[q].status = Keep THEN roomStatus[req[q].room]
                                          ELSE req[q].status
             r == [req[q] EXCEPT !.status = s]
  <2>1. s \in RoomStatus
    BY <1>0, <1>2 DEF UpdateRoomGetRoom, RequestOK, Request, TypeOK
  <2>2. r \in Request /\ RequestOK("ur_write", r)
    BY <1>0, <1>2, <2>1 DEF UpdateRoomGetRoom, RequestOK, Request
  <2>3. req' = [req EXCEPT ![q] = r]
    BY <1>2 DEF UpdateRoomGetRoom, TypeOK
  <2> QED BY <1>2, <2>2, <2>3, LocalTypeOK DEF UpdateRoomGetRoom, Goto
<1>3. CASE UpdateRoomWrite(q)
  BY <1>0, <1>3, FinishTypeOK DEF UpdateRoomWrite, RequestOK, TypeOK
<1>4. CASE Abandon(q)
  BY <1>4, FinishTypeOK DEF Abandon, TypeOK
<1>5. CASE LoseWrite(q)
  BY <1>0, <1>5, GotoTypeOK DEF LoseWrite, RequestOK, TypeOK
<1> QED BY <1>1, <1>2, <1>3, <1>4, <1>5 DEF UpdateRoom

\* The tables always hold rows of their columns' types, and a request the values
\* its next statement needs.
THEOREM TypeCorrect == Spec => []TypeOK
<1>1. TypeOK /\ [Next]_vars => TypeOK'
  <2> SUFFICES ASSUME TypeOK, [Next]_vars PROVE TypeOK'
    OBVIOUS
  <2>1. CASE Next
    BY <2>1, CheckinTypeOK, CheckoutTypeOK, EditTypeOK, RoomAndFaultTypeOK DEF Next
  <2>2. CASE UNCHANGED vars
    BY <2>2 DEF vars, TypeOK, Signed
  <2> QED BY <2>1, <2>2
<1> QED BY <1>1, InitTypeOK, PTL DEF Spec

-----------------------------------------------------------------------------
(* Refunds *)

\* A row that records a refund of at most its deposit, after termination, the
\* deposit being an amount in whole cents.
RefundOK(row) ==
    /\ row.deposit \in {Cents(a) : a \in Amounts}
    /\ row.refunded <= row.deposit
    /\ row.refunded > 0 => row.status = "terminated"

\* Rounding does not lift a refund above a deposit, which is in whole cents.
LEMMA RoundedRefund ==
  ASSUME NEW row \in ContractRow, RefundOK(row), NEW x \in Nat, x <= row.deposit
  PROVE  Cents(x) <= row.deposit
<1>1. row.deposit \in Nat /\ Cents(row.deposit) = row.deposit
  BY CentsIdempotent, ConstantsAssumption DEF RefundOK, ContractRow
<1> QED BY <1>1, CentsMonotone

\* What Checkout has checked of its contract, and not looked at again: the amount
\* it will refund is within the deposit, and the contract has been terminated.
CheckedOK(l, r, row) ==
    /\ l \in {"co_terminate", "co_refund"} => r.amount <= row.deposit
    /\ l = "co_refund" => row.status = "terminated"

\* RefundWithinDeposit does not follow from itself: a check-out may find the
\* contract, wait while others write, and refund long after.
RefundInv ==
    /\ \A c \in Contracts : Signed(c) => RefundOK(contract[c])
    /\ \A q \in Requests : CheckedOK(pc[q], req[q], contract[req[q].contract])
    /\ \A q \in Requests : pc[q] \in CheckinSteps => req[q].amount \in Amounts

\* A step of request q that does not write contracts and that leaves q where
\* RefundInv asks little of it.
Harmless(q) ==
    /\ UNCHANGED contract
    /\ \A p \in Requests \ {q} : pc'[p] = pc[p] /\ req'[p] = req[p]
    /\ pc'[q] \notin {"co_terminate", "co_refund"}
    /\ pc'[q] \in CheckinSteps => req'[q].amount \in Amounts

\* Such a step keeps what a refund in progress rests on.
LEMMA HarmlessRefund ==
  ASSUME RefundInv, NEW q \in Requests, Harmless(q)
  PROVE  RefundInv'
  BY DEF RefundInv, Harmless, CheckedOK, RefundOK, Signed

\* All steps but four are of that kind.
LEMMA MostAreHarmless ==
  ASSUME TypeOK, RefundInv, NEW q \in Requests,
         \/ Checkin(q) \/ Checkout(q) \/ Blacklist(q) \/ UpdateTenant(q)
         \/ UpdateRoom(q) \/ Abandon(q) \/ LoseWrite(q)
  PROVE  \/ Harmless(q) \/ CheckinCreateContract(q) \/ CheckoutGetContract(q)
         \/ CheckoutTerminate(q) \/ CheckoutRefund(q)
<1> USE DEF TypeOK, RefundInv, Harmless, Begin, Goto, Finish, CheckinSteps
<1>1. CASE Checkin(q)
  <2>1. CASE BeginCheckin(q)
    BY <2>1 DEF BeginCheckin, Blank
  <2>2. CASE CheckinGetRoom(q)
    BY <2>2 DEF CheckinGetRoom
  <2>3. CASE CheckinGetTenant(q)
    BY <2>3 DEF CheckinGetTenant, Request
  <2>4. CASE CheckinOccupyRoom(q) \/ CheckinAssignRoom(q) \/ CheckinAudit(q)
    BY <2>4 DEF CheckinOccupyRoom, CheckinAssignRoom, CheckinAudit, Log
  <2> QED BY <1>1, <2>1, <2>2, <2>3, <2>4 DEF Checkin
<1>2. CASE Checkout(q)
  BY <1>2 DEF Checkout, BeginCheckout, CheckoutGetTenant, ReadTenant,
              CheckoutVacateRoom, CheckoutUnassignRoom, CheckoutAudit, Log
<1>3. CASE Blacklist(q) \/ UpdateTenant(q)
  BY <1>3 DEF Blacklist, BeginBlacklist, BlacklistGetTenant, BlacklistFlag,
              BlacklistAudit, UpdateTenant, BeginUpdateTenant,
              UpdateTenantGetTenant, UpdateTenantWrite, UpdateTenantProfile, UpdateTenantAudit,
              ReadTenant, Log
<1>4. CASE UpdateRoom(q)
  BY <1>4 DEF UpdateRoom, BeginUpdateRoom, UpdateRoomGetRoom, UpdateRoomWrite
<1>5. CASE Abandon(q) \/ LoseWrite(q)
  BY <1>5 DEF Abandon, LoseWrite
<1> QED BY <1>1, <1>2, <1>3, <1>4, <1>5

\* A step of request q that writes the row of contract c keeps RefundInv when the
\* row keeps its deposit and stays terminated if it was.
LEMMA WriteRefund ==
  ASSUME TypeOK, RefundInv, NEW q \in Requests, NEW c \in Contracts,
         NEW row \in ContractRow, NEW l \in Steps \ CheckinSteps,
         Signed(c), contract' = [contract EXCEPT ![c] = row],
         Goto(q, l), UNCHANGED req, req[q].contract = c,
         row.deposit = contract[c].deposit,
         contract[c].status = "terminated" => row.status = "terminated",
         RefundOK(row), CheckedOK(l, req[q], row)
  PROVE  RefundInv'
<1>1. ASSUME NEW d \in Contracts, contract'[d] # None
      PROVE  RefundOK(contract'[d])
  BY <1>1 DEF TypeOK, RefundInv, Signed
<1>2. ASSUME NEW p \in Requests
      PROVE  /\ CheckedOK(pc'[p], req'[p], contract'[req'[p].contract])
             /\ pc'[p] \in CheckinSteps => req'[p].amount \in Amounts
  <2>1. CASE p = q
    BY <2>1 DEF TypeOK, Goto
  <2>2. CASE p # q
    <3>1. pc'[p] = pc[p] /\ req'[p] = req[p]
      BY <2>2 DEF TypeOK, Goto
    <3>2. CASE pc[p] \in {"co_terminate", "co_refund"}
      BY <3>1, <3>2 DEF TypeOK, RequestOK, ContractSteps, RefundInv, CheckedOK
    <3>3. CASE pc[p] \notin {"co_terminate", "co_refund"}
      BY <3>1, <3>3 DEF RefundInv, CheckedOK
    <3> QED BY <3>2, <3>3
  <2> QED BY <2>1, <2>2
<1> QED BY <1>1, <1>2 DEF RefundInv, Signed

\* Checkin signs with a deposit rounded from an amount a request asked.
LEMMA CreateContractRefund ==
  ASSUME TypeOK, RefundInv, NEW q \in Requests, CheckinCreateContract(q)
  PROVE  RefundInv'
<1>1. PICK c \in Contracts :
         /\ contract[c] = None
         /\ contract' = [contract EXCEPT ![c] =
               [tenant |-> req[q].tenant, room |-> req[q].room,
                property |-> req[q].property, status |-> "active",
                deposit |-> Cents(req[q].amount), refunded |-> 0]]
         /\ req' = [req EXCEPT ![q].contract = c]
  BY DEF CheckinCreateContract
<1>2. /\ req[q] \in Request /\ req[q].amount \in Amounts
      /\ Cents(req[q].amount) \in Nat
  BY CentsType DEF CheckinCreateContract, TypeOK, RefundInv, CheckinSteps, Request
<1>3. ASSUME NEW d \in Contracts, contract'[d] # None
      PROVE  RefundOK(contract'[d])
  BY <1>1, <1>2, <1>3 DEF TypeOK, RefundInv, RefundOK, Signed
<1>4. ASSUME NEW p \in Requests
      PROVE  /\ CheckedOK(pc'[p], req'[p], contract'[req'[p].contract])
             /\ pc'[p] \in CheckinSteps => req'[p].amount \in Amounts
  <2>1. CASE p = q
    BY <1>1, <1>2, <2>1
    DEF CheckinCreateContract, Goto, TypeOK, Request, CheckedOK
  <2>2. CASE p # q
    <3>1. pc'[p] = pc[p] /\ req'[p] = req[p]
      BY <1>1, <2>2 DEF CheckinCreateContract, TypeOK, Goto
    <3>2. CASE pc[p] \in {"co_terminate", "co_refund"}
      <4>1. req[p].contract \in Contracts /\ req[p].contract # c
        BY <1>1, <3>2 DEF TypeOK, RequestOK, ContractSteps, Signed
      <4> QED BY <1>1, <3>1, <4>1 DEF TypeOK, RefundInv
    <3>3. CASE pc[p] \notin {"co_terminate", "co_refund"}
      BY <3>1, <3>3 DEF RefundInv, CheckedOK
    <3> QED BY <3>2, <3>3
  <2> QED BY <2>1, <2>2
<1> QED BY <1>3, <1>4 DEF RefundInv, Signed

\* Checkout goes on with a contract whose deposit covers the refund asked.
LEMMA GetContractRefund ==
  ASSUME TypeOK, RefundInv, NEW q \in Requests, CheckoutGetContract(q)
  PROVE  RefundInv'
<1>1. CASE Finish(q)
  <2>1. Harmless(q)
    BY <1>1 DEF CheckoutGetContract, Finish, Harmless, TypeOK, CheckinSteps
  <2> QED BY <2>1, HarmlessRefund
<1>2. CASE ~Finish(q)
  <2>1. PICK c \in ActiveContractsOf(req[q].tenant) :
           /\ req[q].amount <= contract[c].deposit
           /\ Goto(q, "co_terminate")
           /\ req' = [req EXCEPT ![q].contract = c, ![q].room = contract[c].room]
    BY <1>2 DEF CheckoutGetContract
  <2>2. UNCHANGED contract
    BY DEF CheckoutGetContract
  <2>3. ASSUME NEW p \in Requests
        PROVE  /\ CheckedOK(pc'[p], req'[p], contract[req'[p].contract])
               /\ pc'[p] \in CheckinSteps => req'[p].amount \in Amounts
    <3>1. CASE p = q
      BY <2>1, <3>1 DEF Goto, TypeOK, Request, CheckedOK, CheckinSteps
    <3>2. CASE p # q
      BY <2>1, <3>2 DEF Goto, TypeOK, RefundInv
    <3> QED BY <3>1, <3>2
  <2> QED BY <2>2, <2>3 DEF RefundInv, Signed
<1> QED BY <1>1, <1>2

\* Checkout terminates, and only then refunds.
LEMMA TerminateRefund ==
  ASSUME TypeOK, RefundInv, NEW q \in Requests, CheckoutTerminate(q)
  PROVE  RefundInv'
<1> DEFINE c   == req[q].contract
           row == [contract[c] EXCEPT !.status = "terminated"]
           l   == IF req[q].amount > 0 THEN "co_refund" ELSE "co_vacate"
<1>1. /\ c \in Contracts /\ Signed(c) /\ contract[c] \in ContractRow
      /\ req[q].amount <= contract[c].deposit /\ RefundOK(contract[c])
  BY DEF CheckoutTerminate, TypeOK, RequestOK, ContractSteps, Signed, RefundInv,
         CheckedOK
<1>2. row \in ContractRow /\ row.deposit = contract[c].deposit
        /\ row.status = "terminated" /\ row.refunded = contract[c].refunded
  BY <1>1 DEF ContractRow, ContractStatus
<1>3. contract' = [contract EXCEPT ![c] = row]
  BY <1>1 DEF CheckoutTerminate, TypeOK
<1>4. RefundOK(row) /\ CheckedOK(l, req[q], row)
  BY <1>1, <1>2 DEF RefundOK, CheckedOK
<1>5. l \in Steps \ CheckinSteps
  BY DEF Steps, CheckinSteps, CheckoutSteps
<1> QED BY <1>1, <1>2, <1>3, <1>4, <1>5, WriteRefund DEF CheckoutTerminate

\* The refund was compared before rounding; rounding keeps the order, and the
\* deposit is in whole cents already.
LEMMA RecordRefund ==
  ASSUME TypeOK, RefundInv, NEW q \in Requests, CheckoutRefund(q)
  PROVE  /\ RefundInv'
         /\ LET c == req[q].contract IN
              /\ c \in Contracts /\ Signed(c)
              /\ contract[c].status = "terminated"
              /\ Cents(req[q].amount) \in 0 .. contract[c].deposit
<1> DEFINE c   == req[q].contract
           row == [contract[c] EXCEPT !.refunded = Cents(req[q].amount)]
<1>1. /\ c \in Contracts /\ Signed(c) /\ contract[c] \in ContractRow
      /\ req[q].amount \in Nat /\ req[q].amount <= contract[c].deposit
      /\ contract[c].status = "terminated" /\ RefundOK(contract[c])
  BY DEF CheckoutRefund, TypeOK, RequestOK, Request, ContractSteps, Signed,
         RefundInv, CheckedOK
<1>2. contract[c].deposit \in Nat
  BY <1>1 DEF ContractRow
<1>3. /\ Cents(req[q].amount) \in Nat
      /\ Cents(req[q].amount) <= contract[c].deposit
  BY <1>1, CentsType, RoundedRefund
<1>4. row \in ContractRow /\ row.deposit = contract[c].deposit
        /\ row.status = "terminated" /\ row.refunded = Cents(req[q].amount)
  BY <1>1, <1>3 DEF ContractRow
<1>5. contract' = [contract EXCEPT ![c] = row]
  BY <1>1 DEF CheckoutRefund, TypeOK
<1>6. RefundOK(row) /\ CheckedOK("co_vacate", req[q], row)
  BY <1>1, <1>3, <1>4 DEF RefundOK, CheckedOK
<1>7. "co_vacate" \in Steps \ CheckinSteps
  BY DEF Steps, CheckinSteps, CheckoutSteps
<1>8. RefundInv'
  BY <1>1, <1>4, <1>5, <1>6, <1>7, WriteRefund DEF CheckoutRefund
<1>9. Cents(req[q].amount) \in 0 .. contract[c].deposit
  BY <1>2, <1>3
<1> QED BY <1>1, <1>8, <1>9

\* RefundInv is an invariant.
LEMMA RefundInvariant == Spec => []RefundInv
<1>1. Init => RefundInv
  BY DEF Init, RefundInv, Signed, CheckedOK, CheckinSteps
<1>2. TypeOK /\ RefundInv /\ [Next]_vars => RefundInv'
  <2> SUFFICES ASSUME TypeOK, RefundInv, [Next]_vars PROVE RefundInv'
    OBVIOUS
  <2>1. CASE Next
    BY <2>1, MostAreHarmless, HarmlessRefund, CreateContractRefund,
       GetContractRefund, TerminateRefund, RecordRefund DEF Next
  <2>2. CASE UNCHANGED vars
    BY <2>2 DEF vars, RefundInv, Signed
  <2> QED BY <2>1, <2>2
<1> QED BY <1>1, <1>2, TypeCorrect, PTL DEF Spec

\* However many requests interleave and whatever fails, the refund recorded for a
\* contract is at most its deposit, and the contract is terminated.
THEOREM RefundsAreCovered == Spec => []RefundWithinDeposit
<1>1. RefundInv => RefundWithinDeposit
  BY DEF RefundInv, RefundOK, RefundWithinDeposit
<1> QED BY <1>1, RefundInvariant, PTL

\* The initial tables and every step of Occupancy, seen through the contracts
\* table alone, are those of ContractLedger: requests that interleave and fail can
\* sign, terminate and refund, in that order for each contract, and nothing else.
THEOREM ImplementsLedger == Spec => LedgerSpec
<1>1. Init => Ledger!Init
  BY DEF Init, Ledger!Init
<1>2. TypeOK /\ RefundInv /\ [Next]_vars => [Ledger!Next]_contract
  <2> SUFFICES ASSUME TypeOK, RefundInv, [Next]_vars PROVE [Ledger!Next]_contract
    OBVIOUS
  <2>1. ASSUME NEW q \in Requests, CheckinCreateContract(q)
        PROVE  \E c \in Contracts : Ledger!Sign(c)
    <3>1. /\ req[q].tenant \in Tenants /\ req[q].room \in Rooms
          /\ req[q].property \in Properties /\ req[q].amount \in Amounts
      BY <2>1 DEF CheckinCreateContract, TypeOK, RequestOK, RefundInv, CheckinSteps
    <3>2. PICK c \in Contracts :
             /\ contract[c] = None
             /\ contract' = [contract EXCEPT ![c] =
                   [tenant |-> req[q].tenant, room |-> req[q].room,
                    property |-> req[q].property, status |-> "active",
                    deposit |-> Cents(req[q].amount), refunded |-> 0]]
      BY <2>1 DEF CheckinCreateContract
    <3>3. Cents(req[q].amount) \in {Cents(a) : a \in Amounts}
      BY <3>1
    <3>4. Ledger!Sign(c)
      BY <3>1, <3>2, <3>3 DEF Ledger!Sign
    <3> QED BY <3>4
  <2>2. ASSUME NEW q \in Requests, CheckoutTerminate(q)
        PROVE  \E c \in Contracts : Ledger!Terminate(c)
    <3>1. req[q].contract \in Contracts /\ contract[req[q].contract] # None
      BY <2>2 DEF CheckoutTerminate, TypeOK, RequestOK, ContractSteps, Signed
    <3> QED BY <2>2, <3>1 DEF CheckoutTerminate, Ledger!Terminate
  <2>3. ASSUME NEW q \in Requests, CheckoutRefund(q)
        PROVE  \E c \in Contracts : Ledger!Refund(c)
    BY <2>3, RecordRefund DEF CheckoutRefund, Ledger!Refund, Signed
  <2>4. ASSUME NEW q \in Requests, Harmless(q) \/ CheckoutGetContract(q)
        PROVE  UNCHANGED contract
    BY <2>4 DEF Harmless, CheckoutGetContract
  <2>5. CASE Next
    BY <2>1, <2>2, <2>3, <2>4, <2>5, MostAreHarmless DEF Next, Ledger!Next
  <2>6. CASE UNCHANGED vars
    BY <2>6 DEF vars
  <2> QED BY <2>5, <2>6
<1> QED
  BY <1>1, <1>2, TypeCorrect, RefundInvariant, PTL DEF Spec, LedgerSpec, Ledger!Spec

-----------------------------------------------------------------------------
(* Blacklisting *)

\* No statement of a request turns is_blacklisted off.
LEMMA FlagStays ==
  ASSUME TypeOK, [Next]_vars, NEW t \in Tenants, tenant[t].blacklisted
  PROVE  tenant'[t].blacklisted
<1> USE DEF TypeOK, TenantRow
<1>1. ASSUME NEW u, NEW r, NEW p, NEW d, WriteTenant(u, r, p, d)
      PROVE  tenant'[t].blacklisted
  BY <1>1 DEF WriteTenant
<1>2. ASSUME NEW q \in Requests, BlacklistFlag(q)
      PROVE  tenant'[t].blacklisted
  BY <1>2 DEF BlacklistFlag
<1>3. ASSUME NEW q \in Requests, Checkin(q) \/ Checkout(q) \/ UpdateTenant(q)
      PROVE  tenant'[t].blacklisted
  BY <1>1, <1>3
  DEF Checkin, BeginCheckin, CheckinGetRoom, CheckinGetTenant,
      CheckinCreateContract, CheckinOccupyRoom, CheckinAssignRoom, CheckinAudit,
      Checkout, BeginCheckout, CheckoutGetTenant, CheckoutGetContract,
      CheckoutTerminate, CheckoutRefund, CheckoutVacateRoom, CheckoutUnassignRoom,
      CheckoutAudit, UpdateTenant, BeginUpdateTenant, UpdateTenantGetTenant,
      UpdateTenantWrite, UpdateTenantProfile, UpdateTenantAudit, Begin, ReadTenant, Log
<1>4. ASSUME NEW q \in Requests,
             Blacklist(q) \/ UpdateRoom(q) \/ Abandon(q) \/ LoseWrite(q)
      PROVE  tenant'[t].blacklisted
  BY <1>2, <1>4
  DEF Blacklist, BeginBlacklist, BlacklistGetTenant, BlacklistAudit, UpdateRoom,
      BeginUpdateRoom, UpdateRoomGetRoom, UpdateRoomWrite, Abandon, LoseWrite,
      Begin, ReadTenant, Log
<1>5. CASE UNCHANGED vars
  BY <1>5 DEF vars
<1> QED BY <1>3, <1>4, <1>5 DEF Next

\* A blacklisted tenant stays blacklisted, whatever stale rows are written back.
THEOREM BlacklistIsPermanent == Spec => BlacklistPermanent
<1>1. TypeOK /\ [Next]_vars
        => [\A t \in Tenants : tenant[t].blacklisted => tenant'[t].blacklisted]_tenant
  BY FlagStays
<1> QED BY <1>1, TypeCorrect, PTL DEF Spec, BlacklistPermanent

\* Until it signs, a check-in whose tenant was blacklisted when it arrived finds
\* the tenant still blacklisted, and so it never comes to sign.
BarredInv ==
    \A q \in Requests :
       /\ pc[q] \in {"ci_room", "ci_tenant", "ci_contract"}
            => (req[q].barred => tenant[req[q].tenant].blacklisted)
       /\ pc[q] = "ci_contract" => ~req[q].barred

\* A step of request q that leaves BarredInv true of q itself.
Settles(q) ==
    /\ \A p \in Requests \ {q} : pc'[p] = pc[p] /\ req'[p] = req[p]
    /\ pc'[q] \in {"ci_room", "ci_tenant", "ci_contract"}
         => (req'[q].barred => tenant'[req'[q].tenant].blacklisted)
    /\ pc'[q] = "ci_contract" => ~req'[q].barred

\* Such a step keeps a check-in that came too late from its contract.
LEMMA SettlesBarred ==
  ASSUME TypeOK, BarredInv, [Next]_vars, NEW q \in Requests, Settles(q)
  PROVE  BarredInv'
<1>1. ASSUME NEW p \in Requests \ {q},
             pc[p] \in {"ci_room", "ci_tenant", "ci_contract"}, req[p].barred
      PROVE  tenant'[req[p].tenant].blacklisted
  <2>1. req[p].tenant \in Tenants /\ tenant[req[p].tenant].blacklisted
    BY <1>1 DEF TypeOK, RequestOK, CheckinSteps, BarredInv
  <2> QED BY <2>1, FlagStays
<1> QED BY <1>1 DEF BarredInv, Settles

\* The steps of Checkin up to its first write settle q.
LEMMA CheckinSettles ==
  ASSUME TypeOK, BarredInv, NEW q \in Requests,
         \/ BeginCheckin(q) \/ CheckinGetRoom(q) \/ CheckinGetTenant(q)
         \/ CheckinCreateContract(q)
  PROVE  Settles(q)
<1> USE DEF TypeOK, BarredInv, Settles, Goto, Finish
<1>1. CASE BeginCheckin(q)
  <2>1. PICK t \in Tenants, r \in Rooms, p \in Properties, a \in Amounts :
           Begin(q, "ci_room",
                 [Blank EXCEPT !.caller = OwnerOf[p], !.tenant = t, !.room = r,
                               !.property = p, !.amount = a,
                               !.barred = tenant[t].blacklisted])
    BY <1>1 DEF BeginCheckin
  <2>2. pc'[q] = "ci_room" /\ tenant' = tenant /\ req'[q].tenant = t
          /\ req'[q].barred = tenant[t].blacklisted
    BY <2>1 DEF Begin, Blank
  <2> QED BY <2>1, <2>2 DEF Begin
<1>2. CASE CheckinGetRoom(q)
  BY <1>2 DEF CheckinGetRoom
<1>3. CASE CheckinGetTenant(q)
  BY <1>3 DEF CheckinGetTenant, Request
<1>4. CASE CheckinCreateContract(q)
  BY <1>4 DEF CheckinCreateContract
<1> QED BY <1>1, <1>2, <1>3, <1>4

\* Every other step leaves its request nowhere near a signature.
LEMMA OthersSettle ==
  ASSUME TypeOK, NEW q \in Requests,
         \/ CheckinOccupyRoom(q) \/ CheckinAssignRoom(q) \/ CheckinAudit(q)
         \/ Checkout(q) \/ Blacklist(q) \/ UpdateTenant(q) \/ UpdateRoom(q)
         \/ Abandon(q) \/ LoseWrite(q)
  PROVE  Settles(q)
<1> USE DEF TypeOK, Settles, Goto, Finish, Begin, Log, ReadTenant
<1>1. CASE CheckinOccupyRoom(q) \/ CheckinAssignRoom(q) \/ CheckinAudit(q)
  BY <1>1 DEF CheckinOccupyRoom, CheckinAssignRoom, CheckinAudit
<1>2. CASE Checkout(q)
  BY <1>2 DEF Checkout, BeginCheckout, CheckoutGetTenant, CheckoutGetContract,
              CheckoutTerminate, CheckoutRefund, CheckoutVacateRoom,
              CheckoutUnassignRoom, CheckoutAudit
<1>3. CASE Blacklist(q) \/ UpdateTenant(q)
  BY <1>3 DEF Blacklist, BeginBlacklist, BlacklistGetTenant, BlacklistFlag,
              BlacklistAudit, UpdateTenant, BeginUpdateTenant,
              UpdateTenantGetTenant, UpdateTenantWrite, UpdateTenantProfile, UpdateTenantAudit
<1>4. CASE UpdateRoom(q) \/ Abandon(q) \/ LoseWrite(q)
  BY <1>4 DEF UpdateRoom, BeginUpdateRoom, UpdateRoomGetRoom, UpdateRoomWrite,
              Abandon, LoseWrite
<1> QED BY <1>1, <1>2, <1>3, <1>4

\* BarredInv is an invariant.
LEMMA BarredInvariant == Spec => []BarredInv
<1>1. Init => BarredInv
  BY DEF Init, BarredInv
<1>2. TypeOK /\ BarredInv /\ [Next]_vars => BarredInv'
  <2> SUFFICES ASSUME TypeOK, BarredInv, [Next]_vars PROVE BarredInv'
    OBVIOUS
  <2>1. CASE Next
    <3>1. PICK q \in Requests :
             \/ Checkin(q) \/ Checkout(q) \/ Blacklist(q) \/ UpdateTenant(q)
             \/ UpdateRoom(q) \/ Abandon(q) \/ LoseWrite(q)
      BY <2>1 DEF Next
    <3>2. Settles(q)
      BY <3>1, CheckinSettles, OthersSettle DEF Checkin
    <3> QED BY <3>2, SettlesBarred
  <2>2. CASE UNCHANGED vars
    BY <2>2 DEF vars, BarredInv
  <2> QED BY <2>1, <2>2
<1> QED BY <1>1, <1>2, TypeCorrect, PTL DEF Spec

\* Only a check-in that arrived before its tenant was blacklisted signs a contract.
THEOREM NoneSignedOnceBlacklisted == Spec => NoContractAfterBlacklist
<1> DEFINE SignedInTime ==
      \A c \in Contracts : ~Signed(c) /\ contract'[c] # None =>
         \E q \in Requests : /\ pc[q] = "ci_contract"
                              /\ req'[q].contract = c
                              /\ req[q].tenant = contract'[c].tenant
                              /\ ~req[q].barred
<1>1. TypeOK /\ RefundInv /\ BarredInv /\ [Next]_vars => [SignedInTime]_contract
  <2> SUFFICES ASSUME TypeOK, RefundInv, BarredInv, [Next]_vars,
                      NEW c \in Contracts, ~Signed(c), contract'[c] # None
               PROVE  \E q \in Requests : /\ pc[q] = "ci_contract"
                                           /\ req'[q].contract = c
                                           /\ req[q].tenant = contract'[c].tenant
                                           /\ ~req[q].barred
    OBVIOUS
  <2>1. ASSUME NEW q \in Requests, CheckoutTerminate(q) \/ CheckoutRefund(q)
        PROVE  FALSE
    <3>1. req[q].contract \in Contracts /\ req[q].contract # c
      BY <2>1 DEF CheckoutTerminate, CheckoutRefund, TypeOK, RequestOK, ContractSteps,
                  Signed
    <3> QED BY <2>1, <3>1 DEF CheckoutTerminate, CheckoutRefund, TypeOK, Signed
  <2>2. ASSUME NEW q \in Requests, Harmless(q) \/ CheckoutGetContract(q)
        PROVE  FALSE
    BY <2>2 DEF Harmless, CheckoutGetContract, Signed
  <2>3. PICK q \in Requests : CheckinCreateContract(q)
    <3>1. CASE Next
      BY <2>1, <2>2, <3>1, MostAreHarmless DEF Next
    <3>2. CASE UNCHANGED vars
      BY <3>2 DEF vars, Signed
    <3> QED BY <3>1, <3>2
  <2> QED BY <2>3 DEF CheckinCreateContract, TypeOK, Request, BarredInv, Signed
<1> QED
  BY <1>1, TypeCorrect, RefundInvariant, BarredInvariant, PTL
  DEF Spec, NoContractAfterBlacklist

-----------------------------------------------------------------------------
(* The audit trail *)

\* No statement deletes a contract, changes its deposit or turns a terminated one
\* active again.
LEMMA ContractsStay ==
  ASSUME TypeOK, RefundInv, [Next]_vars, NEW c \in Contracts, Signed(c)
  PROVE  /\ Signed(c)'
         /\ contract'[c].deposit = contract[c].deposit
         /\ contract[c].status = "terminated" => contract'[c].status = "terminated"
<1>1. ASSUME NEW q \in Requests, CheckoutTerminate(q) \/ CheckoutRefund(q)
      PROVE  /\ Signed(c)'
             /\ contract'[c].deposit = contract[c].deposit
             /\ contract[c].status = "terminated"
                  => contract'[c].status = "terminated"
  <2> DEFINE d == req[q].contract
  <2>1. d \in Contracts /\ contract[d] \in ContractRow
    BY <1>1 DEF CheckoutTerminate, CheckoutRefund, TypeOK, RequestOK, ContractSteps,
                Signed
  <2>2. CASE CheckoutTerminate(q)
    <3>1. contract' = [contract EXCEPT ![d] = [@ EXCEPT !.status = "terminated"]]
      BY <2>2 DEF CheckoutTerminate
    <3>2. [contract[d] EXCEPT !.status = "terminated"] \in ContractRow
      BY <2>1 DEF ContractRow, ContractStatus
    <3> QED BY <2>1, <3>1, <3>2, NoneIsNoRow DEF TypeOK, Signed, ContractRow
  <2>3. CASE CheckoutRefund(q)
    <3> DEFINE x == Cents(req[q].amount)
    <3>0. x \in Nat
      BY CentsType DEF TypeOK, Request
    <3> HIDE DEF x
    <3>1. contract' = [contract EXCEPT ![d] = [@ EXCEPT !.refunded = x]]
      BY <2>3 DEF CheckoutRefund, x
    <3>2. [contract[d] EXCEPT !.refunded = x] \in ContractRow
      BY <2>1, <3>0 DEF ContractRow, ContractStatus
    <3> QED BY <2>1, <3>1, <3>2, NoneIsNoRow DEF TypeOK, Signed, ContractRow
  <2> QED BY <1>1, <2>2, <2>3
<1>2. ASSUME NEW q \in Requests, CheckinCreateContract(q)
      PROVE  contract'[c] = contract[c]
  BY <1>2 DEF CheckinCreateContract, TypeOK, Signed
<1>3. ASSUME NEW q \in Requests, Harmless(q) \/ CheckoutGetContract(q)
      PROVE  contract'[c] = contract[c]
  BY <1>3 DEF Harmless, CheckoutGetContract
<1>4. CASE Next
  BY <1>1, <1>2, <1>3, <1>4, MostAreHarmless DEF Next, Signed
<1>5. CASE UNCHANGED vars
  BY <1>5 DEF vars, Signed
<1> QED BY <1>4, <1>5

\* The steps of a check-out after it terminated its contract.
EndedSteps == {"co_refund", "co_vacate", "co_unassign", "co_audit"}

\* Contract row is terminated and its deposit covers the refund, rounded, that
\* request r asks for.
Ended(row, r) == row.status = "terminated" /\ Cents(r.amount) <= row.deposit

\* What the entry a request will write says is true before it is written.
AuditInv ==
    /\ AuditTellsTheTruth
    /\ \A q \in Requests :
         /\ pc[q] \in EndedSteps => Ended(contract[req[q].contract], req[q])
         /\ pc[q] = "bl_audit" => tenant[req[q].tenant].blacklisted

\* A step of request q after which q is ready to write a true entry, and whose
\* own entry, if it writes one, is true.
Truthful(q) ==
    /\ \A p \in Requests \ {q} : pc'[p] = pc[p] /\ req'[p] = req[p]
    /\ pc'[q] \in EndedSteps => Ended(contract'[req'[q].contract], req'[q])
    /\ pc'[q] = "bl_audit" => tenant'[req'[q].tenant].blacklisted
    /\ \/ audit' = audit
       \/ /\ pc[q] = "ci_audit"
          /\ audit' = audit \cup {<<"checkin", req[q].contract>>}
       \/ /\ pc[q] = "co_audit"
          /\ audit' = audit \cup {<<"checkout", req[q].contract,
                                    Cents(req[q].amount)>>}
       \/ /\ pc[q] = "bl_audit"
          /\ audit' = audit \cup {<<"blacklist_tenant", req[q].tenant>>}
       \/ \E t \in Tenants : audit' = audit \cup {<<"update_tenant", t>>}

\* Such a step keeps the audit trail true.
LEMMA TruthfulAudit ==
  ASSUME TypeOK, RefundInv, AuditInv, [Next]_vars, NEW q \in Requests, Truthful(q)
  PROVE  AuditInv'
<1>1. ASSUME NEW c \in Contracts, Signed(c)
      PROVE  /\ contract'[c] # None
             /\ contract'[c].deposit = contract[c].deposit
             /\ contract[c].status = "terminated"
                  => contract'[c].status = "terminated"
  BY <1>1, ContractsStay DEF Signed
<1>2. ASSUME NEW p \in Requests \ {q}
      PROVE  /\ pc'[p] \in EndedSteps => Ended(contract'[req'[p].contract], req'[p])
             /\ pc'[p] = "bl_audit" => tenant'[req'[p].tenant].blacklisted
  <2>1. CASE pc[p] \in EndedSteps
    <3>1. req[p].contract \in Contracts /\ Signed(req[p].contract)
      BY <2>1 DEF TypeOK, RequestOK, ContractSteps, EndedSteps
    <3> QED BY <1>1, <2>1, <3>1 DEF Truthful, AuditInv, EndedSteps, Ended
  <2>2. CASE pc[p] = "bl_audit"
    <3>1. req[p].tenant \in Tenants
      BY <2>2 DEF TypeOK, RequestOK, BlacklistSteps
    <3> QED BY <2>2, <3>1, FlagStays DEF Truthful, AuditInv, EndedSteps
  <2> QED BY <2>1, <2>2 DEF Truthful
<1>3. ASSUME NEW c \in Contracts, <<"checkin", c>> \in audit'
      PROVE  contract'[c] # None
  <2>1. CASE <<"checkin", c>> \in audit
    BY <1>1, <2>1 DEF AuditInv, AuditTellsTheTruth
  <2>2. CASE <<"checkin", c>> \notin audit
    <3>1. pc[q] = "ci_audit" /\ c = req[q].contract
      BY <1>3, <2>2 DEF Truthful
    <3> QED BY <1>1, <3>1 DEF TypeOK, ContractSteps
  <2> QED BY <2>1, <2>2
<1>4. ASSUME NEW c \in Contracts, NEW e \in CheckoutEntries(c)'
      PROVE  /\ contract'[c] # None /\ contract'[c].status # "active"
             /\ e[3] <= contract'[c].deposit
  <2>1. /\ Signed(c) /\ contract[c].status = "terminated"
        /\ e[3] <= contract[c].deposit
    <3>1. CASE e \in audit
      <4>1. Signed(c) /\ contract[c].status # "active" /\ e[3] <= contract[c].deposit
        BY <3>1 DEF AuditInv, AuditTellsTheTruth, CheckoutEntries, Active
      <4>2. contract[c] \in ContractRow
        BY <4>1 DEF TypeOK, Signed
      <4> QED BY <4>1, <4>2 DEF ContractRow, ContractStatus
    <3>2. CASE e \notin audit
      <4>1. /\ pc[q] = "co_audit"
            /\ e = <<"checkout", req[q].contract, Cents(req[q].amount)>>
        BY <3>2 DEF Truthful, CheckoutEntries
      <4>2. c = req[q].contract /\ e[3] = Cents(req[q].amount)
        BY <4>1 DEF CheckoutEntries
      <4> QED BY <4>1, <4>2 DEF AuditInv, EndedSteps, Ended, TypeOK, ContractSteps
    <3> QED BY <3>1, <3>2
  <2> QED BY <1>1, <2>1
<1>5. ASSUME NEW t \in Tenants, <<"blacklist_tenant", t>> \in audit'
      PROVE  tenant'[t].blacklisted
  <2>1. tenant[t].blacklisted
    BY <1>5 DEF Truthful, AuditInv, AuditTellsTheTruth
  <2> QED BY <2>1, FlagStays
<1> QED BY <1>2, <1>3, <1>4, <1>5 DEF AuditInv, Truthful, AuditTellsTheTruth, Signed, Active

\* Every step of every request is such a step.
LEMMA AllAreTruthful ==
  ASSUME TypeOK, RefundInv, AuditInv, NEW q \in Requests,
         \/ Checkin(q) \/ Checkout(q) \/ Blacklist(q) \/ UpdateTenant(q)
         \/ UpdateRoom(q) \/ Abandon(q) \/ LoseWrite(q)
  PROVE  Truthful(q)
<1> USE DEF TypeOK, Truthful, Goto, Finish, Begin, Log, ReadTenant, EndedSteps
<1>1. CASE Checkin(q)
  BY <1>1 DEF Checkin, BeginCheckin, CheckinGetRoom, CheckinGetTenant,
              CheckinCreateContract, CheckinOccupyRoom, CheckinAssignRoom, CheckinAudit
<1>2. CASE CheckoutTerminate(q)
  <2> DEFINE c == req[q].contract
  <2>1. c \in Contracts /\ contract[c] \in ContractRow
    BY <1>2 DEF CheckoutTerminate, RequestOK, ContractSteps, Signed
  <2>2. Cents(req[q].amount) <= contract[c].deposit
    <3>1. req[q].amount \in Nat /\ req[q].amount <= contract[c].deposit
            /\ RefundOK(contract[c])
      BY <1>2, <2>1 DEF CheckoutTerminate, Request, RefundInv, CheckedOK, Signed,
                        ContractSteps
    <3> QED BY <2>1, <3>1, RoundedRefund
  <2>3. /\ contract'[c].status = "terminated"
        /\ contract'[c].deposit = contract[c].deposit
    BY <1>2, <2>1 DEF CheckoutTerminate, ContractRow
  <2>4. Ended(contract'[c], req[q])
    BY <2>2, <2>3 DEF Ended
  <2> QED BY <1>2, <2>4 DEF CheckoutTerminate
<1>3. CASE CheckoutRefund(q)
  <2> DEFINE x == Cents(req[q].amount)
  <2>1. req[q].contract \in Contracts /\ contract[req[q].contract] \in ContractRow
          /\ Ended(contract[req[q].contract], req[q])
    BY <1>3 DEF CheckoutRefund, RequestOK, ContractSteps, Signed, AuditInv
  <2>2. contract' = [contract EXCEPT ![req[q].contract] = [@ EXCEPT !.refunded = x]]
    BY <1>3 DEF CheckoutRefund
  <2> HIDE DEF x
  <2>3. Ended(contract'[req[q].contract], req[q])
    BY <2>1, <2>2 DEF ContractRow, Ended
  <2> QED BY <1>3, <2>3 DEF CheckoutRefund
<1>4. CASE Checkout(q) /\ ~CheckoutTerminate(q) /\ ~CheckoutRefund(q)
  BY <1>4 DEF Checkout, BeginCheckout, CheckoutGetTenant, CheckoutGetContract,
              CheckoutVacateRoom, CheckoutUnassignRoom, CheckoutAudit, AuditInv
<1>5. CASE Blacklist(q)
  <2>1. CASE BlacklistFlag(q)
    <3>1. req[q].tenant \in Tenants
      BY <2>1 DEF BlacklistFlag, RequestOK, BlacklistSteps
    <3> QED BY <2>1, <3>1 DEF BlacklistFlag, TenantRow
  <2>2. CASE ~BlacklistFlag(q)
    BY <1>5, <2>2 DEF Blacklist, BeginBlacklist, BlacklistGetTenant, BlacklistAudit
  <2> QED BY <2>1, <2>2
<1>6. CASE UpdateTenant(q)
  BY <1>6 DEF UpdateTenant, BeginUpdateTenant, UpdateTenantGetTenant, UpdateTenantWrite,
              UpdateTenantProfile, UpdateTenantAudit, RequestOK, EditTenantSteps
<1>7. CASE UpdateRoom(q) \/ Abandon(q)
  BY <1>7 DEF UpdateRoom, BeginUpdateRoom, UpdateRoomGetRoom, UpdateRoomWrite, Abandon
<1>8. CASE LoseWrite(q)
  BY <1>8 DEF LoseWrite, AuditInv
<1> QED BY <1>1, <1>2, <1>3, <1>4, <1>5, <1>6, <1>7, <1>8

\* AuditInv is an invariant.
LEMMA AuditInvariant == Spec => []AuditInv
<1>1. Init => AuditInv
  BY DEF Init, AuditInv, AuditTellsTheTruth, CheckoutEntries, EndedSteps
<1>2. TypeOK /\ RefundInv /\ AuditInv /\ [Next]_vars => AuditInv'
  <2> SUFFICES ASSUME TypeOK, RefundInv, AuditInv, [Next]_vars PROVE AuditInv'
    OBVIOUS
  <2>1. CASE Next
    BY <2>1, AllAreTruthful, TruthfulAudit DEF Next
  <2>2. CASE UNCHANGED vars
    BY <2>2 DEF vars, AuditInv, AuditTellsTheTruth, CheckoutEntries, Signed, Active
  <2> QED BY <2>1, <2>2
<1> QED BY <1>1, <1>2, TypeCorrect, RefundInvariant, PTL DEF Spec

\* However requests interleave and fail, the audit trail never runs ahead of the
\* tables: what it says of a contract and of a tenant is so, and the refund it
\* names, which may not have been recorded, is one the deposit covers.
THEOREM AuditIsTrue == Spec => []AuditTellsTheTruth
<1>1. AuditInv => AuditTellsTheTruth
  BY DEF AuditInv
<1> QED BY <1>1, AuditInvariant, PTL

=============================================================================
