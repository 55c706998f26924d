------------------------ MODULE OccupancySerialProofs ------------------------
(***************************************************************************)
(* What Occupancy guarantees when requests are handled one at a time, for  *)
(* any number of rooms, tenants and contracts.  Each theorem names what    *)
(* else it needs: some survive faults, some do not.                        *)
(***************************************************************************)
EXTENDS OccupancyProofs

-----------------------------------------------------------------------------
(* One request at a time *)

\* The steps of request q, as in Next.
StepOf(q) ==
    \/ Checkin(q) \/ Checkout(q) \/ Blacklist(q) \/ UpdateTenant(q)
    \/ UpdateRoom(q) \/ Abandon(q) \/ LoseWrite(q)

\* At most one request is in flight.
OneAtATime == \A p, q \in Requests : pc[p] # "idle" /\ pc[q] # "idle" => p = q

\* While a request of a serial run takes a step all the others are idle.
LEMMA OthersAreIdle ==
  ASSUME Serial, TypeOK, OneAtATime, NEW q \in Requests, StepOf(q)
  PROVE  /\ \A p \in Requests \ {q} :
              pc[p] = "idle" /\ pc'[p] = "idle" /\ req'[p] = req[p]
         /\ OneAtATime'
<1> USE DEF TypeOK, Goto, Finish, Begin, Log, ReadTenant
<1>1. \A p \in Requests \ {q} : pc'[p] = pc[p] /\ req'[p] = req[p]
  <2>1. CASE Checkin(q)
    BY <2>1 DEF Checkin, BeginCheckin, CheckinGetRoom, CheckinGetTenant,
                CheckinCreateContract, CheckinOccupyRoom, CheckinAssignRoom,
                CheckinAudit
  <2>2. CASE Checkout(q)
    BY <2>2 DEF Checkout, BeginCheckout, CheckoutGetTenant, CheckoutGetContract,
                CheckoutTerminate, CheckoutRefund, CheckoutVacateRoom,
                CheckoutUnassignRoom, CheckoutAudit
  <2>3. CASE Blacklist(q) \/ UpdateTenant(q)
    BY <2>3 DEF Blacklist, BeginBlacklist, BlacklistGetTenant, BlacklistFlag,
                BlacklistAudit, UpdateTenant, BeginUpdateTenant,
                UpdateTenantGetTenant, UpdateTenantWrite, UpdateTenantProfile,
                UpdateTenantAudit
  <2>4. CASE UpdateRoom(q) \/ Abandon(q) \/ LoseWrite(q)
    BY <2>4 DEF UpdateRoom, BeginUpdateRoom, UpdateRoomGetRoom, UpdateRoomWrite,
                Abandon, LoseWrite
  <2> QED BY <2>1, <2>2, <2>3, <2>4 DEF StepOf
<1>2. \A p \in Requests \ {q} : pc[p] = "idle"
  <2>1. pc[q] # "idle" \/ MayBegin(q)
    BY DEF StepOf, Checkin, BeginCheckin, CheckinGetRoom, CheckinGetTenant,
           CheckinCreateContract, CheckinOccupyRoom, CheckinAssignRoom, CheckinAudit,
           Checkout, BeginCheckout, CheckoutGetTenant, CheckoutGetContract,
           CheckoutTerminate, CheckoutRefund, CheckoutVacateRoom,
           CheckoutUnassignRoom, CheckoutAudit, Blacklist, BeginBlacklist,
           BlacklistGetTenant, BlacklistFlag, BlacklistAudit, UpdateTenant,
           BeginUpdateTenant, UpdateTenantGetTenant, UpdateTenantWrite,
           UpdateTenantProfile, UpdateTenantAudit, UpdateRoom, BeginUpdateRoom,
           UpdateRoomGetRoom, UpdateRoomWrite, Abandon, LoseWrite
  <2> QED BY <2>1 DEF MayBegin, OneAtATime
<1> QED BY <1>1, <1>2 DEF OneAtATime

\* The steps at which a request holds a copy of its tenant's row, and those at
\* which its contract is active.
SeenSteps == {"ci_contract", "ci_occupy", "ci_assign", "co_contract", "co_terminate",
              "co_refund", "co_vacate", "co_unassign", "bl_flag", "ut_write"}
HeldSteps == {"ci_occupy", "ci_assign", "co_terminate"}

\* Contract c is active, of tenant t and on room r.
Lets(c, t, r) == Active(c) /\ contract[c].tenant = t /\ contract[c].room = r

\* What a request read is still so: the copy of the tenants row is the row, the
\* contract it signed or found is active and its tenant's, and what it is to
\* refund has not been refunded yet.
CopyOK(q) ==
    /\ pc[q] \in SeenSteps => req[q].seen = tenant[req[q].tenant]
    /\ pc[q] \in HeldSteps => Lets(req[q].contract, req[q].tenant, req[q].room)
    /\ pc[q] = "co_refund" => contract[req[q].contract].refunded = 0

FreshInv == OneAtATime /\ \A q \in Requests : CopyOK(q)

\* The steps of TenantService.Checkin.
LEMMA CheckinFresh ==
  ASSUME TypeOK, RefundInv, NEW q \in Requests, CopyOK(q), Checkin(q)
  PROVE  CopyOK(q)'
<1> USE DEF SeenSteps, HeldSteps
<1>0. req[q] \in Request /\ RequestOK(pc[q], req[q])
  BY DEF TypeOK
<1>1. CASE BeginCheckin(q) \/ CheckinGetRoom(q) \/ CheckinAudit(q)
  BY <1>1 DEF BeginCheckin, CheckinGetRoom, CheckinAudit, Begin, Goto, Finish, Log,
              CopyOK, TypeOK
<1>2. CASE CheckinGetTenant(q)
  BY <1>0, <1>2 DEF CheckinGetTenant, Goto, Finish, CopyOK, TypeOK, Request
<1>3. CASE CheckinCreateContract(q)
  <2>1. PICK c \in Contracts :
           /\ contract[c] = None
           /\ contract' = [contract EXCEPT ![c] =
                 [tenant |-> req[q].tenant, room |-> req[q].room,
                  property |-> req[q].property, status |-> "active",
                  deposit |-> Cents(req[q].amount), refunded |-> 0]]
           /\ req' = [req EXCEPT ![q].contract = c]
    BY <1>3 DEF CheckinCreateContract
  <2> DEFINE x   == Cents(req[q].amount)
             row == [tenant |-> req[q].tenant, room |-> req[q].room,
                     property |-> req[q].property, status |-> "active",
                     deposit |-> x, refunded |-> 0]
  <2>2. x \in Nat
    BY <1>0, CentsType DEF Request
  <2> HIDE DEF x
  <2>3. row \in ContractRow
    BY <1>0, <1>3, <2>2
    DEF CheckinCreateContract, RequestOK, CheckinSteps, ContractRow, ContractStatus
  <2>4. contract' = [contract EXCEPT ![c] = row]
    BY <2>1 DEF x
  <2>5. contract'[c] = row /\ contract'[c] # None
    BY <2>3, <2>4, NoneIsNoRow DEF TypeOK
  <2>6. pc'[q] = "ci_occupy" /\ tenant' = tenant
    BY <1>3 DEF CheckinCreateContract, Goto, TypeOK
  <2>7. /\ req'[q].contract = c /\ req'[q].tenant = req[q].tenant
        /\ req'[q].room = req[q].room /\ req'[q].seen = req[q].seen
    BY <1>0, <2>1 DEF TypeOK, Request
  <2>8. req[q].seen = tenant[req[q].tenant]
    BY <1>3 DEF CheckinCreateContract, CopyOK
  <2> QED BY <2>5, <2>6, <2>7, <2>8 DEF CopyOK, Lets, Active, Signed
<1>4. CASE CheckinOccupyRoom(q)
  BY <1>4 DEF CheckinOccupyRoom, Goto, CopyOK, Lets, Active, Signed, TypeOK
<1>5. CASE CheckinAssignRoom(q)
  BY <1>5 DEF CheckinAssignRoom, Goto, CopyOK, TypeOK
<1> QED BY <1>1, <1>2, <1>3, <1>4, <1>5 DEF Checkin

\* The steps of TenantService.Checkout.
LEMMA CheckoutFresh ==
  ASSUME TypeOK, RefundInv, NEW q \in Requests, CopyOK(q), Checkout(q)
  PROVE  CopyOK(q)'
<1> USE DEF SeenSteps, HeldSteps
<1>0. req[q] \in Request /\ RequestOK(pc[q], req[q])
  BY DEF TypeOK
<1>1. CASE BeginCheckout(q) \/ CheckoutAudit(q) \/ CheckoutUnassignRoom(q)
  BY <1>1 DEF BeginCheckout, CheckoutAudit, CheckoutUnassignRoom, Begin, Goto, Finish,
              Log, CopyOK, TypeOK
<1>2. CASE CheckoutGetTenant(q)
  BY <1>0, <1>2
  DEF CheckoutGetTenant, ReadTenant, Goto, Finish, CopyOK, TypeOK, Request
<1>3. CASE CheckoutGetContract(q)
  <2>1. CASE Finish(q)
    BY <2>1 DEF Finish, CopyOK, TypeOK
  <2>2. CASE ~Finish(q)
    <3>1. PICK c \in ActiveContractsOf(req[q].tenant) :
             /\ Goto(q, "co_terminate")
             /\ req' = [req EXCEPT ![q].contract = c, ![q].room = contract[c].room]
      BY <1>3, <2>2 DEF CheckoutGetContract
    <3>2. /\ req'[q].contract = c /\ req'[q].tenant = req[q].tenant
          /\ req'[q].room = contract[c].room /\ req'[q].seen = req[q].seen
      BY <1>0, <3>1 DEF TypeOK, Request
    <3>3. Lets(c, req[q].tenant, contract[c].room)
      BY <3>1 DEF ActiveContractsOf, Lets, Active, Signed
    <3>4. pc'[q] = "co_terminate" /\ UNCHANGED <<tenant, contract>>
      BY <1>3, <3>1 DEF CheckoutGetContract, Goto, TypeOK
    <3>5. req[q].seen = tenant[req[q].tenant]
      BY <1>3 DEF CheckoutGetContract, CopyOK
    <3> QED BY <3>2, <3>3, <3>4, <3>5 DEF CopyOK, Lets, Active, Signed
  <2> QED BY <2>1, <2>2
<1>4. CASE CheckoutTerminate(q)
  <2> DEFINE c == req[q].contract
  <2>1. /\ c \in Contracts /\ contract[c] \in ContractRow
        /\ contract[c].status = "active" /\ RefundOK(contract[c])
    BY <1>0, <1>4 DEF CheckoutTerminate, RequestOK, ContractSteps, TypeOK, Signed,
                      CopyOK, Lets, Active, RefundInv
  <2>2. contract[c].refunded = 0
    BY <2>1 DEF RefundOK, ContractRow
  <2>3. contract'[c].refunded = 0
    BY <1>4, <2>1, <2>2 DEF CheckoutTerminate, TypeOK, ContractRow
  <2>4. pc'[q] \in {"co_refund", "co_vacate"} /\ UNCHANGED <<tenant, req>>
    BY <1>4 DEF CheckoutTerminate, Goto, TypeOK
  <2> QED BY <1>4, <2>3, <2>4 DEF CheckoutTerminate, CopyOK
<1>5. CASE CheckoutRefund(q) \/ CheckoutVacateRoom(q)
  <2>1. pc'[q] \in {"co_vacate", "co_unassign"} /\ UNCHANGED <<tenant, req>>
    BY <1>5 DEF CheckoutRefund, CheckoutVacateRoom, Goto, TypeOK
  <2> QED BY <1>5, <2>1 DEF CheckoutRefund, CheckoutVacateRoom, CopyOK
<1> QED BY <1>1, <1>2, <1>3, <1>4, <1>5 DEF Checkout

\* The steps of the other handlers, and the faults.
LEMMA OtherFresh ==
  ASSUME TypeOK, NEW q \in Requests, CopyOK(q),
         Blacklist(q) \/ UpdateTenant(q) \/ UpdateRoom(q) \/ Abandon(q) \/ LoseWrite(q)
  PROVE  CopyOK(q)'
<1> USE DEF SeenSteps, HeldSteps, Goto, Finish, Begin, Log, TypeOK
<1>1. CASE BlacklistGetTenant(q) \/ UpdateTenantGetTenant(q)
  BY <1>1 DEF BlacklistGetTenant, UpdateTenantGetTenant, ReadTenant, CopyOK, Request
<1>2. CASE BeginBlacklist(q) \/ BlacklistFlag(q) \/ BlacklistAudit(q)
  BY <1>2 DEF BeginBlacklist, BlacklistFlag, BlacklistAudit, CopyOK
<1>3. CASE BeginUpdateTenant(q) \/ UpdateTenantWrite(q) \/ UpdateTenantProfile(q)
             \/ UpdateTenantAudit(q)
  BY <1>3 DEF BeginUpdateTenant, UpdateTenantWrite, UpdateTenantProfile,
              UpdateTenantAudit, CopyOK
<1>4. CASE UpdateRoom(q) \/ Abandon(q)
  BY <1>4 DEF UpdateRoom, BeginUpdateRoom, UpdateRoomGetRoom, UpdateRoomWrite,
              Abandon, CopyOK
<1>5. CASE LoseWrite(q)
  BY <1>5 DEF LoseWrite, CopyOK
<1> QED BY <1>1, <1>2, <1>3, <1>4, <1>5 DEF Blacklist, UpdateTenant

\* FreshInv is an invariant of serial runs, with or without faults.
LEMMA FreshInvariant ==
  ASSUME Serial
  PROVE  Spec => []FreshInv
<1>1. Init => FreshInv
  BY DEF Init, FreshInv, OneAtATime, CopyOK, SeenSteps, HeldSteps
<1>2. TypeOK /\ RefundInv /\ FreshInv /\ [Next]_vars => FreshInv'
  <2> SUFFICES ASSUME TypeOK, RefundInv, FreshInv, [Next]_vars PROVE FreshInv'
    OBVIOUS
  <2>1. ASSUME NEW q \in Requests, StepOf(q) PROVE FreshInv'
    <3>1. /\ \A p \in Requests \ {q} :
               pc[p] = "idle" /\ pc'[p] = "idle" /\ req'[p] = req[p]
          /\ OneAtATime'
      BY <2>1, OthersAreIdle DEF FreshInv
    <3>2. CopyOK(q)'
      BY <2>1, CheckinFresh, CheckoutFresh, OtherFresh DEF FreshInv, StepOf
    <3>3. \A p \in Requests \ {q} : CopyOK(p)'
      BY <3>1 DEF CopyOK, SeenSteps, HeldSteps
    <3> QED BY <3>1, <3>2, <3>3 DEF FreshInv
  <2>2. CASE UNCHANGED vars
    BY <2>2 DEF vars, FreshInv, OneAtATime, CopyOK, Lets, Active, Signed
  <2> QED BY <2>1, <2>2 DEF Next, StepOf
<1> QED BY <1>1, <1>2, TypeCorrect, RefundInvariant, PTL DEF Spec

\* One request at a time, check-in and check-out leave the personal columns of a
\* tenant as they are and UpdateTenant leaves the room, faults or not.
THEOREM ColumnsAreOwn ==
  ASSUME Serial
  PROVE  Spec => OwnColumnsOnly
<1> DEFINE Step ==
      \A t \in Tenants :
         /\ tenant'[t].details # tenant[t].details
              => \E q \in Requests : pc[q] = "ut_write" /\ req[q].tenant = t
         /\ tenant'[t].room # tenant[t].room
              => \E q \in Requests : /\ pc[q] \in {"ci_assign", "co_unassign"}
                                    /\ req[q].tenant = t
<1>1. TypeOK /\ FreshInv /\ [Next]_vars => [Step]_tenant
  <2> SUFFICES ASSUME TypeOK, FreshInv, [Next]_vars, tenant' # tenant PROVE Step
    OBVIOUS
  <2>1. PICK q \in Requests : StepOf(q)
    BY DEF Next, StepOf, vars
  <2>2. req[q] \in Request /\ RequestOK(pc[q], req[q]) /\ CopyOK(q)
    BY DEF TypeOK, FreshInv
  <2>3. CASE CheckinAssignRoom(q)
    <3>1. pc[q] = "ci_assign" /\ req[q].tenant \in Tenants
            /\ req[q].seen = tenant[req[q].tenant]
      BY <2>2, <2>3 DEF CheckinAssignRoom, RequestOK, CheckinSteps, CopyOK, SeenSteps
    <3> QED BY <2>3, <3>1 DEF CheckinAssignRoom, WriteTenant, TypeOK, TenantRow
  <2>4. CASE CheckoutUnassignRoom(q)
    <3>1. pc[q] = "co_unassign" /\ req[q].tenant \in Tenants
            /\ req[q].seen = tenant[req[q].tenant]
      BY <2>2, <2>4
      DEF CheckoutUnassignRoom, RequestOK, CheckoutSteps, CopyOK, SeenSteps
    <3> QED BY <2>4, <3>1 DEF CheckoutUnassignRoom, WriteTenant, TypeOK, TenantRow
  <2>5. CASE UpdateTenantWrite(q)
    <3>1. pc[q] = "ut_write" /\ req[q].tenant \in Tenants
            /\ req[q].seen = tenant[req[q].tenant]
      BY <2>2, <2>5
      DEF UpdateTenantWrite, RequestOK, EditTenantSteps, CopyOK, SeenSteps
    <3> QED BY <2>5, <3>1 DEF UpdateTenantWrite, WriteTenant, TypeOK, TenantRow
  <2>6. CASE BlacklistFlag(q)
    BY <2>6 DEF BlacklistFlag, TypeOK, TenantRow
  <2>7. CASE UpdateTenantProfile(q)
    BY <2>7 DEF UpdateTenantProfile, TypeOK, TenantRow
  <2> QED
    BY <2>1, <2>3, <2>4, <2>5, <2>6, <2>7
    DEF StepOf, Checkin, BeginCheckin, CheckinGetRoom, CheckinGetTenant,
        CheckinCreateContract, CheckinOccupyRoom, CheckinAudit, Checkout,
        BeginCheckout, CheckoutGetTenant, CheckoutGetContract, CheckoutTerminate,
        CheckoutRefund, CheckoutVacateRoom, CheckoutAudit, Blacklist, BeginBlacklist,
        BlacklistGetTenant, BlacklistAudit, UpdateTenant, BeginUpdateTenant,
        UpdateTenantGetTenant, UpdateTenantAudit, UpdateRoom, BeginUpdateRoom,
        UpdateRoomGetRoom, UpdateRoomWrite, Abandon, LoseWrite, Begin, ReadTenant, Log
<1> QED
  BY <1>1, TypeCorrect, FreshInvariant, PTL DEF Spec, OwnColumnsOnly

\* One request at a time, a refund once recorded is not rewritten, faults or not.
THEOREM RefundsAreFinal ==
  ASSUME Serial
  PROVE  Spec => RefundRecordedOnce
<1> DEFINE Step ==
      \A c \in Contracts :
         Signed(c) /\ contract[c].refunded > 0
           => contract'[c].refunded = contract[c].refunded
<1>1. TypeOK /\ RefundInv /\ FreshInv /\ [Next]_vars => [Step]_contract
  <2> SUFFICES ASSUME TypeOK, RefundInv, FreshInv, [Next]_vars,
                      NEW c \in Contracts, Signed(c), contract[c].refunded > 0
               PROVE  contract'[c].refunded = contract[c].refunded
    OBVIOUS
  <2>1. ASSUME NEW q \in Requests, CheckinCreateContract(q)
        PROVE  contract'[c] = contract[c]
    BY <2>1 DEF CheckinCreateContract, TypeOK, Signed
  <2>2. ASSUME NEW q \in Requests, CheckoutTerminate(q)
        PROVE  contract'[c].refunded = contract[c].refunded
    <3>1. contract[c] \in ContractRow
      BY DEF TypeOK, Signed
    <3> QED BY <2>2, <3>1 DEF CheckoutTerminate, TypeOK, ContractRow
  <2>3. ASSUME NEW q \in Requests, CheckoutRefund(q)
        PROVE  contract'[c] = contract[c]
    <3>1. contract[req[q].contract].refunded = 0
      BY <2>3 DEF CheckoutRefund, FreshInv, CopyOK
    <3>2. req[q].contract # c
      BY <3>1
    <3> QED BY <2>3, <3>2 DEF CheckoutRefund, TypeOK
  <2>4. ASSUME NEW q \in Requests, Harmless(q) \/ CheckoutGetContract(q)
        PROVE  contract'[c] = contract[c]
    BY <2>4 DEF Harmless, CheckoutGetContract
  <2>5. CASE Next
    BY <2>1, <2>2, <2>3, <2>4, <2>5, MostAreHarmless DEF Next
  <2>6. CASE UNCHANGED vars
    BY <2>6 DEF vars
  <2> QED BY <2>5, <2>6
<1> QED
  BY <1>1, TypeCorrect, RefundInvariant, FreshInvariant, PTL
  DEF Spec, RefundRecordedOnce

-----------------------------------------------------------------------------
(* Refunds and the audit trail *)

\* The steps of a check-out at which its refund, if any, has been written.
RefundedSteps == {"co_vacate", "co_unassign", "co_audit"}

\* The entries tell the refund their contract holds; a check-out about to refund
\* has no entry to belie, and one that has refunded will log what it wrote.
EntryInv ==
    /\ AuditedRefundIsRecorded
    /\ \A q \in Requests :
         /\ pc[q] = "co_refund" => CheckoutEntries(req[q].contract) = {}
         /\ pc[q] \in RefundedSteps
              => contract[req[q].contract].refunded = Cents(req[q].amount)

\* The steps that write contracts.
LEMMA WritesKeepEntries ==
  ASSUME TypeOK, RefundInv, FreshInv, AuditInv, EntryInv, NEW q \in Requests,
         \A p \in Requests \ {q} : pc[p] = "idle" /\ pc'[p] = "idle",
         \/ CheckinCreateContract(q) \/ CheckoutTerminate(q) \/ CheckoutRefund(q)
  PROVE  EntryInv'
<1> DEFINE c == req[q].contract
           x == Cents(req[q].amount)
<1>0. req[q] \in Request /\ RequestOK(pc[q], req[q]) /\ CopyOK(q) /\ x \in Nat
  BY CentsType DEF TypeOK, FreshInv, Request
<1> HIDE DEF x
<1>1. audit' = audit
  BY DEF CheckinCreateContract, CheckoutTerminate, CheckoutRefund
<1>2. CASE CheckinCreateContract(q)
  <2>1. PICK d \in Contracts :
           /\ contract[d] = None
           /\ \A e \in Contracts \ {d} : contract'[e] = contract[e]
    BY <1>2 DEF CheckinCreateContract, TypeOK
  <2>2. CheckoutEntries(d) = {}
    BY <2>1 DEF AuditInv, AuditTellsTheTruth, Signed
  <2>3. AuditedRefundIsRecorded'
    BY <1>1, <2>1, <2>2
    DEF EntryInv, AuditedRefundIsRecorded, CheckoutEntries, Signed
  <2>4. pc'[q] = "ci_occupy"
    BY <1>2 DEF CheckinCreateContract, Goto, TypeOK
  <2> QED BY <2>3, <2>4 DEF EntryInv, RefundedSteps
<1>3. CASE CheckoutTerminate(q)
  <2>1. /\ c \in Contracts /\ Active(c) /\ contract[c] \in ContractRow
        /\ RefundOK(contract[c])
    BY <1>0, <1>3 DEF CheckoutTerminate, RequestOK, ContractSteps, TypeOK, CopyOK,
                      HeldSteps, Lets, Active, Signed, RefundInv
  <2>2. contract[c].refunded = 0
    BY <2>1 DEF RefundOK, ContractRow, Active
  <2>3. CheckoutEntries(c) = {}
    BY <2>1 DEF AuditInv, AuditTellsTheTruth
  <2>4. /\ contract'[c].refunded = 0
        /\ \A d \in Contracts \ {c} : contract'[d] = contract[d]
    BY <1>3, <2>1, <2>2 DEF CheckoutTerminate, TypeOK, ContractRow
  <2>5. AuditedRefundIsRecorded'
    BY <1>1, <2>3, <2>4
    DEF EntryInv, AuditedRefundIsRecorded, CheckoutEntries, Signed
  <2>6. /\ pc'[q] = IF req[q].amount > 0 THEN "co_refund" ELSE "co_vacate"
        /\ req' = req
    BY <1>3 DEF CheckoutTerminate, Goto, TypeOK
  <2>7. CheckoutEntries(c)' = {}
    BY <1>1, <2>3, <2>6 DEF CheckoutEntries
  <2>8. ~(req[q].amount > 0) => Cents(req[q].amount) = 0
    BY <1>0 DEF Request, Cents
  <2> QED BY <2>4, <2>5, <2>6, <2>7, <2>8 DEF EntryInv, RefundedSteps
<1>4. CASE CheckoutRefund(q)
  <2>1. /\ pc[q] = "co_refund" /\ c \in Contracts /\ contract[c] \in ContractRow
        /\ CheckoutEntries(c) = {}
    BY <1>0, <1>4 DEF CheckoutRefund, RequestOK, ContractSteps, TypeOK, Signed, EntryInv
  <2>2. contract' = [contract EXCEPT ![c].refunded = x]
    BY <1>4 DEF CheckoutRefund, x
  <2>3. /\ contract'[c].refunded = x
        /\ \A d \in Contracts \ {c} : contract'[d] = contract[d]
    BY <2>1, <2>2 DEF TypeOK, ContractRow
  <2>4. AuditedRefundIsRecorded'
    BY <1>1, <2>1, <2>3
    DEF EntryInv, AuditedRefundIsRecorded, CheckoutEntries, Signed
  <2>5. pc'[q] = "co_vacate" /\ req' = req
    BY <1>4 DEF CheckoutRefund, Goto, TypeOK
  <2> QED BY <2>3, <2>4, <2>5 DEF EntryInv, RefundedSteps, x
<1> QED BY <1>2, <1>3, <1>4

\* The other steps leave contracts alone, and only CheckoutAudit logs a check-out.
LEMMA OthersKeepEntries ==
  ASSUME ~Faults, TypeOK, AuditInv, EntryInv, NEW q \in Requests, StepOf(q),
         \A p \in Requests \ {q} : pc[p] = "idle" /\ pc'[p] = "idle",
         ~CheckinCreateContract(q), ~CheckoutTerminate(q), ~CheckoutRefund(q)
  PROVE  EntryInv'
<1> USE DEF TypeOK, Goto, Finish, Begin, Log, ReadTenant, RefundedSteps
<1>1. contract' = contract
  BY DEF StepOf, Checkin, BeginCheckin, CheckinGetRoom, CheckinGetTenant,
         CheckinOccupyRoom, CheckinAssignRoom, CheckinAudit, Checkout, BeginCheckout,
         CheckoutGetTenant, CheckoutGetContract, CheckoutVacateRoom,
         CheckoutUnassignRoom, CheckoutAudit, Blacklist, BeginBlacklist,
         BlacklistGetTenant, BlacklistFlag, BlacklistAudit, UpdateTenant,
         BeginUpdateTenant, UpdateTenantGetTenant, UpdateTenantWrite,
         UpdateTenantProfile, UpdateTenantAudit, UpdateRoom, BeginUpdateRoom,
         UpdateRoomGetRoom, UpdateRoomWrite, Abandon, LoseWrite
<1>2. CASE CheckoutAudit(q)
  <2> DEFINE c == req[q].contract
             e == <<"checkout", c, Cents(req[q].amount)>>
  <2>1. /\ c \in Contracts /\ Signed(c)
        /\ contract[c].refunded = Cents(req[q].amount)
    BY <1>2 DEF CheckoutAudit, RequestOK, ContractSteps, EntryInv
  <2>2. audit' = audit \cup {e} /\ pc'[q] = "idle"
    BY <1>2 DEF CheckoutAudit
  <2>3. e[2] = c /\ e[3] = Cents(req[q].amount)
    OBVIOUS
  <2>4. ASSUME NEW d \in Contracts, NEW f \in CheckoutEntries(d)'
        PROVE  contract[d] # None /\ contract[d].refunded = f[3]
    <3>1. CASE f \in audit
      BY <2>4, <3>1 DEF EntryInv, AuditedRefundIsRecorded, CheckoutEntries, Signed
    <3>2. CASE f \notin audit
      BY <2>1, <2>2, <2>3, <2>4, <3>2 DEF CheckoutEntries, Signed
    <3> QED BY <3>1, <3>2
  <2> QED BY <1>1, <2>2, <2>4 DEF EntryInv, AuditedRefundIsRecorded, Signed
<1>3. CASE ~CheckoutAudit(q)
  <2>1. CASE CheckoutVacateRoom(q) \/ CheckoutUnassignRoom(q)
    BY <1>1, <2>1
    DEF CheckoutVacateRoom, CheckoutUnassignRoom, EntryInv, AuditedRefundIsRecorded,
        CheckoutEntries, Signed
  <2>2. CASE ~CheckoutVacateRoom(q) /\ ~CheckoutUnassignRoom(q)
    <3>1. /\ pc'[q] \notin {"co_refund"} \cup RefundedSteps
          /\ \/ audit' = audit
             \/ audit' = audit \cup {<<"checkin", req[q].contract>>}
             \/ audit' = audit \cup {<<"blacklist_tenant", req[q].tenant>>}
             \/ audit' = audit \cup {<<"update_tenant", req[q].tenant>>}
      BY <1>3, <2>2
      DEF StepOf, Checkin, BeginCheckin, CheckinGetRoom, CheckinGetTenant,
          CheckinOccupyRoom, CheckinAssignRoom, CheckinAudit, Checkout, BeginCheckout,
          CheckoutGetTenant, CheckoutGetContract, Blacklist, BeginBlacklist,
          BlacklistGetTenant, BlacklistFlag, BlacklistAudit, UpdateTenant,
          BeginUpdateTenant, UpdateTenantGetTenant, UpdateTenantWrite,
          UpdateTenantProfile, UpdateTenantAudit, UpdateRoom, BeginUpdateRoom,
          UpdateRoomGetRoom, UpdateRoomWrite, Abandon, LoseWrite
    <3>2. ASSUME NEW c \in Contracts, NEW e \in CheckoutEntries(c)'
          PROVE  e \in CheckoutEntries(c)
      BY <3>1 DEF CheckoutEntries
    <3>3. AuditedRefundIsRecorded'
      BY <1>1, <3>2 DEF EntryInv, AuditedRefundIsRecorded, Signed
    <3> QED BY <3>1, <3>3 DEF EntryInv
  <2> QED BY <2>1, <2>2
<1> QED BY <1>2, <1>3

\* One request at a time and without a fault, the refund a check-out logs is the
\* one its contract holds.  Both are needed: when the write of the refund fails
\* the entry names an amount the contract does not have, and of two check-outs of
\* one contract in flight together the second overwrites the refund of the first.
THEOREM AuditedRefundsAreRecorded ==
  ASSUME Serial, ~Faults
  PROVE  Spec => []AuditedRefundIsRecorded
<1>1. Init => EntryInv
  BY DEF Init, EntryInv, AuditedRefundIsRecorded, CheckoutEntries, RefundedSteps
<1>2. TypeOK /\ RefundInv /\ FreshInv /\ AuditInv /\ EntryInv /\ [Next]_vars
        => EntryInv'
  <2> SUFFICES ASSUME TypeOK, RefundInv, FreshInv, AuditInv, EntryInv, [Next]_vars
               PROVE  EntryInv'
    OBVIOUS
  <2>1. ASSUME NEW q \in Requests, StepOf(q) PROVE EntryInv'
    <3>1. \A p \in Requests \ {q} : pc[p] = "idle" /\ pc'[p] = "idle"
      BY <2>1, OthersAreIdle DEF FreshInv
    <3> QED BY <2>1, <3>1, WritesKeepEntries, OthersKeepEntries
  <2>2. CASE UNCHANGED vars
    BY <2>2 DEF vars, EntryInv, AuditedRefundIsRecorded, CheckoutEntries, Signed
  <2> QED BY <2>1, <2>2 DEF Next, StepOf
<1>3. EntryInv => AuditedRefundIsRecorded
  BY DEF EntryInv
<1> QED
  BY <1>1, <1>2, <1>3, TypeCorrect, RefundInvariant, FreshInvariant, AuditInvariant, PTL
  DEF Spec

-----------------------------------------------------------------------------
(* Tenants and their rooms *)

\* A tenant who has a room has an active contract on it, or is being checked out.
LinkInv ==
    \A t \in Tenants : tenant[t].room # None =>
       \/ \E c \in Contracts : Lets(c, t, tenant[t].room)
       \/ \E q \in Requests : /\ pc[q] \in {"co_refund", "co_vacate", "co_unassign"}
                               /\ req[q].tenant = t

\* A step that takes no room from under a tenant: those contracts that are active
\* stay, no tenant is given a room, and no check-out is left half done.
LEMMA StableLinks ==
  ASSUME LinkInv,
         \A t \in Tenants : tenant'[t].room # None => tenant'[t].room = tenant[t].room,
         \A c \in Contracts : Active(c) =>
            contract'[c] # None /\ contract'[c].status = "active"
              /\ contract'[c].tenant = contract[c].tenant
              /\ contract'[c].room = contract[c].room,
         \A q \in Requests : pc[q] \in {"co_refund", "co_vacate", "co_unassign"} =>
            \/ /\ pc'[q] \in {"co_refund", "co_vacate", "co_unassign"}
               /\ req'[q].tenant = req[q].tenant
            \/ tenant'[req[q].tenant].room = None
  PROVE  LinkInv'
<1> SUFFICES ASSUME NEW t \in Tenants, tenant'[t].room # None
             PROVE  \/ \E c \in Contracts : Lets(c, t, tenant[t].room)'
                    \/ \E q \in Requests :
                         /\ pc'[q] \in {"co_refund", "co_vacate", "co_unassign"}
                         /\ req'[q].tenant = t
  BY DEF LinkInv
<1>1. CASE \E c \in Contracts : Lets(c, t, tenant[t].room)
  BY <1>1 DEF Lets, Active, Signed
<1>2. CASE \E q \in Requests : /\ pc[q] \in {"co_refund", "co_vacate", "co_unassign"}
                                /\ req[q].tenant = t
  BY <1>2
<1> QED BY <1>1, <1>2 DEF LinkInv

\* The steps that change the link of a tenant or of a contract, each with what
\* the request still knows of them.
LEMMA WritesKeepLinks ==
  ASSUME TypeOK, FreshInv, LinkInv, NEW q \in Requests,
         \A p \in Requests \ {q} : pc[p] = "idle" /\ pc'[p] = "idle",
         \/ CheckinCreateContract(q) \/ CheckinAssignRoom(q) \/ CheckoutTerminate(q)
         \/ CheckoutRefund(q) \/ CheckoutUnassignRoom(q) \/ UpdateTenantWrite(q)
  PROVE  LinkInv'
<1> DEFINE t == req[q].tenant
           c == req[q].contract
<1>0. req[q] \in Request /\ RequestOK(pc[q], req[q]) /\ CopyOK(q)
  BY DEF TypeOK, FreshInv
<1>1. CASE CheckinCreateContract(q)
  <2>1. \A d \in Contracts : Active(d) => contract'[d] = contract[d]
    BY <1>1 DEF CheckinCreateContract, TypeOK, Active, Signed
  <2> QED BY <1>1, <2>1, StableLinks DEF CheckinCreateContract, Active, Signed
<1>2. CASE CheckinAssignRoom(q)
  <2>1. /\ t \in Tenants /\ req[q].room \in Rooms /\ c \in Contracts
        /\ Lets(c, t, req[q].room)
    BY <1>0, <1>2 DEF CheckinAssignRoom, RequestOK, CheckinSteps, ContractSteps,
                      CopyOK, HeldSteps
  <2>2. /\ \A u \in Tenants \ {t} : tenant'[u] = tenant[u]
        /\ tenant'[t].room = req[q].room
    BY <1>2, <2>1 DEF CheckinAssignRoom, WriteTenant, TypeOK, TenantRow
  <2>3. Lets(c, t, tenant[t].room)'
    BY <1>2, <2>1, <2>2 DEF CheckinAssignRoom, Lets, Active, Signed
  <2>4. ASSUME NEW u \in Tenants \ {t}, tenant'[u].room # None
        PROVE  \E d \in Contracts : Lets(d, u, tenant[u].room)'
    <3>1. tenant'[u] = tenant[u]
      BY <2>2
    <3>2. PICK d \in Contracts : Lets(d, u, tenant[u].room)
      BY <1>2, <2>4, <3>1 DEF CheckinAssignRoom, LinkInv
    <3> QED BY <1>2, <3>1, <3>2 DEF CheckinAssignRoom, Lets, Active, Signed
  <2>5. ASSUME NEW u \in Tenants, u = t
        PROVE  \E d \in Contracts : Lets(d, u, tenant[u].room)'
    BY <1>2, <2>1, <2>3, <2>5 DEF CheckinAssignRoom
  <2> QED BY <2>4, <2>5 DEF LinkInv
<1>3. CASE CheckoutTerminate(q)
  <2>1. c \in Contracts /\ Lets(c, t, req[q].room)
    BY <1>0, <1>3 DEF CheckoutTerminate, RequestOK, ContractSteps, CopyOK, HeldSteps
  <2>2. pc'[q] \in {"co_refund", "co_vacate"} /\ UNCHANGED <<tenant, req>>
    BY <1>3 DEF CheckoutTerminate, Goto, TypeOK
  <2>3. \A d \in Contracts \ {c} : contract'[d] = contract[d]
    BY <1>3 DEF CheckoutTerminate, TypeOK
  <2>4. ASSUME NEW u \in Tenants \ {t}, tenant[u].room # None
        PROVE  \E d \in Contracts : Lets(d, u, tenant[u].room)'
    <3>1. PICK d \in Contracts : Lets(d, u, tenant[u].room)
      BY <1>3, <2>4 DEF CheckoutTerminate, LinkInv
    <3>2. d # c
      BY <2>1, <2>4, <3>1 DEF Lets
    <3> QED BY <2>2, <2>3, <3>1, <3>2 DEF Lets, Active, Signed
  <2> QED BY <2>2, <2>4 DEF LinkInv
<1>4. CASE CheckoutRefund(q)
  <2>1. c \in Contracts
    BY <1>0, <1>4 DEF CheckoutRefund, RequestOK, ContractSteps
  <2>2. pc'[q] = "co_vacate" /\ UNCHANGED <<tenant, req>>
    BY <1>4 DEF CheckoutRefund, Goto, TypeOK
  <2> DEFINE x == Cents(req[q].amount)
  <2>3. contract' = [contract EXCEPT ![c].refunded = x]
    BY <1>4 DEF CheckoutRefund
  <2> HIDE DEF x
  <2>4. ASSUME NEW d \in Contracts, Active(d)
        PROVE  /\ contract'[d] # None /\ contract'[d].status = "active"
               /\ contract'[d].tenant = contract[d].tenant
               /\ contract'[d].room = contract[d].room
    <3>1. CASE d # c
      BY <2>3, <2>4, <3>1 DEF Active, Signed, TypeOK
    <3>2. CASE d = c
      <4>1. contract[c] \in ContractRow
        BY <2>1, <2>4, <3>2 DEF Active, Signed, TypeOK
      <4>2. contract'[c] = [contract[c] EXCEPT !.refunded = x]
        BY <2>1, <2>3 DEF TypeOK
      <4>3. x \in Nat
        BY <1>0, CentsType DEF x, Request
      <4>4. contract'[c] \in ContractRow
        BY <4>1, <4>2, <4>3 DEF ContractRow
      <4> QED BY <2>4, <3>2, <4>1, <4>2, <4>4, NoneIsNoRow DEF Active, ContractRow
    <3> QED BY <3>1, <3>2
  <2> QED BY <2>2, <2>4, StableLinks DEF TypeOK
<1>5. CASE CheckoutUnassignRoom(q)
  <2>1. t \in Tenants
    BY <1>0, <1>5 DEF CheckoutUnassignRoom, RequestOK, CheckoutSteps
  <2>2. /\ \A u \in Tenants \ {t} : tenant'[u] = tenant[u]
        /\ tenant'[t].room = None
    BY <1>5, <2>1 DEF CheckoutUnassignRoom, WriteTenant, TypeOK, TenantRow
  <2> QED
    BY <1>5, <2>2, StableLinks DEF CheckoutUnassignRoom, Active, Signed
<1>6. CASE UpdateTenantWrite(q)
  <2>1. t \in Tenants /\ req[q].seen = tenant[t]
    BY <1>0, <1>6 DEF UpdateTenantWrite, RequestOK, EditTenantSteps, CopyOK, SeenSteps
  <2>2. /\ \A u \in Tenants \ {t} : tenant'[u] = tenant[u]
        /\ tenant'[t].room = tenant[t].room
    BY <1>6, <2>1 DEF UpdateTenantWrite, WriteTenant, TypeOK, TenantRow
  <2> QED BY <1>6, <2>2, StableLinks DEF UpdateTenantWrite, Active, Signed
<1> QED BY <1>1, <1>2, <1>3, <1>4, <1>5, <1>6

\* All the other steps leave rooms of tenants and contracts alone, and no
\* check-out half done, unless a fault ends it.
LEMMA OthersKeepLinks ==
  ASSUME ~Faults, TypeOK, LinkInv, NEW q \in Requests, StepOf(q),
         \A p \in Requests \ {q} : pc[p] = "idle" /\ pc'[p] = "idle",
         ~CheckinCreateContract(q), ~CheckinAssignRoom(q), ~CheckoutTerminate(q),
         ~CheckoutRefund(q), ~CheckoutUnassignRoom(q), ~UpdateTenantWrite(q)
  PROVE  LinkInv'
<1>1. contract' = contract
  BY DEF StepOf, Checkin, BeginCheckin, CheckinGetRoom, CheckinGetTenant,
         CheckinOccupyRoom, CheckinAudit, Checkout, BeginCheckout, CheckoutGetTenant,
         CheckoutGetContract, CheckoutVacateRoom, CheckoutAudit, Blacklist,
         BeginBlacklist, BlacklistGetTenant, BlacklistFlag, BlacklistAudit,
         UpdateTenant, BeginUpdateTenant, UpdateTenantGetTenant, UpdateTenantProfile,
         UpdateTenantAudit, UpdateRoom, BeginUpdateRoom, UpdateRoomGetRoom,
         UpdateRoomWrite, Abandon, LoseWrite, Begin, ReadTenant, Log
<1>2. \A t \in Tenants : tenant'[t].room = tenant[t].room
  <2>1. CASE BlacklistFlag(q) \/ UpdateTenantProfile(q)
    BY <2>1 DEF BlacklistFlag, UpdateTenantProfile, TypeOK, TenantRow
  <2>2. CASE ~BlacklistFlag(q) /\ ~UpdateTenantProfile(q)
    BY <2>2
    DEF StepOf, Checkin, BeginCheckin, CheckinGetRoom, CheckinGetTenant,
        CheckinOccupyRoom, CheckinAudit, Checkout, BeginCheckout, CheckoutGetTenant,
        CheckoutGetContract, CheckoutVacateRoom, CheckoutAudit, Blacklist,
        BeginBlacklist, BlacklistGetTenant, BlacklistAudit, UpdateTenant,
        BeginUpdateTenant, UpdateTenantGetTenant, UpdateTenantAudit, UpdateRoom,
        BeginUpdateRoom, UpdateRoomGetRoom, UpdateRoomWrite, Abandon, LoseWrite,
        Begin, ReadTenant, Log
  <2> QED BY <2>1, <2>2
<1>3. pc[q] \in {"co_refund", "co_vacate", "co_unassign"}
        => /\ pc'[q] \in {"co_refund", "co_vacate", "co_unassign"}
           /\ req'[q].tenant = req[q].tenant
  BY DEF StepOf, Checkin, BeginCheckin, CheckinGetRoom, CheckinGetTenant,
         CheckinOccupyRoom, CheckinAudit, Checkout, BeginCheckout, CheckoutGetTenant,
         CheckoutGetContract, CheckoutVacateRoom, CheckoutAudit, Blacklist,
         BeginBlacklist, BlacklistGetTenant, BlacklistFlag, BlacklistAudit,
         UpdateTenant, BeginUpdateTenant, UpdateTenantGetTenant, UpdateTenantProfile,
         UpdateTenantAudit, UpdateRoom, BeginUpdateRoom, UpdateRoomGetRoom,
         UpdateRoomWrite, Abandon, LoseWrite, Begin, MayBegin, ReadTenant, Log, Goto,
         TypeOK
<1> QED BY <1>1, <1>2, <1>3, StableLinks DEF Active, Signed

\* One request at a time and without a fault, a tenant who has a room has an
\* active contract on it whenever no request is in flight.
THEOREM LinkedTenantsHaveContracts ==
  ASSUME Serial, ~Faults
  PROVE  Spec => []LinkedTenantHasContract
<1>1. Init => LinkInv
  BY DEF Init, LinkInv
<1>2. TypeOK /\ FreshInv /\ LinkInv /\ [Next]_vars => LinkInv'
  <2> SUFFICES ASSUME TypeOK, FreshInv, LinkInv, [Next]_vars PROVE LinkInv'
    OBVIOUS
  <2>1. ASSUME NEW q \in Requests, StepOf(q) PROVE LinkInv'
    <3>1. \A p \in Requests \ {q} : pc[p] = "idle" /\ pc'[p] = "idle"
      BY <2>1, OthersAreIdle DEF FreshInv
    <3> QED BY <2>1, <3>1, WritesKeepLinks, OthersKeepLinks
  <2>2. CASE UNCHANGED vars
    BY <2>2 DEF vars, LinkInv, Lets, Active, Signed
  <2> QED BY <2>1, <2>2 DEF Next, StepOf
<1>3. LinkInv => LinkedTenantHasContract
  BY DEF LinkInv, LinkedTenantHasContract, Quiescent, Lets
<1> QED BY <1>1, <1>2, <1>3, TypeCorrect, FreshInvariant, PTL DEF Spec

-----------------------------------------------------------------------------
(* Rooms and contracts *)

\* A contract on room r is active.
LetOut(r) == \E c \in Contracts : Active(c) /\ contract[c].room = r

\* Room r says what its contract says, but between the two writes of a check-in
\* and of a check-out.
InStep(r) ==
    roomStatus[r] = "occupied"
      <=> \/ /\ LetOut(r)
             /\ ~\E q \in Requests : pc[q] = "ci_occupy" /\ req[q].room = r
          \/ \E q \in Requests : /\ pc[q] \in {"co_refund", "co_vacate"}
                                  /\ req[q].room = r

\* What a request knows of its room: a check-in found it vacant and it still is, a
\* check-out has ended its only contract, and an edit that keeps the status holds
\* the one the room has.
RoomOK(q) ==
    /\ pc[q] \in {"ci_tenant", "ci_contract"} => roomStatus[req[q].room] = "vacant"
    /\ pc[q] \in {"co_refund", "co_vacate"} => ~LetOut(req[q].room)
    /\ pc[q] = "ur_room" => req[q].status = Keep
    /\ pc[q] = "ur_write" => req[q].status = roomStatus[req[q].room]

RoomInv ==
    /\ \A c, d \in Contracts :
         Active(c) /\ Active(d) /\ contract[c].room = contract[d].room => c = d
    /\ \A r \in Rooms : InStep(r)
    /\ \A q \in Requests : RoomOK(q)

\* The steps that write a room's status or a contract, and their requests.
Writers(q) ==
    \/ CheckinCreateContract(q) \/ CheckinOccupyRoom(q) \/ CheckoutTerminate(q)
    \/ CheckoutRefund(q) \/ CheckoutVacateRoom(q) \/ UpdateRoomWrite(q)

\* Any other step leaves rooms and contracts alone, and its request away from the
\* steps between two writes.
LEMMA ReadersKeepRooms ==
  ASSUME ~Faults, EditStatuses \subseteq {Keep}, TypeOK, RoomInv,
         NEW q \in Requests, StepOf(q), ~Writers(q),
         \A p \in Requests \ {q} : pc[p] = "idle" /\ pc'[p] = "idle"
  PROVE  RoomInv'
<1> USE DEF TypeOK, Goto, Finish, Begin, Log, ReadTenant
<1>1. UNCHANGED <<roomStatus, contract>>
  BY DEF StepOf, Writers, Checkin, BeginCheckin, CheckinGetRoom, CheckinGetTenant,
         CheckinAssignRoom, CheckinAudit, Checkout, BeginCheckout, CheckoutGetTenant,
         CheckoutGetContract, CheckoutUnassignRoom, CheckoutAudit, Blacklist,
         BeginBlacklist, BlacklistGetTenant, BlacklistFlag, BlacklistAudit,
         UpdateTenant, BeginUpdateTenant, UpdateTenantGetTenant, UpdateTenantWrite,
         UpdateTenantProfile, UpdateTenantAudit, UpdateRoom, BeginUpdateRoom,
         UpdateRoomGetRoom, Abandon, LoseWrite
<1>2. /\ pc[q] \notin {"ci_occupy", "co_refund", "co_vacate"}
      /\ pc'[q] \notin {"ci_occupy", "co_refund", "co_vacate"}
  BY DEF StepOf, Writers, Checkin, BeginCheckin, CheckinGetRoom, CheckinGetTenant,
         CheckinAssignRoom, CheckinAudit, Checkout, BeginCheckout, CheckoutGetTenant,
         CheckoutGetContract, CheckoutUnassignRoom, CheckoutAudit, Blacklist,
         BeginBlacklist, BlacklistGetTenant, BlacklistFlag, BlacklistAudit,
         UpdateTenant, BeginUpdateTenant, UpdateTenantGetTenant, UpdateTenantWrite,
         UpdateTenantProfile, UpdateTenantAudit, UpdateRoom, BeginUpdateRoom,
         UpdateRoomGetRoom, Abandon, LoseWrite, MayBegin
<1>3. ASSUME NEW r \in Rooms PROVE InStep(r)'
  BY <1>1, <1>2 DEF RoomInv, InStep, LetOut, Active, Signed
<1>4. RoomOK(q)'
  <2>1. CASE CheckinGetRoom(q)
    BY <2>1 DEF CheckinGetRoom, RoomOK
  <2>2. CASE CheckinGetTenant(q)
    BY <2>2 DEF CheckinGetTenant, RoomOK, RoomInv, Request
  <2>3. CASE BeginUpdateRoom(q)
    BY <2>3 DEF BeginUpdateRoom, RoomOK, Blank
  <2>4. CASE UpdateRoomGetRoom(q)
    BY <2>4 DEF UpdateRoomGetRoom, RoomOK, RoomInv, Request
  <2>5. CASE ~CheckinGetRoom(q) /\ ~CheckinGetTenant(q) /\ ~BeginUpdateRoom(q)
               /\ ~UpdateRoomGetRoom(q)
    <3>1. pc'[q] \notin {"ci_tenant", "ci_contract", "ur_room", "ur_write"}
      BY <2>5
      DEF StepOf, Writers, Checkin, BeginCheckin, CheckinAssignRoom, CheckinAudit,
          Checkout, BeginCheckout, CheckoutGetTenant, CheckoutGetContract,
          CheckoutUnassignRoom, CheckoutAudit, Blacklist, BeginBlacklist,
          BlacklistGetTenant, BlacklistFlag, BlacklistAudit, UpdateTenant,
          BeginUpdateTenant, UpdateTenantGetTenant, UpdateTenantWrite,
          UpdateTenantProfile, UpdateTenantAudit, UpdateRoom, Abandon, LoseWrite
    <3> QED BY <1>2, <3>1 DEF RoomOK
  <2> QED BY <2>1, <2>2, <2>3, <2>4, <2>5
<1>5. \A p \in Requests \ {q} : RoomOK(p)'
  BY DEF RoomOK
<1> QED BY <1>1, <1>3, <1>4, <1>5 DEF RoomInv, Active, Signed

\* The writers, one by one.
LEMMA WritersKeepRooms ==
  ASSUME TypeOK, FreshInv, RoomInv, NEW q \in Requests, Writers(q),
         \A p \in Requests \ {q} : pc[p] = "idle" /\ pc'[p] = "idle"
  PROVE  RoomInv'
<1> DEFINE c == req[q].contract
           r == req[q].room
<1>0. req[q] \in Request /\ RequestOK(pc[q], req[q]) /\ CopyOK(q) /\ RoomOK(q)
  BY DEF TypeOK, FreshInv, RoomInv
<1>a. \A p \in Requests \ {q} : RoomOK(p)'
  BY DEF RoomOK
<1>1. CASE CheckinCreateContract(q)
  <2>1. r \in Rooms /\ roomStatus[r] = "vacant" /\ ~LetOut(r)
    <3>1. r \in Rooms /\ roomStatus[r] = "vacant" /\ pc[q] = "ci_contract"
      BY <1>0, <1>1 DEF CheckinCreateContract, RequestOK, CheckinSteps, RoomOK
    <3>2. ~\E p \in Requests : pc[p] = "ci_occupy" /\ req[p].room = r
      BY <3>1
    <3> QED BY <3>1, <3>2 DEF RoomInv, InStep
  <2>2. PICK d \in Contracts :
           /\ contract[d] = None
           /\ contract' = [contract EXCEPT ![d] =
                 [tenant |-> req[q].tenant, room |-> req[q].room,
                  property |-> req[q].property, status |-> "active",
                  deposit |-> Cents(req[q].amount), refunded |-> 0]]
           /\ req' = [req EXCEPT ![q].contract = d]
    BY <1>1 DEF CheckinCreateContract
  <2>3. /\ pc'[q] = "ci_occupy" /\ req'[q].room = r /\ roomStatus' = roomStatus
        /\ contract'[d].room = r /\ contract'[d].status = "active"
        /\ \A e \in Contracts \ {d} : contract'[e] = contract[e]
    BY <1>0, <1>1, <2>2 DEF CheckinCreateContract, Goto, TypeOK, Request
  <2>4. contract'[d] # None
    <3>1. contract'[d] \in ContractRow
      <4> DEFINE x == Cents(req[q].amount)
      <4>1. x \in Nat
        BY <1>0, CentsType DEF Request
      <4> HIDE DEF x
      <4>2. [tenant |-> req[q].tenant, room |-> req[q].room,
             property |-> req[q].property, status |-> "active",
             deposit |-> x, refunded |-> 0] \in ContractRow
        BY <1>0, <1>1, <4>1
        DEF CheckinCreateContract, RequestOK, CheckinSteps, ContractRow, ContractStatus
      <4> QED BY <2>2, <4>2 DEF x, TypeOK
    <3> QED BY <3>1, NoneIsNoRow
  <2>5. \A e \in Contracts : Active(e)' <=> e = d \/ Active(e)
    BY <2>2, <2>3, <2>4 DEF Active, Signed
  <2>6. \A e, f \in Contracts :
           Active(e)' /\ Active(f)' /\ contract'[e].room = contract'[f].room => e = f
    BY <2>1, <2>2, <2>3, <2>5 DEF RoomInv, LetOut, Active, Signed
  <2>7. ASSUME NEW s \in Rooms PROVE InStep(s)'
    <3>1. CASE s = r
      BY <2>1, <2>3, <3>1 DEF InStep
    <3>2. CASE s # r
      <4>1. LetOut(s)' <=> LetOut(s)
        BY <2>2, <2>3, <2>5, <3>2 DEF LetOut, Active, Signed
      <4> QED BY <1>1, <2>3, <3>2, <4>1 DEF CheckinCreateContract, InStep, RoomInv
    <3> QED BY <3>1, <3>2
  <2>8. RoomOK(q)'
    BY <2>3 DEF RoomOK
  <2> QED BY <1>a, <2>6, <2>7, <2>8 DEF RoomInv
<1>2. CASE CheckinOccupyRoom(q)
  <2>1. r \in Rooms /\ LetOut(r)
    BY <1>0, <1>2 DEF CheckinOccupyRoom, RequestOK, CheckinSteps, ContractSteps,
                      CopyOK, HeldSteps, Lets, LetOut
  <2>2. /\ pc'[q] = "ci_assign" /\ pc[q] = "ci_occupy" /\ UNCHANGED <<contract, req>>
        /\ roomStatus'[r] = "occupied"
        /\ \A s \in Rooms \ {r} : roomStatus'[s] = roomStatus[s]
    BY <1>2, <2>1 DEF CheckinOccupyRoom, Goto, TypeOK
  <2>3. ASSUME NEW s \in Rooms PROVE InStep(s)'
    BY <2>1, <2>2 DEF RoomInv, InStep, LetOut, Active, Signed
  <2>4. RoomOK(q)'
    BY <2>2 DEF RoomOK
  <2> QED BY <1>a, <2>2, <2>3, <2>4 DEF RoomInv, Active, Signed
<1>3. CASE CheckoutTerminate(q)
  <2>1. c \in Contracts /\ r \in Rooms /\ Active(c) /\ contract[c].room = r
    BY <1>0, <1>3 DEF CheckoutTerminate, RequestOK, ContractSteps, CopyOK, HeldSteps,
                      Lets
  <2>2. /\ pc'[q] \in {"co_refund", "co_vacate"} /\ pc[q] = "co_terminate"
        /\ UNCHANGED <<roomStatus, req>>
    BY <1>3 DEF CheckoutTerminate, Goto, TypeOK
  <2>3. /\ contract'[c].status = "terminated"
        /\ \A d \in Contracts \ {c} : contract'[d] = contract[d]
    <3>1. contract[c] \in ContractRow
      BY <2>1 DEF TypeOK, Active, Signed
    <3> QED BY <1>3, <2>1, <3>1 DEF CheckoutTerminate, TypeOK, ContractRow
  <2>4. \A d \in Contracts : Active(d)' <=> d # c /\ Active(d)
    BY <2>1, <2>3 DEF Active, Signed
  <2>5. ~LetOut(r)'
    BY <2>1, <2>2, <2>3, <2>4 DEF LetOut, RoomInv, Active, Signed
  <2>6. ASSUME NEW s \in Rooms PROVE InStep(s)'
    <3>1. CASE s = r
      <4>1. roomStatus[r] = "occupied"
        <5>1. LetOut(r)
          BY <2>1 DEF LetOut
        <5>2. ~\E p \in Requests : pc[p] = "ci_occupy" /\ req[p].room = r
          BY <2>2
        <5> QED BY <2>1, <5>1, <5>2 DEF RoomInv, InStep
      <4> QED BY <2>2, <3>1, <4>1 DEF InStep
    <3>2. CASE s # r
      <4>1. LetOut(s)' <=> LetOut(s)
        BY <2>1, <2>3, <2>4, <3>2 DEF LetOut
      <4> QED BY <2>2, <3>2, <4>1 DEF InStep, RoomInv
    <3> QED BY <3>1, <3>2
  <2>7. RoomOK(q)'
    BY <2>2, <2>5 DEF RoomOK, LetOut, Active, Signed
  <2> QED BY <1>a, <2>3, <2>4, <2>6, <2>7 DEF RoomInv
<1>4. CASE CheckoutRefund(q)
  <2> DEFINE x == Cents(req[q].amount)
  <2>1. c \in Contracts /\ contract[c] # None /\ contract[c] \in ContractRow
    BY <1>0, <1>4 DEF CheckoutRefund, RequestOK, ContractSteps, TypeOK, Signed
  <2>2. x \in Nat
    BY <1>0, CentsType DEF Request
  <2>3. contract' = [contract EXCEPT ![c].refunded = x]
    BY <1>4 DEF CheckoutRefund
  <2> HIDE DEF x
  <2>4. [contract[c] EXCEPT !.refunded = x] \in ContractRow
    BY <2>1, <2>2 DEF ContractRow
  <2>5. /\ contract'[c] # None /\ contract'[c].status = contract[c].status
        /\ contract'[c].room = contract[c].room
        /\ \A d \in Contracts \ {c} : contract'[d] = contract[d]
    BY <2>1, <2>3, <2>4, NoneIsNoRow DEF TypeOK, ContractRow
  <2>6. ASSUME NEW d \in Contracts
        PROVE  /\ contract'[d] # None <=> contract[d] # None
               /\ contract'[d].status = contract[d].status
               /\ contract'[d].room = contract[d].room
    BY <2>1, <2>5
  <2>7. ASSUME NEW s \in Rooms PROVE LetOut(s)' <=> LetOut(s)
    BY <2>6 DEF LetOut, Active, Signed
  <2>8. pc[q] = "co_refund" /\ pc'[q] = "co_vacate" /\ UNCHANGED <<roomStatus, req>>
    BY <1>4 DEF CheckoutRefund, Goto, TypeOK
  <2>9. ASSUME NEW s \in Rooms PROVE InStep(s)'
    BY <2>7, <2>8 DEF InStep, RoomInv
  <2>10. RoomOK(q)'
    <3>1. r \in Rooms
      BY <1>0, <1>4 DEF CheckoutRefund, RequestOK, ContractSteps
    <3>2. ~LetOut(r)'
      <4> HIDE DEF r
      <4> QED BY <1>0, <2>7, <2>8, <3>1 DEF RoomOK, r
    <3> QED BY <2>8, <3>2 DEF RoomOK
  <2> QED BY <1>a, <2>6, <2>9, <2>10 DEF RoomInv, Active, Signed
<1>5. CASE CheckoutVacateRoom(q)
  <2>1. r \in Rooms /\ ~LetOut(r)
    BY <1>0, <1>5 DEF CheckoutVacateRoom, RequestOK, ContractSteps, RoomOK
  <2>2. /\ pc'[q] = "co_unassign" /\ pc[q] = "co_vacate" /\ UNCHANGED <<contract, req>>
        /\ roomStatus'[r] = "vacant"
        /\ \A s \in Rooms \ {r} : roomStatus'[s] = roomStatus[s]
    BY <1>5, <2>1 DEF CheckoutVacateRoom, Goto, TypeOK
  <2>3. ASSUME NEW s \in Rooms PROVE InStep(s)'
    BY <2>1, <2>2 DEF RoomInv, InStep, LetOut, Active, Signed
  <2>4. RoomOK(q)'
    BY <2>2 DEF RoomOK
  <2> QED BY <1>a, <2>2, <2>3, <2>4 DEF RoomInv, Active, Signed
<1>6. CASE UpdateRoomWrite(q)
  <2>1. r \in Rooms /\ req[q].status = roomStatus[r] /\ pc[q] = "ur_write"
    BY <1>0, <1>6 DEF UpdateRoomWrite, RequestOK, EditRoomSteps, RoomOK
  <2>2. UNCHANGED <<roomStatus, contract>> /\ pc'[q] = "idle"
    BY <1>6, <2>1 DEF UpdateRoomWrite, Finish, TypeOK
  <2>3. ASSUME NEW s \in Rooms PROVE InStep(s)'
    BY <2>1, <2>2 DEF RoomInv, InStep, LetOut, Active, Signed
  <2>4. RoomOK(q)'
    BY <2>2 DEF RoomOK
  <2> QED BY <1>a, <2>2, <2>3, <2>4 DEF RoomInv, Active, Signed
<1> QED BY <1>1, <1>2, <1>3, <1>4, <1>5, <1>6 DEF Writers

\* One request at a time, without a fault and with no status edited by hand, rooms
\* and contracts are in step whenever no request is in flight.
THEOREM RoomsFollowContracts ==
  ASSUME Serial, ~Faults, EditStatuses \subseteq {Keep}
  PROVE  Spec => []OccupancyInvariant
<1>1. Init => RoomInv
  BY DEF Init, RoomInv, InStep, RoomOK, LetOut, Active, Signed
<1>2. TypeOK /\ FreshInv /\ RoomInv /\ [Next]_vars => RoomInv'
  <2> SUFFICES ASSUME TypeOK, FreshInv, RoomInv, [Next]_vars PROVE RoomInv'
    OBVIOUS
  <2>1. ASSUME NEW q \in Requests, StepOf(q) PROVE RoomInv'
    <3>1. \A p \in Requests \ {q} : pc[p] = "idle" /\ pc'[p] = "idle"
      BY <2>1, OthersAreIdle DEF FreshInv
    <3> QED BY <2>1, <3>1, ReadersKeepRooms, WritersKeepRooms
  <2>2. CASE UNCHANGED vars
    BY <2>2 DEF vars, RoomInv, InStep, RoomOK, LetOut, Active, Signed
  <2> QED BY <2>1, <2>2 DEF Next, StepOf
<1>3. RoomInv => OccupancyInvariant
  BY DEF RoomInv, OccupancyInvariant, Quiescent, InStep, LetOut
<1> QED BY <1>1, <1>2, <1>3, TypeCorrect, FreshInvariant, PTL DEF Spec

=============================================================================
