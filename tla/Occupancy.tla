------------------------------ MODULE Occupancy ------------------------------
(***************************************************************************)
(* Check-in, check-out, blacklisting and the edits of tenants and rooms:   *)
(* TenantService in internal/service/tenant.go and RoomService.UpdateRoom  *)
(* in internal/service/room_service.go.                                    *)
(*                                                                         *)
(* Every HTTP request runs in a goroutine of its own and its handler sends *)
(* one SQL statement after another, each committed by itself: there is no  *)
(* transaction and no row lock.  A request is therefore a program counter  *)
(* and the values its goroutine holds, and one action is one statement.    *)
(* The ownership lookup reads columns nothing changes, so it is one step   *)
(* with the read it follows.                                               *)
(***************************************************************************)
EXTENDS Money, FiniteSets

CONSTANTS
    Rooms, Tenants, Contracts,  \* row identifiers
    Properties, Owners,
    PropertyOf,                 \* rooms.property_id
    OwnerOf,                    \* properties.owner_id
    Details,                    \* contents of the personal columns of a tenant,
                                \* and of the profile
    Amounts,                    \* money in a request, in tenths of a cent
    EditStatuses,               \* what UpdateRoom requests ask for
    Requests,                   \* requests that may be in flight at once
    Serial,                     \* TRUE: one request at a time
    Faults,                     \* TRUE: a statement may fail, a request may die
    None                        \* SQL NULL, or no row

RoomStatus     == {"vacant", "occupied", "pending", "maintenance"}
ContractStatus == {"active", "terminated"}
Keep           == "keep"        \* an UpdateRoom body without a status

ASSUME ConstantsAssumption ==
    /\ None \notin Rooms \cup Tenants \cup Contracts \cup Properties
                     \cup Owners \cup Details
    /\ PropertyOf \in [Rooms -> Properties]
    /\ OwnerOf \in [Properties -> Owners]
    /\ Amounts \subseteq Nat
    /\ EditStatuses \subseteq RoomStatus \cup {Keep}
    /\ Serial \in BOOLEAN
    /\ Faults \in BOOLEAN

VARIABLES
    roomStatus,   \* rooms.status
    tenant,       \* the tenants table, joined with profiles as GetTenant reads it
    contract,     \* the contracts table, None where there is no row yet
    audit,        \* the entries of audit_logs, as a set
    pc,           \* the statement a request sends next
    req           \* the values a request's goroutine holds

vars == <<roomStatus, tenant, contract, audit, pc, req>>

-----------------------------------------------------------------------------
(* Rows and requests *)

TenantRow == [room        : Rooms \cup {None},
              property    : Properties \cup {None},
              details     : Details,   \* KTP, occupation, emergency contact
              profile     : Details,   \* profiles.full_name, phone
              blacklisted : BOOLEAN]

ContractRow == [tenant : Tenants, room : Rooms, property : Properties,
                status : ContractStatus, deposit : Nat, refunded : Nat]

ASSUME NoneIsNoRow == None \notin TenantRow /\ None \notin ContractRow

\* An entry is its action and entity, and for a check-out the refund_amount of
\* its metadata.
AuditEntry == ({"checkin"} \X Contracts)
                \cup ({"checkout"} \X Contracts \X Nat)
                \cup ({"blacklist_tenant", "update_tenant"} \X Tenants)

CheckinSteps   == {"ci_room", "ci_tenant", "ci_contract", "ci_occupy",
                   "ci_assign", "ci_audit"}
CheckoutSteps  == {"co_tenant", "co_contract", "co_terminate", "co_refund",
                   "co_vacate", "co_unassign", "co_audit"}
BlacklistSteps == {"bl_tenant", "bl_flag", "bl_audit"}
EditTenantSteps == {"ut_tenant", "ut_write", "ut_profile", "ut_audit"}
EditRoomSteps  == {"ur_room", "ur_write"}

Steps == {"idle"} \cup CheckinSteps \cup CheckoutSteps \cup BlacklistSteps
           \cup EditTenantSteps \cup EditRoomSteps

Blank == [caller |-> None, tenant |-> None, room |-> None, property |-> None,
          contract |-> None, amount |-> 0, details |-> None, status |-> Keep,
          seen |-> None, barred |-> FALSE]

Request == [caller   : Owners \cup {None},
            tenant   : Tenants \cup {None},
            room     : Rooms \cup {None},
            property : Properties \cup {None},
            contract : Contracts \cup {None},
            amount   : Nat,
            details  : Details \cup {None},
            status   : RoomStatus \cup {Keep},
            seen     : TenantRow \cup {None},  \* the tenants row it read
            barred   : BOOLEAN]  \* history: blacklisted when the request came

-----------------------------------------------------------------------------
(* Control of a request *)

Goto(q, l) == pc' = [pc EXCEPT ![q] = l]

Finish(q) == /\ pc' = [pc EXCEPT ![q] = "idle"]
             /\ req' = [req EXCEPT ![q] = Blank]

MayBegin(q) == /\ pc[q] = "idle"
               /\ Serial => \A p \in Requests : pc[p] = "idle"

Begin(q, l, r) == /\ MayBegin(q)
                  /\ Goto(q, l)
                  /\ req' = [req EXCEPT ![q] = r]
                  /\ UNCHANGED <<roomStatus, tenant, contract, audit>>

\* The ownership check on a tenants row: a tenant without a property passes.
Owns(o, row) == row.property = None \/ OwnerOf[row.property] = o

\* Bound: a check-in starts only while a contract identifier is left for it.
ContractLeft ==
    Cardinality({c \in Contracts : contract[c] = None})
      > Cardinality({q \in Requests :
                       pc[q] \in {"ci_room", "ci_tenant", "ci_contract"}})

-----------------------------------------------------------------------------
(* TenantService.Checkin *)

\* The caller owns the property the body names; nobody compares that property
\* with the room's.
BeginCheckin(q) ==
    /\ ContractLeft
    /\ \E t \in Tenants, r \in Rooms, p \in Properties, a \in Amounts :
          Begin(q, "ci_room",
                [Blank EXCEPT !.caller = OwnerOf[p], !.tenant = t, !.room = r,
                              !.property = p, !.amount = a,
                              !.barred = tenant[t].blacklisted])

\* Mutant: the room may be in any status.
AnyRoom(q) ==
    /\ pc[q] = "ci_room"
    /\ Goto(q, "ci_tenant")
    /\ UNCHANGED <<roomStatus, tenant, contract, audit, req>>

CheckinGetRoom(q) ==
    /\ pc[q] = "ci_room"
    /\ IF roomStatus[req[q].room] = "vacant"
       THEN Goto(q, "ci_tenant") /\ UNCHANGED req
       ELSE Finish(q)                              \* ErrRoomNotVacant
    /\ UNCHANGED <<roomStatus, tenant, contract, audit>>

\* Mutant: the tenant may be blacklisted.
AnyTenant(q) ==
    /\ pc[q] = "ci_tenant"
    /\ Goto(q, "ci_contract")
    /\ req' = [req EXCEPT ![q].seen = tenant[req[q].tenant]]
    /\ UNCHANGED <<roomStatus, tenant, contract, audit>>

CheckinGetTenant(q) ==
    /\ pc[q] = "ci_tenant"
    /\ LET row == tenant[req[q].tenant] IN
       IF ~row.blacklisted
       THEN /\ Goto(q, "ci_contract")
            /\ req' = [req EXCEPT ![q].seen = row]
       ELSE Finish(q)                              \* ErrTenantBlacklisted
    /\ UNCHANGED <<roomStatus, tenant, contract, audit>>

CheckinCreateContract(q) ==
    /\ pc[q] = "ci_contract"
    /\ \E c \in Contracts :
          /\ contract[c] = None
          /\ contract' = [contract EXCEPT ![c] =
                 [tenant |-> req[q].tenant, room |-> req[q].room,
                  property |-> req[q].property, status |-> "active",
                  deposit |-> Cents(req[q].amount), refunded |-> 0]]
          /\ req' = [req EXCEPT ![q].contract = c]
    /\ Goto(q, "ci_occupy")
    /\ UNCHANGED <<roomStatus, tenant, audit>>

CheckinOccupyRoom(q) ==
    /\ pc[q] = "ci_occupy"
    /\ roomStatus' = [roomStatus EXCEPT ![req[q].room] = "occupied"]
    /\ Goto(q, "ci_assign")
    /\ UNCHANGED <<tenant, contract, audit, req>>

\* Mutant: the statement rewrites is_blacklisted too.
WriteWholeTenant(t, r, p, d) ==
    tenant' = [tenant EXCEPT ![t] = [@ EXCEPT !.room = r, !.property = p,
                                              !.details = d,
                                              !.blacklisted = FALSE]]

\* queries.UpdateTenant rewrites every column but is_blacklisted, the personal
\* ones with the values the request read earlier.
WriteTenant(t, r, p, d) ==
    tenant' = [tenant EXCEPT ![t] = [@ EXCEPT !.room = r, !.property = p,
                                              !.details = d]]

CheckinAssignRoom(q) ==
    /\ pc[q] = "ci_assign"
    /\ WriteTenant(req[q].tenant, req[q].room, req[q].property,
                   req[q].seen.details)
    /\ Goto(q, "ci_audit")
    /\ UNCHANGED <<roomStatus, contract, audit, req>>

Log(q, entry) ==
    /\ audit' = audit \cup {entry}
    /\ Finish(q)
    /\ UNCHANGED <<roomStatus, tenant, contract>>

CheckinAudit(q) == pc[q] = "ci_audit" /\ Log(q, <<"checkin", req[q].contract>>)

-----------------------------------------------------------------------------
(* TenantService.Checkout *)

BeginCheckout(q) ==
    \E o \in Owners, t \in Tenants, a \in Amounts :
       Begin(q, "co_tenant",
             [Blank EXCEPT !.caller = o, !.tenant = t, !.amount = a])

\* GetTenant and the check of its owner, as Checkout, Blacklist and UpdateTenant
\* begin.
ReadTenant(q, from, to) ==
    /\ pc[q] = from
    /\ LET row == tenant[req[q].tenant] IN
       IF Owns(req[q].caller, row)
       THEN /\ Goto(q, to)
            /\ req' = [req EXCEPT ![q].seen = row]
       ELSE Finish(q)                              \* ErrForbidden
    /\ UNCHANGED <<roomStatus, tenant, contract, audit>>

CheckoutGetTenant(q) == ReadTenant(q, "co_tenant", "co_contract")

\* Mutant: the status of the contract is not looked at.
AnyContractsOf(t) ==
    {c \in Contracts : contract[c] # None /\ contract[c].tenant = t}

\* GetActiveContract: LIMIT 1 without ORDER BY, so any active contract.
ActiveContractsOf(t) ==
    {c \in Contracts : /\ contract[c] # None
                       /\ contract[c].tenant = t
                       /\ contract[c].status = "active"}

\* Mutant: the refund is not compared with the deposit.
AnyRefund(q) ==
    /\ pc[q] = "co_contract"
    /\ \/ /\ ActiveContractsOf(req[q].tenant) = {}
          /\ Finish(q)
       \/ \E c \in ActiveContractsOf(req[q].tenant) :
             /\ Goto(q, "co_terminate")
             /\ req' = [req EXCEPT ![q].contract = c,
                                   ![q].room = contract[c].room]
    /\ UNCHANGED <<roomStatus, tenant, contract, audit>>

CheckoutGetContract(q) ==
    /\ pc[q] = "co_contract"
    /\ \/ /\ ActiveContractsOf(req[q].tenant) = {}  \* ErrNoActiveContract
          /\ Finish(q)
       \/ \E c \in ActiveContractsOf(req[q].tenant) :
             IF req[q].amount <= contract[c].deposit
             THEN /\ Goto(q, "co_terminate")
                  /\ req' = [req EXCEPT ![q].contract = c,
                                        ![q].room = contract[c].room]
             ELSE Finish(q)                        \* ErrRefundExceedsDeposit
    /\ UNCHANGED <<roomStatus, tenant, contract, audit>>

\* Mutant: an error of the update is discarded, and the check-out goes on.
UnsureTerminate(q) ==
    /\ pc[q] = "co_terminate"
    /\ \/ contract' = [contract EXCEPT ![req[q].contract].status = "terminated"]
       \/ UNCHANGED contract
    /\ Goto(q, IF req[q].amount > 0 THEN "co_refund" ELSE "co_vacate")
    /\ UNCHANGED <<roomStatus, tenant, audit, req>>

\* Mutant: the refund is not written.
TerminateUnpaid(q) ==
    /\ pc[q] = "co_terminate"
    /\ contract' = [contract EXCEPT ![req[q].contract].status = "terminated"]
    /\ Goto(q, "co_vacate")
    /\ UNCHANGED <<roomStatus, tenant, audit, req>>

CheckoutTerminate(q) ==
    /\ pc[q] = "co_terminate"
    /\ contract' = [contract EXCEPT ![req[q].contract].status = "terminated"]
    /\ Goto(q, IF req[q].amount > 0 THEN "co_refund" ELSE "co_vacate")
    /\ UNCHANGED <<roomStatus, tenant, audit, req>>

CheckoutRefund(q) ==
    /\ pc[q] = "co_refund"
    /\ contract' = [contract EXCEPT ![req[q].contract].refunded =
                                        Cents(req[q].amount)]
    /\ Goto(q, "co_vacate")
    /\ UNCHANGED <<roomStatus, tenant, audit, req>>

CheckoutVacateRoom(q) ==
    /\ pc[q] = "co_vacate"
    /\ roomStatus' = [roomStatus EXCEPT ![req[q].room] = "vacant"]
    /\ Goto(q, "co_unassign")
    /\ UNCHANGED <<tenant, contract, audit, req>>

\* Mutant: the room is written back as it was read.
KeepTenantRoom(q) ==
    /\ pc[q] = "co_unassign"
    /\ WriteTenant(req[q].tenant, req[q].seen.room, req[q].seen.property,
                   req[q].seen.details)
    /\ Goto(q, "co_audit")
    /\ UNCHANGED <<roomStatus, contract, audit, req>>

CheckoutUnassignRoom(q) ==
    /\ pc[q] = "co_unassign"
    /\ WriteTenant(req[q].tenant, None, req[q].seen.property,
                   req[q].seen.details)
    /\ Goto(q, "co_audit")
    /\ UNCHANGED <<roomStatus, contract, audit, req>>

\* The entry carries the refund the request asked for, recorded or not.
CheckoutAudit(q) ==
    /\ pc[q] = "co_audit"
    /\ Log(q, <<"checkout", req[q].contract, Cents(req[q].amount)>>)

-----------------------------------------------------------------------------
(* TenantService.Blacklist and TenantService.UpdateTenant *)

BeginBlacklist(q) ==
    \E o \in Owners, t \in Tenants :
       Begin(q, "bl_tenant", [Blank EXCEPT !.caller = o, !.tenant = t])

BeginUpdateTenant(q) ==
    \E o \in Owners, t \in Tenants, d \in Details :
       Begin(q, "ut_tenant",
             [Blank EXCEPT !.caller = o, !.tenant = t, !.details = d])

BlacklistGetTenant(q)    == ReadTenant(q, "bl_tenant", "bl_flag")
UpdateTenantGetTenant(q) == ReadTenant(q, "ut_tenant", "ut_write")

BlacklistFlag(q) ==
    /\ pc[q] = "bl_flag"
    /\ tenant' = [tenant EXCEPT ![req[q].tenant].blacklisted = TRUE]
    /\ Goto(q, "bl_audit")
    /\ UNCHANGED <<roomStatus, contract, audit, req>>

BlacklistAudit(q) ==
    pc[q] = "bl_audit" /\ Log(q, <<"blacklist_tenant", req[q].tenant>>)

\* Mutant: the room, which the body does not have, is left out of the update.
WriteWithoutRoom(q) ==
    /\ pc[q] = "ut_write"
    /\ WriteTenant(req[q].tenant, None, req[q].seen.property, req[q].details)
    /\ Goto(q, "ut_audit")
    /\ UNCHANGED <<roomStatus, contract, audit, req>>

\* The room and the property are written back as they were read.  The profile is
\* written next when the body has a name or a phone.
UpdateTenantWrite(q) ==
    /\ pc[q] = "ut_write"
    /\ WriteTenant(req[q].tenant, req[q].seen.room, req[q].seen.property,
                   req[q].details)
    /\ \E l \in {"ut_profile", "ut_audit"} : Goto(q, l)
    /\ UNCHANGED <<roomStatus, contract, audit, req>>

UpdateTenantProfile(q) ==
    /\ pc[q] = "ut_profile"
    /\ tenant' = [tenant EXCEPT ![req[q].tenant].profile = req[q].details]
    /\ Goto(q, "ut_audit")
    /\ UNCHANGED <<roomStatus, contract, audit, req>>

UpdateTenantAudit(q) ==
    pc[q] = "ut_audit" /\ Log(q, <<"update_tenant", req[q].tenant>>)

-----------------------------------------------------------------------------
(* RoomService.UpdateRoom: of the columns it writes only the status matters *)
(* here, and of the room types it looks up or creates none. *)

BeginUpdateRoom(q) ==
    \E r \in Rooms, s \in EditStatuses :
       Begin(q, "ur_room",
             [Blank EXCEPT !.caller = OwnerOf[PropertyOf[r]], !.room = r,
                           !.status = s])

\* Mutant: a status the body leaves out is not filled in.
KeepNoStatus(q) ==
    /\ pc[q] = "ur_room"
    /\ Goto(q, "ur_write")
    /\ UNCHANGED <<roomStatus, tenant, contract, audit, req>>

UpdateRoomGetRoom(q) ==
    /\ pc[q] = "ur_room"
    /\ req' = [req EXCEPT ![q].status =
                             IF @ = Keep THEN roomStatus[req[q].room] ELSE @]
    /\ Goto(q, "ur_write")
    /\ UNCHANGED <<roomStatus, tenant, contract, audit>>

UpdateRoomWrite(q) ==
    /\ pc[q] = "ur_write"
    /\ \/ roomStatus' = [roomStatus EXCEPT ![req[q].room] = req[q].status]
       \/ UNCHANGED roomStatus                    \* ErrDuplicateRoomNumber
    /\ Finish(q)
    /\ UNCHANGED <<tenant, contract, audit>>

-----------------------------------------------------------------------------
(* Faults *)

\* The request ends between two statements: a statement whose error is
\* returned fails, the client goes away and cancels the context, the process
\* is killed, or a statement takes effect and its reply is lost.
Abandon(q) ==
    /\ Faults
    /\ pc[q] # "idle"
    /\ Finish(q)
    /\ UNCHANGED <<roomStatus, tenant, contract, audit>>

\* Mutant: an error of BlacklistTenant is discarded as well.
LoseFlagToo(q) ==
    /\ Faults
    /\ \/ pc[q] = "co_refund"   /\ Goto(q, "co_vacate")
       \/ pc[q] = "ci_assign"   /\ Goto(q, "ci_audit")
       \/ pc[q] = "co_unassign" /\ Goto(q, "co_audit")
       \/ pc[q] = "ut_profile"  /\ Goto(q, "ut_audit")
       \/ pc[q] = "bl_flag"     /\ Goto(q, "bl_audit")
    /\ UNCHANGED <<roomStatus, tenant, contract, audit, req>>

\* A write whose error the code discards fails, and the request goes on.
LoseWrite(q) ==
    /\ Faults
    /\ \/ pc[q] = "co_refund"   /\ Goto(q, "co_vacate")
       \/ pc[q] = "ci_assign"   /\ Goto(q, "ci_audit")
       \/ pc[q] = "co_unassign" /\ Goto(q, "co_audit")
       \/ pc[q] = "ut_profile"  /\ Goto(q, "ut_audit")
    /\ UNCHANGED <<roomStatus, tenant, contract, audit, req>>

-----------------------------------------------------------------------------
(* The specification *)

\* Rooms as CreateRoom makes them by default, tenants not yet checked in.
Init ==
    /\ roomStatus = [r \in Rooms |-> "vacant"]
    /\ tenant \in [Tenants -> {row \in TenantRow :
                                  /\ row.room = None
                                  /\ row.property = None
                                  /\ ~row.blacklisted}]
    /\ contract = [c \in Contracts |-> None]
    /\ audit = {}
    /\ pc = [q \in Requests |-> "idle"]
    /\ req = [q \in Requests |-> Blank]

Checkin(q) ==
    \/ BeginCheckin(q) \/ CheckinGetRoom(q) \/ CheckinGetTenant(q)
    \/ CheckinCreateContract(q) \/ CheckinOccupyRoom(q)
    \/ CheckinAssignRoom(q) \/ CheckinAudit(q)

Checkout(q) ==
    \/ BeginCheckout(q) \/ CheckoutGetTenant(q) \/ CheckoutGetContract(q)
    \/ CheckoutTerminate(q) \/ CheckoutRefund(q) \/ CheckoutVacateRoom(q)
    \/ CheckoutUnassignRoom(q) \/ CheckoutAudit(q)

Blacklist(q) ==
    BeginBlacklist(q) \/ BlacklistGetTenant(q) \/ BlacklistFlag(q)
      \/ BlacklistAudit(q)

UpdateTenant(q) ==
    BeginUpdateTenant(q) \/ UpdateTenantGetTenant(q) \/ UpdateTenantWrite(q)
      \/ UpdateTenantProfile(q) \/ UpdateTenantAudit(q)

UpdateRoom(q) ==
    BeginUpdateRoom(q) \/ UpdateRoomGetRoom(q) \/ UpdateRoomWrite(q)

Next == \E q \in Requests :
           \/ Checkin(q) \/ Checkout(q) \/ Blacklist(q) \/ UpdateTenant(q)
           \/ UpdateRoom(q) \/ Abandon(q) \/ LoseWrite(q)

Spec == Init /\ [][Next]_vars

-----------------------------------------------------------------------------
(* Properties *)

Signed(c)  == contract[c] # None
Active(c)  == Signed(c) /\ contract[c].status = "active"
Quiescent  == \A q \in Requests : pc[q] = "idle"

\* The steps of a request that has signed a contract or has found one.
ContractSteps == {"ci_occupy", "ci_assign", "ci_audit", "co_terminate",
                  "co_refund", "co_vacate", "co_unassign", "co_audit"}

\* What a request holds when its next statement is l.
RequestOK(l, r) ==
    /\ l \in CheckinSteps \cup CheckoutSteps \cup BlacklistSteps
                \cup EditTenantSteps
         => r.tenant \in Tenants /\ r.caller \in Owners
    /\ l \in CheckinSteps \cup EditRoomSteps \cup ContractSteps
         => r.room \in Rooms
    /\ l \in CheckinSteps => r.property \in Properties
    /\ l \in EditTenantSteps => r.details \in Details
    /\ l \in {"ci_contract", "ci_occupy", "ci_assign", "co_contract",
              "co_terminate", "co_refund", "co_vacate", "co_unassign",
              "ut_write"} => r.seen \in TenantRow
    /\ l \in ContractSteps => r.contract \in Contracts
    /\ l = "ur_write" => r.status \in RoomStatus

\* Type invariant: every table holds rows of its columns' types, a request holds
\* the values its next statement needs, and its contract has a row.
TypeOK ==
    /\ roomStatus \in [Rooms -> RoomStatus]
    /\ tenant \in [Tenants -> TenantRow]
    /\ contract \in [Contracts -> ContractRow \cup {None}]
    /\ audit \subseteq AuditEntry
    /\ pc \in [Requests -> Steps]
    /\ req \in [Requests -> Request]
    /\ \A q \in Requests : RequestOK(pc[q], req[q])
    /\ \A q \in Requests : pc[q] \in ContractSteps => Signed(req[q].contract)

\* Requests handled one at a time without a fault, and no status edited by hand,
\* keep rooms and contracts in step whenever no request is in flight: a room is
\* occupied exactly when a contract on it is active, and then only one is.
OccupancyInvariant ==
    Quiescent =>
      \A r \in Rooms :
        /\ roomStatus[r] = "occupied"
             <=> \E c \in Contracts : Active(c) /\ contract[c].room = r
        /\ \A c, d \in Contracts :
             /\ Active(c) /\ contract[c].room = r
             /\ Active(d) /\ contract[d].room = r
             => c = d

\* The same runs keep the tenants table in step: a tenant who has a room has
\* an active contract on it.
LinkedTenantHasContract ==
    Quiescent =>
      \A t \in Tenants : tenant[t].room # None =>
         \E c \in Contracts : /\ Active(c)
                               /\ contract[c].tenant = t
                               /\ contract[c].room = tenant[t].room

\* The claim of internal/service/tenant_property_test.go, read of the tables:
\* in every property as many rooms are occupied as contracts are active.
OccupancyCount ==
    Quiescent =>
      \A p \in Properties :
        Cardinality({r \in Rooms : PropertyOf[r] = p
                                     /\ roomStatus[r] = "occupied"})
          = Cardinality({c \in Contracts : Active(c)
                                             /\ contract[c].property = p})

\* However requests interleave and fail, the contracts table keeps the promises
\* of ContractLedger: a refund of at most the deposit, only after termination.
Ledger == INSTANCE ContractLedger
            WITH Deposits <- {Cents(a) : a \in Amounts}
LedgerSpec == Ledger!Spec

\* However requests interleave and fail, a refund recorded is at most the
\* deposit of its contract, although the check in Checkout compares the amount
\* before it is rounded, and is on a terminated contract.
RefundWithinDeposit ==
    \A c \in Contracts : Signed(c) =>
       /\ contract[c].refunded <= contract[c].deposit
       /\ contract[c].refunded > 0 => contract[c].status = "terminated"

\* A blacklisted tenant stays blacklisted, although check-in, check-out and
\* UpdateTenant write the tenants row back from a stale copy.
BlacklistPermanent ==
    [][\A t \in Tenants :
         tenant[t].blacklisted => tenant'[t].blacklisted]_tenant

\* No check-in that arrives after its tenant was blacklisted signs a contract.
\* (One that read the tenant before may still do so.)
NoContractAfterBlacklist ==
    [][\A c \in Contracts : ~Signed(c) /\ contract'[c] # None =>
         \E q \in Requests : /\ pc[q] = "ci_contract"
                              /\ req'[q].contract = c
                              /\ req[q].tenant = contract'[c].tenant
                              /\ ~req[q].barred]_contract

CheckoutEntries(c) == {e \in audit : e[1] = "checkout" /\ e[2] = c}

\* However requests interleave and fail, the audit trail never runs ahead of the
\* tables: a check-in is logged for a contract that exists, a check-out for one
\* that is terminated and with a refund its deposit covers, a blacklisting for a
\* tenant who is blacklisted.  It does not say that the refund was recorded.
AuditTellsTheTruth ==
    /\ \A c \in Contracts :
         /\ <<"checkin", c>> \in audit => Signed(c)
         /\ \A e \in CheckoutEntries(c) :
              Signed(c) /\ ~Active(c) /\ e[3] <= contract[c].deposit
    /\ \A t \in Tenants :
         <<"blacklist_tenant", t>> \in audit => tenant[t].blacklisted

\* The refund a check-out logs is the refund its contract holds (tenant.go:
\* "optionally records a deposit refund, and writes an audit log").  It is so
\* when requests are handled one at a time and no statement fails.  When the
\* write of the refund fails, its error is discarded and the entry still names
\* the amount.
AuditedRefundIsRecorded ==
    \A c \in Contracts : \A e \in CheckoutEntries(c) :
       Signed(c) /\ contract[c].refunded = e[3]

\* A refund once recorded is not rewritten, when requests are handled one at a
\* time; two check-outs of one contract in flight together may each write one.
RefundRecordedOnce ==
    [][\A c \in Contracts :
         Signed(c) /\ contract[c].refunded > 0
           => contract'[c].refunded = contract[c].refunded]_contract

\* Requests handled one at a time: check-in and check-out change the room and
\* property of a tenant and leave the personal columns as they are (tenant.go:
\* "Update tenant's property_id and room_id", "Clear tenant's room assignment"),
\* and UpdateTenant changes the personal columns and leaves the room.  Requests
\* in flight together overwrite each other's columns with stale copies.
OwnColumnsOnly ==
    [][\A t \in Tenants :
         /\ tenant'[t].details # tenant[t].details
              => \E q \in Requests : pc[q] = "ut_write" /\ req[q].tenant = t
         /\ tenant'[t].room # tenant[t].room
              => \E q \in Requests : /\ pc[q] \in {"ci_assign", "co_unassign"}
                                    /\ req[q].tenant = t]_tenant

=============================================================================
