# KosKu: TLA+ models and proofs

KosKu is the HTTP API of a boarding-house administration: owners keep
properties and rooms, check tenants in and out, bill them and confirm their
payments; tenants pay, complain and read. It is a Go program (gin, sqlc over
PostgreSQL) that also calls a storage service for files (Supabase) and a mail
service (Resend).

This directory holds models of its core logic, the TLC configurations that check
them, and theorems about them that TLAPS checks. It covers every component that
changes state while the program runs; what is left out of each is listed below.

    tlc -workers 2 -config MCOccupancySerial.cfg MCOccupancy
    tlapm OccupancyProofs.tla

and so for every cfg under *Runs* and for `OccupancySerialProofs`, `PaymentsProofs`,
`BillingProofs`, `FilesProofs`, `EstateProofs`, `LocksProofs` and `GatewayProofs`.
Every invariant and every action property of the runs that pass is also proved; what
is left to TLC alone is liveness.

## The system

Every request runs in a goroutine of its own: rate limiter, authentication,
handler, service. A service sends SQL statements one after another, each
committed by itself. Only `RoomService.UpdateLayout` opens a transaction; no
statement locks a row it read, and the tables have hardly a constraint beyond
keys. What a service reads may therefore be stale when it writes, and a request
may end after any statement: a statement fails, the client leaves (which cancels
the context that every statement gets), the process is killed. Many errors are
discarded on purpose (`_, _ =`), and the request goes on. Those three facts are
where the hard behaviours come from.

| Component | State | Operations | What makes it correct | Module |
| --- | --- | --- | --- | --- |
| Tenancy (`service/tenant.go`) | `rooms.status`, `tenants`, `contracts` | Checkin, Checkout, Blacklist, UpdateTenant | rooms and contracts agree between requests that do not overlap or fail; refunds fit deposits; a blacklisted tenant stays so, and no check-in that comes later signs; the audit log does not run ahead of the tables | `Occupancy` |
| Rooms (`service/room_service.go`) | `rooms`, `room_types` | CreateRoom, UpdateRoom, ArchiveRoom, UpdateLayout | status edits do not lose a check-in; a room has a type of its own property; a layout is applied whole, and ends | `Estate`, `Layout`, `Occupancy` (status) |
| Billing (`service/billing.go`) | `bills`, `utility_charges` | GenerateBills, UpdateUtilities | `GenerateBills` passes over no active contract whose insert succeeds (but does bill one twice when run twice); amounts follow charges | `Billing` |
| Payments (`service/billing.go`, `service/tenant_portal.go`) | `bills.status`, `payments`, proof files | SubmitPayment, ConfirmPayment, RejectPayment, GetBillReceipt | a bill is paid because a payment was confirmed; a payment has its proof | `Payments` |
| Tickets (`service/ticket.go`) | `tickets`, attachments, files | CreateTicket, UpdateTicket | attachments and files stay together; a tenant hears of no status the ticket never had | `Files`, `Outbox` |
| Room photos, uploads, contract documents | `room_photos`, files | UploadPhoto, DeletePhoto, GenerateContract | what a client was told of has its file; no file nobody names | `Files` |
| Authentication (`middleware/auth.go`) | the JWKS cache, in memory | verify a token, look a role up | one request fetches; a key is soon refused out of the answers of the provider that withdrew it; a published one is refused at most over another issuer's keys; nobody waits for the lock for good | `KeyCache` |
| Rate limiter (`middleware/ratelimit.go`) | token buckets by address, in memory | get, Allow, clean-up | an address gets its budget and no more, across every clean-up | `RateLimiter` |
| Registration (`service/auth.go`) | `profiles`, `invitations` | Register, Invite, Approve, Reject | a role once told is not overwritten | `People` |
| Properties, settings (`service/property.go`, `service/settings.go`) | `properties` | Create, Update, Archive, both settings | what an archived property has had since the request that archived it came is archived with it; settings go to a property that was the first when it was looked up | `Estate` |
| Export (`service/settings.go`) | none | six reads | it holds the parents of what it holds | `Export` |
| Announcements, notifications, messages | `announcements`, `notifications`, `messages` | fan-out, send | who is named as notified has the notification | `Outbox` |
| Mail (`pkg/email`) | none; goroutines | send after the response | what an e-mail says has happened | `Outbox` |
| Audit log | `audit_logs` | one insert a request | what it says of a contract, a tenant or a payment is so; the refund of a check-out only when nothing overlaps or fails | `Occupancy`, `Payments` |

Components interact through the tables (billing lists the contracts that tenancy
writes, the receipt reads what payments wrote, a profile that another row refers
to cannot be deleted), through the storage service, through the two caches in memory
that every request passes, and through goroutines that send mail after the response
with the request's context.

## Modules

**`Money`** has one operator, `Cents`: `strconv.FormatFloat(x, 'f', 2, 64)`, by
which every amount in a request becomes a NUMERIC(12,2). Amounts are natural
numbers of tenths of a cent. An amount half-way between two cents goes up; the
code goes where the binary fraction leans. No instance has such an amount, and
the proofs use only that `Cents` yields naturals, is monotone and idempotent and leaves zero alone.

**`ContractLedger`** is the abstract promise of the contracts table: a contract
is signed, perhaps terminated, and gives back at most its deposit after that; its
parties and its deposit never change.

**`Occupancy`** models `TenantService` and the status write of `UpdateRoom`.

| Model | Code |
| --- | --- |
| `roomStatus`, `tenant`, `contract`, `audit` | the tables; `tenant` is joined with `profiles` as `GetTenant` reads it; `audit` is a set of entries |
| `pc[q]`, `req[q]` | where request `q` is and the values its goroutine holds |
| `BeginCheckin` ... `CheckinAudit` | `Checkin`: read the room, read the tenant, insert the contract, occupy the room, write the tenant, log |
| `BeginCheckout` ... `CheckoutAudit` | `Checkout`: tenant and owner, active contract and refund check, terminate, refund, vacate, clear the tenant, log |
| `BeginBlacklist` ..., `BeginUpdateTenant` ..., `BeginUpdateRoom` ... | the other operations |
| `audit` | `<<action, entity>>`; of the metadata only the `refund_amount` of a check-out, which nothing else records once its own write is lost |
| `Abandon` | the request ends between two statements |
| `LoseWrite` | a write whose error is discarded fails |

The lookup that checks ownership reads columns nothing changes, so it is one
step with the read it follows. The row a request read (`req.seen`) is what it
writes back, as in the code, so lost updates are in the model. `req.barred` is
history: was the tenant blacklisted when the request came. `UpdateTenant` bodies
replace all personal columns; one that leaves a column out is a body that carries
the old value. The number and type of a room are left out of `UpdateRoom`, except
that its write may fail on a duplicate number.

**`Payments`** models the life of a payment and of the status of its bill, with
the proof file in the storage service: `stored` is the bucket. `FaultKinds` names
what may go wrong: a statement fails (`sql`), takes effect while its reply is lost
(`reply`), a storage call fails (`storage`), the request dies (`crash`). History:
`everConfirmed`, `receipts`. `Review` is `GetPayment` with its status check,
`SetPayment` the unconditional update by primary key. Three more histories let a
property name the one case it excuses: `unsure` (payments whose own insert took effect
and reported an error), `astray` (proofs whose own request died, or could not delete
them) and `overlapped` (two requests have been in flight at once). Failed lookups and
forbidden callers write nothing and are left out.

**`Billing`** models `GenerateBills` and `UpdateUtilities` for one property, with
contracts signed and ended by the environment. `bills.total_amount` is a generated
column and is not modelled: it is NULL in every bill (see below). `torn` is history:
bills whose last `UpdateUtilities` ended half-way; `req.skipped`, contracts whose
insert failed.

**`Files`** models the requests that store a file and write a row about it:
`UploadPhoto`, `DeletePhoto`, `CreateTicket`, the tenant portal's `CreateMyTicket`
and `GenerateContract`. `stored` is the storage service with its buckets, whose
names are UUIDs and so never meet; `photo` and `attached` are the tables that point
into it. One action is one call of the database or of the storage service, since no
transaction spans the two; `FailUpload`, `FailInsert`, `FailAttach` are the error
branches, and `Clean` deletes one file of a clean-up. Errors mean what they can
mean: a failed upload or insert may have happened all the same. Since the clean-up
runs with the context of the request, a client who leaves makes both the insert and
the clean-up fail: a statement fault and a storage fault of one request.

| State | Code |
| --- | --- |
| `stored` | files in the buckets |
| `photo`, `attached`, `ticket` | `room_photos`, `ticket_attachments`, `tickets` |
| `req[q].files`, `.left` | `uploadedFilenames`, and the photos the loop has still to upload |
| `ticket.portal`, `.sent`, `.told`, `shown`, `documents` | history: which way a ticket came, what clients sent and what they were told exists |
| `astray` | history: files a storage error or a dying process took out of the code's hands |

The properties speak of what clients were told, because more does not hold: the
attachment rows of a refused ticket stay when their files are deleted, and a photo
whose row cannot be deleted has lost its file already.

**`Clock`** is what `time.Now()` reads, in ticks, for the two modules that compare
times. **`RateLimiter`** models the table of token buckets. `Get` and `Allow` are two
steps, because the mutex is released in between; `Cleanup` is the goroutine, at any
time. A bucket (`golang.org/x/time/rate`, external) gains one token a tick, which is
0.6 s for the global limiter and 6 s for the stricter one. `IdleTTL >= Burst + MaxGap`
says that the five minutes are longer than a bucket takes to fill (one minute) and a
goroutine to go on from `get` to `Allow`; the property fails without it.
`windowStart` is any moment, chosen at the start: history, with `admitted`.

**`KeyCache`** models `fetchJWKS` and `resolveES256Key`: one action is one section
under the `RWMutex` or one exchange with the identity provider. `ReadCache` and
`HitLocked` are the first and the second look; `BeginFetch`, `ProviderAnswers`,
`Store` and `FailFetch` hold the lock (`writer`) across the network; `Expire` is the
forced refresh of a request that missed a key. `Rotate` is a provider.

There may be several providers (`Issuers`). `verifyToken` takes the URL it fetches from
out of the `iss` claim of the token, before anything has verified it
(`auth.go:180-188`), while the map, its expiry and its lock are one for all
(`auth.go:59-63`, `144`). A request therefore fetches from its own issuer
(`ProviderAnswers`) and stores for everyone (`Store`), and a `Hit` takes whoever's keys
are there. History: `jwksFrom` and `bearer.from` (which provider sent the keys), `left`
(when it withdrew a key), `bearer.steady` (has the issuer published the key all along).

What holds is relative to that. `RetiredKeyBound` bounds a key by the provider that sent
it: a key that the token's issuer has withdrawn is accepted for as long as another issuer
that requests name still sends it, and nothing in the code bounds that.
`PublishedKeyIsKnown` leaves one way to be refused with a published key: that another
issuer's request has refilled the cache before the retry. Where every token names one
issuer both are what a reader expects of the code; with two, a published key may be
refused (below). Which issuer a request has plays no part in who waits for the lock, so
the liveness run has one.

Tokens that need no key, and wrong signatures, are left out. The role that
is looked up afterwards guards no action of any module, since the middleware falls
back to the role in the token whenever the lookup fails.

**`Layout`** models the transaction of `UpdateLayout` over a database with row locks:
what a transaction has `written` is locked and private until `Commit`; `Rollback` is
the deferred call on every error; `AbortDeadlocked` is PostgreSQL's deadlock detector,
which picks one transaction of a cycle of waiters. The value of a position is the
client that set it.

**`Estate`** models the properties of one owner, their settings, room types and rooms,
a statement an action. Room types share one name, and are numbered within a property;
the lookup is a `LIMIT 1` without an order, so `FindType` takes any. `MoveIn` stands for
check-ins elsewhere. `covered` is history: what an archived property has had ever since
the request that archived it came; a row added while the three statements run is the
one thing they cannot see, and stays live.

**`Export`** models `ExportData`: six SELECTs in a row, while rows are inserted and
properties and rooms archived. `ready` is history: what existed when the request came.

**`People`** models `Register`, `Reject`, and the invitations that refer to a profile
and so keep it from being deleted (`linked`). `Approve` mails and changes nothing, and is
therefore no action. `told` is history: the roles a user has been told since the row was made.

**`Outbox`** extends `People` with announcements, tickets, notifications and e-mails:
the fan-out of `CreateAnnouncement` one target at a time, the status, the
notification and the e-mail of `UpdateTicket` as three steps. `FailedInsert` is an
insert that reports an error and has taken effect or not. An e-mail may always fail to go
out, which nothing notices. History: `mails`, `had` (every status a ticket has had).

**`MCOccupancy`, `MCPayments`, `MCBilling`, `MCFiles`** give the constants their values.
**`MCLocks`** (`KeyCache`, `Layout`), **`MCEstate`** (`Estate`, `Export`) and
**`MCGateway`** (`RateLimiter`, `KeyCache`, `People`, `Outbox`) check several components in
one run. Where those share no variable but the clock, a property of one sees a step of the
other as a stutter or a tick, so `moving` lets only one of them move in a behaviour and the run explores
the sum of their states, not the product. `Outbox` moves `People` with it; a registration
and a rejection race in earnest where `People` moves alone.

**`OccupancyProofs`, `OccupancySerialProofs`, `PaymentsProofs`, `BillingProofs`,
`FilesProofs`** and, over `MCLocks`, `MCEstate` and `MCGateway`, **`LocksProofs`,
`EstateProofs`** and **`GatewayProofs`** hold the theorems and their proofs. The
last three extend the modules that compose components, but no constant has a value in
them: what they prove holds for any. The operators marked `Mutant:` are deliberate errors that show each
property can fail; no specification uses them.

## Runs

| Run (cfg) | Instance | Checks |
| --- | --- | --- |
| `MCOccupancySerial` | 2 rooms, 2 tenants, 2 contracts, 1 request at a time, no fault; UpdateRoom without a status | `TypeOK`, `OccupancyInvariant`, `LinkedTenantHasContract`, `AuditedRefundIsRecorded`, `RefundRecordedOnce`, `OwnColumnsOnly` |
| `MCOccupancyConcurrent` | 1 room, 1 tenant, 1 contract, 2 requests in flight, all faults, amounts that are rounded | `RefundWithinDeposit`, `AuditTellsTheTruth`, `BlacklistPermanent`, `NoContractAfterBlacklist`, refinement `LedgerSpec` |
| `MCOccupancyTwoProperties` | 1 owner, 2 properties with a room each | **violates** `OccupancyCount` |
| `MCOccupancyLostRefund` | 1 room, 1 tenant, 1 contract, 1 request at a time, all faults | **violates** `AuditedRefundIsRecorded` |
| `MCPayments` | 2 bills, 2 payments, 2 requests in flight, all faults | `TypeOK`, `PaidWasEarned`, `AuditTellsTheTruth`, `ProofStored`, `NoOrphanProof`; until requests overlap `PaidBillHasConfirmedPayment`, `ReceiptIsDated` |
| `MCPaymentsDoublePay` | 1 bill, 3 payments, 1 request at a time, no fault | **violates** `SettledBillTakesNoPayment` |
| `MCBillingFaults` | 2 contracts, 3 bills, 2 periods, 1 request at a time, faults | `TypeOK`, `UtilityMatchesCharges`, `EveryActiveContractBilled` |
| `MCFilesFaults` | 3 files, 2 tickets of up to 2 photos, 2 requests in flight, all faults | `TypeOK`, `AnswersAreTrue`, `NoOrphanFile` |
| `MCFilesPortal` | 1 file, 1 ticket of up to 1 photo, 1 request, no fault | **violates** `PhotosAreAttached` |
| `MCLocks` | 2 requests, 1 issuer, 1 key that comes and goes, cache of 2 ticks, fetch of 1; 2 layouts of 2 rooms, fairness | `TypeOK`, `EveryTokenDecided`, `LayoutIsWhole`, `LayoutEnds` |
| `MCEstate` | 2 properties, 2 rooms, 1 tenant, 1 number, 2 requests in flight; an export of 2 properties and 7 rows | `TypeOK`, `ArchivedWithItsRooms`, `RoomTypeIsOfProperty`, `BillingOfFirstProperty`, `ExportHasItsParents` |
| `MCGateway` | 1 address, 2 requests, burst 2; 2 issuers, 1 key that one publishes and withdraws and the other has or lacks, 2 requests with tokens, cache of 2 ticks, fetch of 1; 2 users, 2 registrations in flight; 2 writers, 1 announcement, 2 notifications | `TypeOK`, `WindowBound`, `RetiredKeyBound`, `PublishedKeyIsKnown`, `FetchedOnce`, `RoleKept`, `NewsIsTrue` |

**Bounds.** Only identifiers bound the state: contracts, payments and bills are
created and never deleted, and `ContractLeft`, `NameLeft` and `BillsLeft` let a
request begin only while one is left for it, so that no request gets stuck on the
bound. Two of each row is what a confusion of rows takes; a second contract of a
tenant, a second payment of a bill, a bill generated twice all occur. Two
requests in flight are what a race of two statements takes. In `Files` names of
files are given again once nothing refers to them (`Fresh`), `NamesLeft` and
`TicketLeft` keep a name and a ticket for every request in flight, and a ticket of
two photos has a first one to clean up when the second fails; its run may stop, since
orphaned files and tickets stay and use up the names (`CHECK_DEADLOCK FALSE`). The concurrent
tenancy run has one contract, because two requests with two contracts and faults
exceed what can be enumerated in minutes; the theorems cover the rest. Symmetry is
used for identifiers no formula tells apart, and not in the runs with liveness.

The clock of `MCLocks` and `MCGateway` stops at `MaxTime`, after the cache (of 2 ticks,
filled in 1) has been filled, has expired and has been filled again; for the limiter, after a clean-up has forgotten an address (`IdleTTL` 3). `MaxGap`
and `FetchTime` are deadlines of the code (two adjacent statements; the client's ten
seconds), not bounds of the model. One key is enough to be unknown, published and
withdrawn, and two issuers that both know it to confuse whose it is; in `MCGateway` one
of them rotates it and the other keeps it, or keeps lacking it (the theorems have both
rotate); one address, since the proof shows that addresses do not meet; two rooms
in two orders make the one deadlock two layouts can make. `MaxProperties` = 2 gives an
owner a first property and another, and one room number makes two rooms collide.
`MaxAnnouncements` = 1 and `MaxNotes` = 2 hold a fan-out to two targets or a ticket's
news beside an announcement's; `OneOfPeople` lets one registration or
rejection of a tenant run beside the writers, which is what it takes to delete a profile
during a fan-out. `UpdateTicket` sets `resolved`, over the `open` of a new ticket.

**Serial and concurrent.** `Serial = TRUE` lets a request begin only when none is
in flight. It is not something the code enforces. `Payments` has no such switch: two of
its properties are promised until `overlapped` is true. Properties checked only of
requests that do not overlap (rooms agree with contracts, a paid bill has a confirmed
payment, amounts follow charges) say what the operations mean; with two requests in flight the code
breaks them, in ways no document of the repository denies:

- two check-ins of one room both find it vacant, and two contracts are active on it;
- two requests on one tenant overwrite each other's columns with what they read;
- `UpdateRoom` without a status writes back `vacant` over `occupied`;
- a rejection that read a payment as pending overwrites its confirmation;
- a submission that read a bill as unpaid makes it pending after it was paid;
- two `UpdateUtilities` of a bill leave charges of both and the amount of one;
- a contract terminated after `GenerateBills` listed it is billed;
- a receipt read before and after a rejection has no date;
- two check-outs of one contract each record and log a refund, and the contract holds the
  later one: `AuditedRefundIsRecorded` fails without a fault.

Faults break `OccupancyInvariant` in a serial run as well: a check-in that dies
after the insert leaves an active contract on a vacant room. In
`Payments` a lost reply of an insert makes the code delete the proof of a payment that
exists, and a process that dies between upload and insert leaves a file behind:
`ProofStored` and `NoOrphanProof` excuse just those payments, and hold for all others in
the same run. A bill whose update failed after its payment was confirmed stays pending,
since `ConfirmPayment` refuses a second time; no property denies it.

**Fairness.** Liveness is checked where requests wait for one another, in `MCLocks`. No
fairness makes a client send a request.

`KeyFairness` gives a request that holds or needs no lock weak fairness (its goroutine
runs, and its fetch ends by the client's timeout) and one that wants the lock strong
fairness: others may take it in between, but `sync.RWMutex` hands itself to those who
wait. With it `EveryTokenDecided` holds although every request may expire the cache
of the others; the one retry the code allows is why. `LayoutFairness` is weak for the
commit, strong for a row lock (PostgreSQL queues those who wait), weak for
`AbortDeadlocked` (`deadlock_timeout` expires). A failing statement, a rotation of keys,
a clean-up or the tick of the clock is never made to happen. `MCLocks` states both; the
component that does not move enables no step that its fairness names.

## Disagreements with the repository's own words

1. `tenant_property_test.go:6-9` states that occupied rooms and active contracts
   of a property are equally many. `Checkin` never compares the property in the
   body with the room's (`tenant.go:243-262`), so an owner of two properties breaks it.
2. `billing.go:32` says that a paid bill takes no payment. Rejecting the second of
   two payments resets the bill that the first one settled (`billing.go:473`).
3. `tenant.go:346` says that `Checkout` "optionally records a deposit refund, and writes
   an audit log". When the write of the refund fails, its error is discarded
   (`tenant.go:411-413`) and the entry still carries the amount (`tenant.go:442`): the log
   reports a refund that the contract does not hold.
4. `handler/tenant_portal.go:244-245` announces up to 3 photo attachments and
   `service/tenant_portal.go:237` a delegation to `TicketService.CreateTicket`.
   `CreateMyTicket` counts the photos, inserts the ticket itself and drops them.

Facts met while modelling that have no run of their own, most because they show at once
or need no step of another actor:

- `billing.go:102` speaks of skipped duplicates. Nothing detects one, and a bill
  generated twice is there twice.
- `billing_property_test.go:8` states that a total is the base and the charges.
  `GenerateBills` passes NULL where the column default is 0, and the generated total is
  NULL. `UpdateUtilities` looks at no status: a paid bill is charged again and stays paid.
- `auth.go:216` says "Force refresh and retry once". Between the two a request whose token
  names another issuer may refill the one cache with its own issuer's keys, and a key that
  has been published all the time is reported as not found: what `PublishedKeyIsKnown`
  excepts (`bearer.from # bearer.iss`), and TLC finds it with the exception taken out.
- `room_service.go:28` promises the rooms that are not archived; the query returns all.
- `notification_service.go:47` promises `ErrNotFound`, which is never returned.
- `ratelimit.go:102` and its like say "100 req/min". `WindowBound` is what holds: the
  burst and the refill, so almost 200 in the first minute.
- `service/auth.go:142` says that `Approve` activates a profile; it reads it and sends an
  e-mail. `Reject` sends its e-mail first and may then fail to delete the profile.
- The e-mails of a goroutine (`billing.go:402`, `ticket.go:366`) read the database with
  the context of a request that is over; most of them will not go out.
- `UpdateTicket` without a resolution resets the one there was.
- `cmd/api/main.go:65` calls `NewPropertyService` with two arguments; it takes one. The
  route of `Register` has no `Auth` before it, so that the handler finds no user and
  answers 401. No route leads to `ArchiveProperty`, `ArchiveRoom` or
  `RecordDepositRefund`; the first two are modelled as the services write them.

## Proofs

`OccupancyProofs` proves, for every value of the constants that meets
`ConstantsAssumption` and `NoneIsNoRow` (NULL is no row; amounts are naturals):

| Theorem | Statement | Argument |
| --- | --- | --- |
| `TypeCorrect` | `Spec => []TypeOK` | `TypeOK` is inductive: it says what a request holds at every program counter (`RequestOK`) and that the contract it works on has a row |
| `RefundsAreCovered` | `Spec => []RefundWithinDeposit` | the strengthening `RefundInv`: between the check and the refund a request holds a contract whose deposit covers its amount, and the contract is terminated before the refund is written. The check compares the unrounded amount with a rounded deposit; `CentsMonotone` and `CentsIdempotent` close the gap |
| `ImplementsLedger` | `Spec => LedgerSpec` | step simulation: three actions change `contract`, each maps to `Sign`, `Terminate` or `Refund` by the same invariant, all others stutter |
| `BlacklistIsPermanent` | `Spec => BlacklistPermanent` | no action but `BlacklistFlag` writes the flag |
| `NoneSignedOnceBlacklisted` | `Spec => NoContractAfterBlacklist` | the strengthening `BarredInv`: a check-in past its check of the tenant did not arrive after the blacklisting, since the flag is never taken back |
| `AuditIsTrue` | `Spec => []AuditTellsTheTruth` | `AuditInv`: a request about to log has done what it logs (`Truthful`), and a terminated contract and a blacklisted tenant stay so. Past the termination the deposit still covers the rounded refund (`Ended`), which is all that can be said of the amount: its own write may have been lost |

`TypeOK` and `RefundWithinDeposit` alone are not inductive for the refund: that a
request at `co_refund` has passed its check two statements earlier is exactly what
`RefundInv` adds. None of these theorems assumes `Serial` or the absence of faults.

`OccupancySerialProofs` proves what the operations mean when none overlaps another:

| Theorem | Assumes | States | Argument |
| --- | --- | --- | --- |
| `ColumnsAreOwn` | `Serial` | `Spec => OwnColumnsOnly` | `FreshInv`: at most one request is in flight, so the copy of the row it holds is the row, and writing all of it back changes only what the request set |
| `RefundsAreFinal` | `Serial` | `Spec => RefundRecordedOnce` | `FreshInv`: a request about to refund found an active contract, which has had no refund |
| `AuditedRefundsAreRecorded` | `Serial`, no fault | `Spec => []AuditedRefundIsRecorded` | `EntryInv`: a check-out about to refund found an active contract, which no entry speaks of; past the refund the contract holds what the request will log |
| `LinkedTenantsHaveContracts` | `Serial`, no fault | `Spec => []LinkedTenantHasContract` | `LinkInv`: a tenant with a room has an active contract on it or is half-way through a check-out |
| `RoomsFollowContracts` | `Serial`, no fault, no status in `UpdateRoom` | `Spec => []OccupancyInvariant` | `RoomInv`: a room is in step with its contracts but between the two writes of a check-in and of a check-out (`InStep`); a check-in found its room vacant and it still is (`RoomOK`), so one contract at most is active on it |

Each assumption is needed; *Serial and concurrent* above says what happens without.

`PaymentsProofs` proves, for any number of bills, payments and requests in flight:

| Theorem | Statement | Argument |
| --- | --- | --- |
| `TypeCorrect` | `Spec => []TypeOK` | `TypeOK` is not inductive (nor is `TablesOK`, its part about the tables): an insert under a name two requests held would move a payment to another bill under the feet of the first. `NamesInv` says why none does: a name in use is taken in the bucket, and no two submissions hold the same |
| `PaidBillsWereEarned` | `Spec => []PaidWasEarned` | `ConfirmedInv`: a request at `cf_bill` or `cf_audit` has confirmed its payment, which `TypeOK` says is of the bill it sets; rows are never deleted or moved (`RowsStay`) |
| `AuditIsTrue` | `Spec => []AuditTellsTheTruth` | the same invariants: the entry is written by a request that still holds what it inserted or confirmed |
| `ProofsAreKept` | `Spec => []ProofStored` | `ProofInv`: the clean-up is reached only with no row under the name, or with one that is `unsure`; `NamesInv` keeps two submissions apart |
| `NothingIsOrphaned` | `Spec => []NoOrphanProof` | `OwnedInv`: a file without a row is in the hands of a submission on its way to the insert or the clean-up, or it is `astray` |
| `PaidBillsAreSettled` | `Spec => []PaidBillHasConfirmedPayment` | `SerialInv`: until two requests have overlapped, `ReadInv` holds: what the one request in flight has read still holds when it writes, so a rejection never takes back a confirmation, and a bill is settled for a confirmed payment |
| `ReceiptsAreDated` | `Spec => []ReceiptIsDated` | the same: a receipt is written of a bill that is still paid, and so has a payment with a date |

All of them hold under any faults. That `ProofStored` must except `unsure` is the one
thing the code gets wrong here: a lost reply makes it delete the proof of a payment that
exists.

`BillingProofs` proves, for any contracts, bills, periods and prices that meet the
assumptions of `Billing` (NULL is no row; amounts are naturals), and under any faults:

| Theorem | Statement | Argument |
| --- | --- | --- |
| `TypeCorrect` | `Spec => []TypeOK` | inductive, once it says that a request past its lookup holds a bill with a row: rows are never deleted |
| `EveryContractIsBilled` | `Serial` implies `Spec => EveryActiveContractBilled` | `BilledInv`: of the active contracts, the loop still has to do those that it has neither skipped nor billed. With another request at work a contract may become active behind its back |
| `UtilitiesMatch` | `Serial`, charges in whole cents, imply `Spec => []UtilityMatchesCharges` | `ChargeInv`: while a request inserts, its running total is the sum of what it has inserted (`Halfway`), and one that ends there leaves its bill in `torn` |

Whole cents (`Whole`) are needed: each charge is rounded by itself and the total is the
rounding of the unrounded sum, so that two charges of half a cent do not add up.

`FilesProofs` proves, for any files, tickets, requests in flight and faults, and any
`MaxPhotos`:

| Theorem | Statement | Argument |
| --- | --- | --- |
| `TypeCorrect` | `Spec => []TypeOK` | `TypeInv`: `TypeOK` is not inductive, for that an answer lists at most `MaxPhotos` attachments takes the count of files uploaded and still to upload since the ticket was inserted (`Awaited`), and that no two requests work for one ticket |
| `AnswersTrue` | `Spec => []AnswersAreTrue` | `FilesInv`: a file is in the hands of one request (`Apart`), in no answer (`Secret`) and under no row but that request's own (`Uploaded`) until the request answers; a clean-up deletes only what is in its hands; the attachment rows of a ticket are the files uploaded for it but the last (`Recorded`), so their number is that of the answer (`Counted`) |
| `NothingIsOrphaned` | `Spec => []NoOrphanFile` | the same: `Reached` says of each file that a row, an answer or a request has it, or a storage error or a dying process has taken it from the code (`astray`); `Deleted`, that a photo loses its row only after its file |

One name may be used again for another file when nothing refers to it any more, so none
of this holds by counting names: it is `Secret` that keeps a clean-up from a file that
someone else has been told of.

`EstateProofs` proves, for any number of properties, rooms, tenants, rows and requests:

| Theorem | Statement | Argument |
| --- | --- | --- |
| `RoomTypesAreOfProperty` | `EstateSpec => []RoomTypeIsOfProperty` | `TypesInv`: at `room_write` a request holds a type of its property (`TypeFound`); `RowsInv`: until then its new room is nobody else's, and a room that has a row stays in its property |
| `ArchivesAreWhole` | `EstateSpec => []ArchivedWithItsRooms` | `HeldInv`: what a property has had since a request to archive it came is still its own before the statement on that table and archived after it (`HeldBy`), and nothing brings an archived row back |
| `BillingIsOfFirst` | `EstateSpec => []BillingOfFirstProperty` | `FirstInv`: properties come in the order of their numbers and never reopen, so one that was the first when it was looked up has only archived ones before it when it is written |
| `ExportsAreComplete` | `ExportSpec => []ExportHasItsParents` | `ReadInv`: past a table, an export has what was there when it came and is still open, since an archived property never opens again; `ParentsInv`: so each row finds its property and bill there |
| `TypesAreBounded` | `Requests` finite implies `Spec => []TypeOK` (of `MCEstate`) | `RaceInv`: the types of a property and the requests that may still create one (`Racing`) are together no more than the requests. A request joins the race only where there is no type, and leaves it by creating one |

They need `EstateAssumption` and `NoneIsNoRow`, and for `Export` that a primary key
names one row (`ExportAssumption`, `NamesAreDistinct`). `EstateTyped`, the type
invariant they rest on, is `EstateTypeOK` without the bound on `types`, which
`TypesAreBounded` adds.

`LocksProofs` proves, for any number of requests, issuers, keys, ticks, rooms and layouts:

| Theorem | Statement | Argument |
| --- | --- | --- |
| `RetiredKeysAreDropped` | `KeySpec => []RetiredKeyBound` | `AgeInv`: what a fetch has got was still published by its issuer when it began, it began at most `FetchTime` ago, and the cache expires `CacheTTL` after it was filled |
| `PublishedKeysAreKnown` | `KeySpec => []PublishedKeyIsKnown` | `KnownInv`: once a request has expired the cache for a key that its issuer still publishes, the cache is empty, was filled by another issuer, or has that key, and whoever is about to fill it with that issuer's keys has it too (`WillFind`). What another issuer sent is left open: over that a request may be refused. The rest holds because expiring needs the lock that a fetch keeps: a fetch that stores later has begun later |
| `OneFetches` | `KeySpec => FetchedOnce` | `ExpiredInv`: who holds the write lock has seen the cache expired, and only the holder refills it |
| `LayoutsAreWhole` | `LayoutSpec => LayoutIsWhole` | `LoopInv`: what is written and what is left to write is what the layout named, so a commit writes all of it |
| `LocksAreExclusive` | `Spec => []TypeOK` (of `MCLocks`) | `KeyTypeOK` is inductive and says that the write lock is held by the one request that fetches. `RowInv`: a transaction writes a row only when no other has written it (`LockedOnce`), and one without a layout has written none |

They assume `KeyCacheAssumption`, `MaxTimeIsNatural` and `LayoutAssumption`.

`GatewayProofs` needs the assumptions of the constants alone:

| Theorem | Statement | Argument |
| --- | --- | --- |
| `AdmissionIsBounded` | `LimiterSpec => []WindowBound` | `BudgetInv`: what was let through and what is left stay within the budget together (`Left` is `Burst` for an address without a bucket). The clean-up keeps it because a bucket it drops was full: it was last taken from at most `MaxGap` after its address was seen (`TakenWhenSeen`), and `IdleTTL` is longer than that and the filling. No request holds a dropped bucket: one that was handed a bucket asks it soon (`HandedIsRecent`), and it is the bucket of its address (`HandedIsCurrent`) |
| `RolesAreKept` | `PeopleSpec => []RoleKept` | `PeopleTypeOK /\ RoleKept` is inductive: where the upsert finds no row, `RoleKept` says that nobody has been told a role |
| `NewsAreTrue` | `OutboxSpec => []NewsIsTrue` | `NewsInv`: notifications and the statuses a ticket has had only grow; a request has set the status it speaks of (`DoneBy`), and who counts as notified has the row |
| `RowsReferToProfiles` | `Spec => []TypeOK` (of `MCGateway`) | `OutboxInv`: an insert links the profile it refers to (`InsertLinks`), links are never taken back, and a linked profile is not deleted; a request at work on an announcement has its number (`Numbered`) |

In the three composed specifications a component that does not move leaves its
variables alone, so each keeps the invariant of its own module.

Only model-checked: the liveness properties `EveryTokenDecided` and `LayoutEnds` (fairness and ENABLED are out of the provers'
reach), and what `Cents` does to binary fractions, which no module models. Of the
properties that the code violates only `AuditedRefundIsRecorded` has a theorem, under the
assumptions that make it true; the others have counterexamples.

## Not modelled

Callers who are turned away before anything is written, request validation,
pagination, lists, reports and the layout of documents; the text of e-mails and of audit
entries (but the refund in one), and how often one is written. The status `overdue` of a bill and `expired` of a
contract are in the schema and no code sets them. PostgreSQL is taken to execute a
statement atomically and to see all earlier ones (READ COMMITTED).

- `RecordDepositRefund`, which no route calls; the queries `CreateTenant`,
  `CreateStaffPermissions` and `MarkInvitationUsed`, which nothing calls, and therefore
  `RemoveStaff`, which deletes from a table that stays empty.
- Read marks (`is_read`): one statement each, and nothing else looks at them.
- The e-mails of payments and registration: like those of `Outbox`, without a state
  that could make them untrue.
- The contract expiry scheduler: nothing starts it. If it ran, every start would send
  every reminder again, since nothing records what was sent.
- Contract templates are single rows. The placeholders in them are replaced in the
  random order of a Go map, which matters only where a value contains another
  placeholder.
- Row-level security concerns clients of the database other than this program.
  Configuration, logging and start-up keep no state.

## Plan

The components that are left are those under *Not modelled*. Next:

1. Proofs: the action properties that follow from the invariants at hand and no run
   states yet (attachments of an answered ticket stay; a receipt is issued for a paid
   bill), and the theorems of the composition below.
2. `Tenancy`, a composition: `Occupancy` with `GenerateBills` reading its contracts
   and `ArchiveProperty` archiving its rooms, to replace the environments of `Billing`
   and `Estate`.
3. The order in which `populatePlaceholders` replaces, as a fold in any order.
