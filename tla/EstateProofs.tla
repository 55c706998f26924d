---------------------------- MODULE EstateProofs ----------------------------
(***************************************************************************)
(* The owner's side, for any number of properties, rooms, tenants, rows    *)
(* and requests in flight.                                                 *)
(*                                                                         *)
(* Export: a property that an export has rows of was open when it read the *)
(* properties, because an archived one is never opened again.              *)
(*                                                                         *)
(* Estate: requests write what they read statements ago.  It is still true *)
(* when they write it because a room never changes its property, a type is *)
(* never deleted and nothing archived comes back.  Types of one name are   *)
(* counted together with the requests that may still create one.           *)
(***************************************************************************)
EXTENDS MCEstate, FiniteSetTheorems, TLAPS

-----------------------------------------------------------------------------
(* Export *)

\* The tables an export reads after the properties, and after the bills.
PastProperties == {"rooms", "tenants", "contracts", "bills", "payments", "answered"}
PastBills      == {"payments", "answered"}

\* Of the properties still open, an export has those that existed when it came, and
\* then their bills.
ReadInv ==
    /\ reading \in PastProperties => open \cap ready \subseteq exported
    /\ reading \in PastBills =>
          \A b \in stored \cap ready :
              b.table = "bills" /\ b.estate \in open => b \in exported

\* What an export has is complete upwards, at every point of its reading.
ParentsInv ==
    \A x \in exported \cap Records :
        /\ x.estate \in ready => x.estate \in exported
        /\ x.bill \in ready => x.bill \in exported

\* A property or bill is no younger than the rows that name it.
ExportInv ==
    /\ ExportTypeOK
    /\ \A x \in stored : x.estate \in open \cup closed
    /\ reading = "idle" => exported = {}
    /\ reading = "properties" => exported = {}
    /\ ReadInv
    /\ ParentsInv

\* A read adds rows of open properties, and keeps what is complete complete.
LEMMA ReadKeepsParents ==
    ASSUME ExportInv, NEW t \in Tables, NEW next, reading = t,
           Read(t, InLiveProperty(t), next) \/ Read(t, InLiveProperty(t) \ shut, next)
    PROVE  ParentsInv'
<1> USE ExportAssumption, NamesAreDistinct
<1>1. PICK rows : rows \subseteq InLiveProperty(t) /\ exported' = exported \cup rows
  BY DEF Read
<1>2. ready' = ready
  BY DEF Read
<1> SUFFICES ASSUME NEW x \in exported' \cap Records
             PROVE  /\ x.estate \in ready => x.estate \in exported'
                    /\ x.bill \in ready => x.bill \in exported'
  BY <1>2 DEF ParentsInv
<1>3. CASE x \in exported
  BY <1>1, <1>3 DEF ExportInv, ParentsInv
<1>4. CASE x \in rows
  <2>1. x \in stored /\ x.table = t /\ x.estate \in open
    BY <1>1, <1>4 DEF InLiveProperty
  <2>2. x.estate \in ready => x.estate \in exported
    <3>1. reading \in PastProperties
      BY DEF Tables, PastProperties
    <3> QED BY <2>1, <3>1 DEF ExportInv, ReadInv
  <2>3. x.bill \in ready => x.bill \in exported
    <3>1. CASE x.table = "payments"
      <4>1. x.bill \in Records /\ x.bill.table = "bills" /\ x.bill.estate = x.estate
        BY <3>1
      <4>2. x.bill \in ready => x.bill \in stored
        BY <4>1 DEF ExportInv, ExportTypeOK
      <4>3. reading \in PastBills
        BY <2>1, <3>1 DEF PastBills
      <4> QED BY <2>1, <4>1, <4>2, <4>3 DEF ExportInv, ReadInv
    <3>2. CASE x.table # "payments"
      <4>1. x.bill = NoBill
        BY <3>2
      <4>2. NoBill \notin ready
        BY DEF ExportInv, ExportTypeOK
      <4> QED BY <4>1, <4>2
    <3> QED BY <3>1, <3>2
  <2> QED BY <1>1, <2>2, <2>3
<1> QED BY <1>1, <1>3, <1>4

\* A read of an open property's rows keeps the whole invariant.
LEMMA ReadKeepsExportInv ==
    ASSUME ExportInv,
           \/ ExportRooms \/ ExportTenants \/ ExportContracts \/ ExportBills
           \/ ExportPayments
    PROVE  ExportInv'
<1> USE ExportAssumption, NamesAreDistinct
<1>1. PICK t \in Tables :
          /\ reading = t
          /\ exported' \subseteq exported \cup InLiveProperty(t)
          /\ exported \subseteq exported'
          /\ t = "bills" => InLiveProperty(t) \subseteq exported'
          /\ reading' \in PastProperties
          /\ reading' \in PastBills => t \in {"bills", "payments"}
          /\ UNCHANGED <<tablesOfExport, ready>>
  <2> USE DEF Tables
  <2>1. CASE ExportRooms
    <3> WITNESS "rooms" \in Tables
    <3> QED BY <2>1 DEF ExportRooms, Read, PastProperties, PastBills
  <2>2. CASE ExportTenants
    <3> WITNESS "tenants" \in Tables
    <3> QED BY <2>2 DEF ExportTenants, Read, PastProperties, PastBills
  <2>3. CASE ExportContracts
    <3> WITNESS "contracts" \in Tables
    <3> QED BY <2>3 DEF ExportContracts, Read, PastProperties, PastBills
  <2>4. CASE ExportBills
    <3> WITNESS "bills" \in Tables
    <3> QED BY <2>4 DEF ExportBills, Read, PastProperties, PastBills
  <2>5. CASE ExportPayments
    <3> WITNESS "payments" \in Tables
    <3> QED BY <2>5 DEF ExportPayments, Read, PastProperties, PastBills
  <2> QED BY <2>1, <2>2, <2>3, <2>4, <2>5
<1>2. ParentsInv'
  BY ReadKeepsParents
     DEF ExportRooms, ExportTenants, ExportContracts, ExportBills, ExportPayments, Read, Tables
<1>3. ExportTypeOK'
  <2>1. exported' \subseteq open \cup closed \cup stored
    BY <1>1 DEF InLiveProperty, ExportInv, ExportTypeOK
  <2>2. reading' \in Tables \cup {"idle", "properties", "answered"}
    BY <1>1 DEF PastProperties, Tables
  <2> QED BY <1>1, <2>1, <2>2 DEF tablesOfExport, ExportInv, ExportTypeOK
<1>4. reading \in PastProperties /\ reading' # "idle" /\ reading' # "properties"
  BY <1>1 DEF PastProperties, Tables
<1>5. ReadInv'
  <2>1. open' \cap ready' \subseteq exported'
    BY <1>1, <1>4 DEF tablesOfExport, ExportInv, ReadInv
  <2>2. ASSUME reading' \in PastBills, NEW b \in stored \cap ready, b.table = "bills",
               b.estate \in open
        PROVE  b \in exported'
    <3>1. CASE reading = "bills"
      BY <1>1, <2>2, <3>1 DEF InLiveProperty
    <3>2. CASE reading = "payments"
      BY <1>1, <2>2, <3>2 DEF PastBills, ExportInv, ReadInv
    <3> QED BY <1>1, <2>2, <3>1, <3>2
  <2> QED BY <1>1, <2>1, <2>2 DEF tablesOfExport, ReadInv
<1> QED BY <1>1, <1>2, <1>3, <1>4, <1>5 DEF tablesOfExport, ExportInv

\* No step of the export or of the rest of the system disturbs the invariant.
LEMMA ExportInductive ==
    ASSUME ExportInv, ExportNext
    PROVE  ExportInv'
<1> USE ExportAssumption, NamesAreDistinct
<1>1. CASE BeginExport
  <2>1. exported = {}
    BY <1>1 DEF BeginExport, ExportInv
  <2> QED BY <1>1, <2>1 DEF BeginExport, tablesOfExport, ExportInv, ExportTypeOK, ReadInv,
            ParentsInv, PastProperties, PastBills
<1>2. CASE ExportProperties
  <2>1. exported = {} /\ exported' = open /\ reading' = "rooms"
        /\ UNCHANGED <<tablesOfExport, ready>>
    BY <1>2 DEF ExportProperties, Read, ExportInv
  <2>2. exported' \cap Records = {}
    BY <2>1 DEF ExportInv, ExportTypeOK
  <2> QED BY <2>1, <2>2 DEF tablesOfExport, ExportInv, ExportTypeOK, ReadInv, ParentsInv,
            PastBills, Tables
<1>3. CASE ExportRooms \/ ExportTenants \/ ExportContracts \/ ExportBills \/ ExportPayments
  BY <1>3, ReadKeepsExportInv
<1>4. CASE Answer \/ FailExport
  BY <1>4 DEF Answer, FailExport, tablesOfExport, ExportInv, ExportTypeOK, ReadInv,
     ParentsInv, PastProperties, PastBills
<1>5. ASSUME NEW p \in Estates, OpenProperty(p)
      PROVE  ExportInv'
  <2>1. p \notin ready
    BY <1>5 DEF OpenProperty, ExportInv, ExportTypeOK
  <2>2. \A b \in stored : b.estate # p
    BY <1>5 DEF OpenProperty, ExportInv
  <2> QED BY <1>5, <2>1, <2>2 DEF OpenProperty, ExportInv, ExportTypeOK, ReadInv, ParentsInv
<1>6. ASSUME NEW p \in Estates, CloseProperty(p)
      PROVE  ExportInv'
  BY <1>6 DEF CloseProperty, ExportInv, ExportTypeOK, ReadInv, ParentsInv
<1>7. ASSUME NEW x \in Records, InsertRecord(x)
      PROVE  ExportInv'
  <2>1. x \notin ready
    BY <1>7 DEF InsertRecord, ExportInv, ExportTypeOK
  <2> QED BY <1>7, <2>1 DEF InsertRecord, ExportInv, ExportTypeOK, ReadInv, ParentsInv
<1>8. ASSUME NEW x \in Records, CloseRoom(x)
      PROVE  ExportInv'
  BY <1>8 DEF CloseRoom, ExportInv, ExportTypeOK, ReadInv, ParentsInv
<1> QED BY <1>1, <1>2, <1>3, <1>4, <1>5, <1>6, <1>7, <1>8 DEF ExportNext

\* Before the first request an export has nothing.
LEMMA ExportInitially == ExportInit => ExportInv
BY DEF ExportInit, ExportInv, ExportTypeOK, ReadInv, ParentsInv, PastProperties, PastBills

\* No step, and no stutter, disturbs the invariant.
LEMMA ExportKept ==
    ASSUME ExportInv, [ExportNext]_exportVars
    PROVE  ExportInv'
<1>1. CASE UNCHANGED exportVars
  BY <1>1 DEF exportVars, ExportInv, ExportTypeOK, ReadInv, ParentsInv
<1> QED BY <1>1, ExportInductive

\* Whatever is inserted and archived between its six reads, an export has the property
\* of every row and the bill of every payment it has, unless they are younger than it.
THEOREM ExportsAreComplete == ExportSpec => []ExportHasItsParents
<1>1. ExportInv => ExportHasItsParents
  BY DEF ExportInv, ParentsInv, ExportHasItsParents
<1> QED BY <1>1, ExportInitially, ExportKept, PTL DEF ExportSpec

-----------------------------------------------------------------------------
(* Estate: types *)

RoomSteps == {"type_get", "type_create", "room_write", "room_archive"}

RequestTyped(q) ==
    /\ pc[q] \in Steps
    /\ req[q] \in Request
    /\ pc[q] \in RoomSteps => req[q].room \in Rooms

\* The types of EstateTypeOK, without its bound on the number of types.
EstateTyped ==
    /\ property \in [Properties -> PropertyRow]
    /\ room \in [Rooms -> RoomRow \cup {None}]
    /\ types \in [Properties -> Nat]
    /\ tenant \in [Tenants -> TenantRow]
    /\ pc \in [Requests -> Steps]
    /\ req \in [Requests -> Request]
    /\ covered \in [Properties -> SUBSET (Rooms \cup Tenants)]
    /\ \A q \in Requests : RequestTyped(q)

\* The rooms that requests work on: a new one has no row and is no one else's, any other
\* has a row of the request's property.
RoomOf(q) ==
    /\ pc[q] = "room_archive" => room[req[q].room] # None
    /\ pc[q] \in {"type_get", "type_create", "room_write"} =>
          IF req[q].new THEN room[req[q].room] = None
          ELSE room[req[q].room] # None /\ room[req[q].room].property = req[q].property

RowsInv ==
    /\ \A q \in Requests : RoomOf(q)
    /\ \A q, o \in Requests :
          q # o /\ req[q].new /\ req[o].new => req[q].room # req[o].room

\* A request that has not begun is of the type of a request.
LEMMA NoRequestTyped ==
    /\ 1 \in Properties
    /\ NoRequest \in Request
    /\ NoRequest.new = FALSE
    /\ NoRequest.held = {}
<1>1. 1 \in Properties
  BY EstateAssumption DEF Properties
<1>2. [property |-> 1, n |-> 1] \in RoomType
  BY <1>1 DEF RoomType
<1>3. (CHOOSE n \in Numbers : TRUE) \in Numbers
  BY EstateAssumption
<1> QED BY <1>1, <1>2, <1>3 DEF NoRequest, Request

\* A request begins with what its handler has given it.
LEMMA BeginTyped ==
    ASSUME EstateTyped, NEW q \in Requests, NEW l \in Steps, NEW r \in Request,
           l \in RoomSteps => r.room \in Rooms, Begin(q, l, r), UNCHANGED tables
    PROVE  EstateTyped'
  BY DEF Begin, tables, EstateTyped, RequestTyped

\* A request that has ended holds nothing.
LEMMA FinishTyped ==
    ASSUME EstateTyped, NEW q \in Requests, Finish(q)
    PROVE  /\ pc' \in [Requests -> Steps]
           /\ req' \in [Requests -> Request]
           /\ \A o \in Requests : RequestTyped(o)'
           /\ pc'[q] = "idle" /\ req'[q] = NoRequest
           /\ \A o \in Requests \ {q} : pc'[o] = pc[o] /\ req'[o] = req[o]
<1>1. "idle" \in Steps /\ "idle" \notin RoomSteps
  BY DEF Steps, RoomSteps
<1> QED BY <1>1, NoRequestTyped DEF Finish, Goto, EstateTyped, RequestTyped

\* A request that goes on with what it has.
LEMMA GotoTyped ==
    ASSUME EstateTyped, NEW q \in Requests, NEW l \in Steps, Goto(q, l), req' = req,
           l \in RoomSteps => req[q].room \in Rooms
    PROVE  /\ pc' \in [Requests -> Steps]
           /\ \A o \in Requests : RequestTyped(o)'
           /\ pc'[q] = l
           /\ \A o \in Requests \ {q} : pc'[o] = pc[o]
  BY DEF Goto, EstateTyped, RequestTyped

\* Every operation begins with a well-typed request.
LEMMA BeginsTyped ==
    ASSUME EstateTyped, NEW q \in Requests, BeginSome(q)
    PROVE  EstateTyped'
<1> USE NoRequestTyped
<1>1. ASSUME NEW p \in Properties,
             \/ BeginUpdateProperty(q, p) \/ BeginProfileSettings(q, p)
             \/ BeginBillingSettings(q, p)
      PROVE  EstateTyped'
  <2>1. [NoRequest EXCEPT !.property = p] \in Request
    BY DEF Request
  <2>2. {"profile", "billing"} \subseteq Steps \ RoomSteps
    BY DEF Steps, RoomSteps
  <2> QED BY <1>1, <2>1, <2>2, BeginTyped
      DEF BeginUpdateProperty, BeginProfileSettings, BeginBillingSettings
<1>2. ASSUME NEW p \in Properties, BeginArchiveProperty(q, p)
      PROVE  EstateTyped'
  <2>1. [NoRequest EXCEPT !.property = p, !.held = RoomsOf(p) \cup TenantsOf(p)] \in Request
    BY DEF Request, RoomsOf, TenantsOf
  <2>2. "tenants" \in Steps \ RoomSteps
    BY DEF Steps, RoomSteps
  <2> QED BY <1>2, <2>1, <2>2, BeginTyped DEF BeginArchiveProperty
<1>3. ASSUME NEW p \in Properties, NEW r \in Rooms, NEW n \in Numbers,
             BeginCreateRoom(q, p, r, n)
      PROVE  EstateTyped'
  <2> DEFINE x == [NoRequest EXCEPT !.property = p, !.room = r, !.number = n, !.new = TRUE]
  <2>1. x \in Request /\ x.room = r
    BY DEF Request
  <2>2. "type_get" \in Steps
    BY DEF Steps
  <2> QED BY <1>3, <2>1, <2>2, BeginTyped DEF BeginCreateRoom
<1>4. ASSUME NEW r \in Rooms, NEW n \in Numbers, BeginUpdateRoom(q, r, n)
      PROVE  EstateTyped'
  <2> DEFINE x == [NoRequest EXCEPT !.property = room[r].property, !.room = r, !.number = n]
  <2>1. room[r].property \in Properties
    BY <1>4 DEF BeginUpdateRoom, EstateTyped, RoomRow
  <2>2. x \in Request /\ x.room = r
    BY <2>1 DEF Request
  <2>3. "type_get" \in Steps
    BY DEF Steps
  <2> QED BY <1>4, <2>2, <2>3, BeginTyped DEF BeginUpdateRoom
<1>5. ASSUME NEW r \in Rooms, BeginArchiveRoom(q, r)
      PROVE  EstateTyped'
  <2> DEFINE x == [NoRequest EXCEPT !.room = r]
  <2>1. x \in Request /\ x.room = r
    BY DEF Request
  <2>2. "room_archive" \in Steps
    BY DEF Steps
  <2> QED BY <1>5, <2>1, <2>2, BeginTyped DEF BeginArchiveRoom
<1> QED BY <1>1, <1>2, <1>3, <1>4, <1>5 DEF BeginSome

\* Every statement writes well-typed rows.
LEMMA ProceedTyped ==
    ASSUME EstateTyped, RowsInv, NEW q \in Requests, Proceed(q)
    PROVE  EstateTyped'
<1> USE NoRequestTyped
<1>0. req[q] \in Request /\ req[q].property \in Properties /\ RequestTyped(q)
  BY DEF EstateTyped, Request
<1>1. CASE WriteProfile(q) \/ DuplicateNumber(q)
  BY <1>1, FinishTyped DEF WriteProfile, DuplicateNumber, tables, EstateTyped
<1>2. CASE WriteBilling(q)
  <2>1. property' \in [Properties -> PropertyRow]
    BY <1>0, <1>2 DEF WriteBilling, EstateTyped, PropertyRow
  <2> QED BY <1>2, <2>1, FinishTyped DEF WriteBilling, EstateTyped
<1>3. CASE ArchiveTenants(q)
  <2>1. tenant' \in [Tenants -> TenantRow]
    BY <1>3 DEF ArchiveTenants, EstateTyped, TenantRow
  <2>2. "rooms" \in Steps \ RoomSteps
    BY DEF Steps, RoomSteps
  <2>3. Goto(q, "rooms") /\ UNCHANGED <<property, room, types, req, covered>>
    BY <1>3 DEF ArchiveTenants
  <2> QED BY <2>1, <2>2, <2>3, GotoTyped DEF EstateTyped
<1>4. CASE ArchiveRooms(q)
  <2>1. \A r \in RoomsOf(req[q].property) : [room[r] EXCEPT !.archived = TRUE] \in RoomRow
    BY DEF RoomsOf, EstateTyped, RoomRow
  <2>2. room' \in [Rooms -> RoomRow \cup {None}]
    BY <1>4, <2>1 DEF ArchiveRooms, EstateTyped
  <2>3. "property" \in Steps \ RoomSteps
    BY DEF Steps, RoomSteps
  <2>4. Goto(q, "property") /\ UNCHANGED <<property, types, tenant, req, covered>>
    BY <1>4 DEF ArchiveRooms
  <2> QED BY <2>2, <2>3, <2>4, GotoTyped DEF EstateTyped
<1>5. CASE ArchiveProperty(q)
  <2>1. property' \in [Properties -> PropertyRow]
    BY <1>0, <1>5 DEF ArchiveProperty, EstateTyped, PropertyRow, State
  <2>2. covered' \in [Properties -> SUBSET (Rooms \cup Tenants)]
    BY <1>0, <1>5 DEF ArchiveProperty, EstateTyped, Request
  <2> QED BY <1>5, <2>1, <2>2, FinishTyped DEF ArchiveProperty, EstateTyped
<1>6. CASE FindType(q)
  <2>1. PICK t \in TypesOf(req[q].property) : req' = [req EXCEPT ![q].type = t]
    BY <1>6 DEF FindType
  <2>2. t \in RoomType
    BY <1>0, <2>1 DEF TypesOf, RoomType, EstateTyped
  <2>3. [req[q] EXCEPT !.type = t] \in Request
    BY <1>0, <2>2 DEF Request
  <2>4. req' = [req EXCEPT ![q] = [req[q] EXCEPT !.type = t]]
    BY <2>1
  <2>5. req' \in [Requests -> Request]
    BY <2>3, <2>4 DEF EstateTyped
  <2>6. req'[q].room = req[q].room /\ req[q].room \in Rooms
    BY <1>0, <1>6, <2>4 DEF FindType, RequestTyped, RoomSteps, EstateTyped, Request
  <2>7. pc' \in [Requests -> Steps] /\ \A o \in Requests \ {q} : pc'[o] = pc[o] /\ req'[o] = req[o]
    BY <1>6, <2>4 DEF FindType, Goto, EstateTyped, Steps
  <2> QED BY <1>6, <2>5, <2>6, <2>7 DEF FindType, tables, EstateTyped, RequestTyped
<1>7. CASE MissType(q)
  <2>1. req[q].room \in Rooms /\ "type_create" \in Steps
    BY <1>0, <1>7 DEF MissType, RequestTyped, RoomSteps, Steps
  <2>2. Goto(q, "type_create") /\ UNCHANGED <<property, room, types, tenant, covered, req>>
    BY <1>7 DEF MissType
  <2> QED BY <2>1, <2>2, GotoTyped DEF EstateTyped
<1>8. CASE CreateRoomType(q)
  <2> DEFINE p == req[q].property
             t == [property |-> p, n |-> types[p] + 1]
  <2>1. /\ types' = [types EXCEPT ![p] = types[p] + 1]
        /\ req' = [req EXCEPT ![q] = [req[q] EXCEPT !.type = t]]
    BY <1>8 DEF CreateRoomType
  <2>2. types[p] \in Nat /\ t \in RoomType
    BY <1>0 DEF RoomType, EstateTyped
  <2>3. [req[q] EXCEPT !.type = t] \in Request
    BY <1>0, <2>2 DEF Request
  <2>4. req' \in [Requests -> Request] /\ types' \in [Properties -> Nat]
    <3>1. req \in [Requests -> Request] /\ types \in [Properties -> Nat]
      BY DEF EstateTyped
    <3>2. types[p] + 1 \in Nat
      BY <2>2
    <3> HIDE DEF p, t
    <3>3. req' \in [Requests -> Request]
      BY <2>1, <2>3, <3>1
    <3>4. types' \in [Properties -> Nat]
      BY <2>1, <3>1, <3>2
    <3> QED BY <3>3, <3>4
  <2>5. req'[q].room = req[q].room /\ req[q].room \in Rooms
    BY <1>0, <1>8, <2>1 DEF CreateRoomType, RequestTyped, RoomSteps, EstateTyped, Request
  <2>6. pc' \in [Requests -> Steps] /\ \A o \in Requests \ {q} : pc'[o] = pc[o] /\ req'[o] = req[o]
    BY <1>8, <2>1 DEF CreateRoomType, Goto, EstateTyped, Steps
  <2> QED BY <1>8, <2>4, <2>5, <2>6 DEF CreateRoomType, EstateTyped, RequestTyped
<1>9. CASE WriteRoom(q)
  <2>1. req[q].number \in Numbers /\ req[q].type \in RoomType /\ req[q].new \in BOOLEAN
        /\ req[q].room \in Rooms
    BY <1>0, <1>9 DEF WriteRoom, RequestTyped, RoomSteps, Request
  <2>2. [property |-> req[q].property, number |-> req[q].number, type |-> req[q].type,
         archived |-> ~req[q].new /\ room[req[q].room].archived] \in RoomRow
    BY <1>0, <2>1 DEF RoomRow
  <2>3. room' \in [Rooms -> RoomRow \cup {None}]
    BY <1>9, <2>1, <2>2 DEF WriteRoom, EstateTyped
  <2> QED BY <1>9, <2>3, FinishTyped DEF WriteRoom, EstateTyped
<1>10. CASE ArchiveRoom(q)
  <2>1. req[q].room \in Rooms /\ room[req[q].room] \in RoomRow
    BY <1>0, <1>10 DEF ArchiveRoom, RowsInv, RoomOf, RequestTyped, RoomSteps, EstateTyped
  <2>2. [room[req[q].room] EXCEPT !.archived = TRUE] \in RoomRow
    BY <2>1 DEF RoomRow
  <2>3. room' \in [Rooms -> RoomRow \cup {None}]
    BY <1>10, <2>1, <2>2 DEF ArchiveRoom, EstateTyped
  <2> QED BY <1>10, <2>3, FinishTyped DEF ArchiveRoom, EstateTyped
<1> QED BY <1>1, <1>2, <1>3, <1>4, <1>5, <1>6, <1>7, <1>8, <1>9, <1>10 DEF Proceed

-----------------------------------------------------------------------------
(* Estate: rooms stay in their property *)

\* What a step of q does to rows of rooms: it makes its own only, moves none to another
\* property and takes none out of the archive.
RowsStay(q) ==
    \A r \in Rooms :
        /\ room[r] # None => /\ room'[r] # None
                             /\ room'[r].property = room[r].property
                             /\ room[r].archived => room'[r].archived
        /\ room[r] = None /\ room'[r] # None => req[q].new /\ req[q].room = r

\* Every statement leaves the other rows of rooms where they are.
LEMMA ProceedKeepsRows ==
    ASSUME EstateTyped, RowsInv, NEW q \in Requests, Proceed(q) \/ Abandon(q)
    PROVE  RowsStay(q)
<1>1. CASE ArchiveRooms(q)
  <2>1. \A r \in RoomsOf(req[q].property) :
           /\ room[r] \in RoomRow
           /\ room'[r] = [room[r] EXCEPT !.archived = TRUE]
    BY <1>1 DEF ArchiveRooms, RoomsOf, EstateTyped
  <2>2. \A r \in RoomsOf(req[q].property) :
           /\ room'[r] \in RoomRow
           /\ room'[r].property = room[r].property
           /\ room'[r].archived = TRUE
    BY <2>1 DEF RoomRow
  <2>3. \A r \in Rooms \ RoomsOf(req[q].property) : room'[r] = room[r]
    BY <1>1 DEF ArchiveRooms
  <2> QED BY <2>2, <2>3, NoneIsNoRow DEF RowsStay, RoomsOf
<1>2. CASE WriteRoom(q)
  <2> DEFINE r == req[q].room
  <2>1. r \in Rooms /\ req[q] \in Request
    BY <1>2 DEF WriteRoom, EstateTyped, RequestTyped, RoomSteps
  <2>2. /\ \A o \in Rooms \ {r} : room'[o] = room[o]
        /\ room'[r].property = req[q].property
        /\ room'[r].archived = (~req[q].new /\ room[r].archived)
    BY <1>2, <2>1 DEF WriteRoom, EstateTyped
  <2>3. IF req[q].new THEN room[r] = None
        ELSE room[r] # None /\ room[r].property = req[q].property
    BY <1>2 DEF WriteRoom, RowsInv, RoomOf
  <2>4. room'[r] # None
    <3>1. room'[r] = [property |-> req[q].property, number |-> req[q].number,
                      type |-> req[q].type, archived |-> ~req[q].new /\ room[r].archived]
      BY <1>2, <2>1 DEF WriteRoom, EstateTyped
    <3>2. room'[r] \in RoomRow
      BY <2>1, <3>1 DEF RoomRow, Request
    <3> QED BY <3>2, NoneIsNoRow
  <2>5. CASE req[q].new
    BY <2>1, <2>2, <2>3, <2>5 DEF RowsStay
  <2>6. CASE ~req[q].new
    BY <2>1, <2>2, <2>3, <2>4, <2>6 DEF RowsStay
  <2> QED BY <2>5, <2>6
<1>3. CASE ArchiveRoom(q)
  <2> DEFINE r == req[q].room
  <2>1. r \in Rooms /\ room[r] \in RoomRow
    BY <1>3 DEF ArchiveRoom, EstateTyped, RequestTyped, RoomSteps, RowsInv, RoomOf
  <2>2. room' = [room EXCEPT ![r] = [room[r] EXCEPT !.archived = TRUE]]
    BY <1>3 DEF ArchiveRoom
  <2>3. room'[r] \in RoomRow /\ room'[r].property = room[r].property /\ room'[r].archived
    BY <2>1, <2>2 DEF EstateTyped, RoomRow
  <2>4. \A o \in Rooms \ {r} : room'[o] = room[o]
    BY <2>2 DEF EstateTyped
  <2> QED BY <2>1, <2>3, <2>4, NoneIsNoRow DEF RowsStay
<1>4. CASE UNCHANGED room
  BY <1>4 DEF RowsStay
<1> QED BY <1>1, <1>2, <1>3, <1>4
    DEF Proceed, Abandon, tables, WriteProfile, WriteBilling, ArchiveTenants,
        ArchiveProperty, FindType, MissType, CreateRoomType, DuplicateNumber

\* How a request that has begun goes on: it ends, or keeps what it is about and goes
\* from one statement to the next.
GoesOn(q) ==
    \/ pc'[q] = "idle" /\ req'[q] = NoRequest
    \/ /\ req'[q].property = req[q].property
       /\ req'[q].room = req[q].room
       /\ req'[q].new = req[q].new
       /\ req'[q].held = req[q].held
       /\ \/ pc[q] = "tenants" /\ pc'[q] = "rooms"
          \/ pc[q] = "rooms" /\ pc'[q] = "property"
          \/ pc[q] = "type_get" /\ pc'[q] \in {"type_create", "room_write"}
          \/ pc[q] = "type_create" /\ pc'[q] = "room_write"

\* Every statement of a request, and its end, is of that form and no other request's.
LEMMA ProceedGoesOn ==
    ASSUME EstateTyped, NEW q \in Requests, Proceed(q) \/ Abandon(q)
    PROVE  /\ GoesOn(q)
           /\ \A o \in Requests \ {q} : pc'[o] = pc[o] /\ req'[o] = req[o]
<1>0. req[q] \in Request /\ pc[q] \in Steps
  BY DEF EstateTyped
<1>1. CASE Finish(q)
  BY <1>1, FinishTyped DEF GoesOn
<1>2. CASE ArchiveTenants(q) \/ ArchiveRooms(q) \/ MissType(q)
  BY <1>2 DEF ArchiveTenants, ArchiveRooms, MissType, Goto, GoesOn, EstateTyped
<1>3. ASSUME NEW t, req' = [req EXCEPT ![q].type = t], Goto(q, "room_write"),
             pc[q] \in {"type_get", "type_create"}
      PROVE  /\ GoesOn(q)
             /\ \A o \in Requests \ {q} : pc'[o] = pc[o] /\ req'[o] = req[o]
  <2>1. req'[q] = [req[q] EXCEPT !.type = t]
    BY <1>3 DEF EstateTyped
  <2>2. /\ req'[q].property = req[q].property
        /\ req'[q].room = req[q].room
        /\ req'[q].new = req[q].new
        /\ req'[q].held = req[q].held
    BY <1>0, <2>1 DEF Request
  <2>3. pc'[q] = "room_write" /\ \A o \in Requests \ {q} : pc'[o] = pc[o] /\ req'[o] = req[o]
    BY <1>3 DEF Goto, EstateTyped
  <2> QED BY <1>3, <2>2, <2>3 DEF GoesOn
<1>4. CASE FindType(q)
  <2>1. PICK t \in TypesOf(req[q].property) : req' = [req EXCEPT ![q].type = t]
    BY <1>4 DEF FindType
  <2> QED BY <1>3, <1>4, <2>1 DEF FindType
<1>5. CASE CreateRoomType(q)
  BY <1>3, <1>5 DEF CreateRoomType
<1> QED BY <1>1, <1>2, <1>4, <1>5
    DEF Proceed, Abandon, WriteProfile, WriteBilling, ArchiveProperty, WriteRoom,
        DuplicateNumber, ArchiveRoom

\* A request that others leave alone has its room as before, whoever makes rows.
LEMMA OthersKeepTheirRoom ==
    ASSUME EstateTyped, RowsInv, NEW q \in Requests, RowsStay(q), NEW o \in Requests,
           o # q, pc'[o] = pc[o], req'[o] = req[o]
    PROVE  RoomOf(o)'
<1>1. pc[o] \in RoomSteps => req[o].room \in Rooms
  BY DEF EstateTyped, RequestTyped
<1>2. RoomOf(o) /\ (req[q].new /\ req[o].new => req[q].room # req[o].room)
  BY DEF RowsInv
<1> QED BY <1>1, <1>2 DEF RoomOf, RowsStay, RoomSteps

\* A request begins with a room of the property it names, and a new one is not taken.
LEMMA BeginsRows ==
    ASSUME EstateTyped, RowsInv, NEW q \in Requests, BeginSome(q)
    PROVE  RowsInv'
<1>0. pc[q] = "idle" /\ UNCHANGED tables /\ RowsStay(q)
      /\ \A o \in Requests \ {q} : pc'[o] = pc[o] /\ req'[o] = req[o]
  BY DEF BeginSome, BeginUpdateProperty, BeginProfileSettings, BeginBillingSettings,
     BeginArchiveProperty, BeginCreateRoom, BeginUpdateRoom, BeginArchiveRoom, Begin,
     EstateTyped, tables, RowsStay
<1>1. RoomOf(q)' /\ (req'[q].new => \A o \in Requests \ {q} :
                                        ~(req[o].new /\ req[o].room = req'[q].room))
  <2>1. ASSUME NEW p \in Properties,
               \/ BeginUpdateProperty(q, p) \/ BeginProfileSettings(q, p)
               \/ BeginBillingSettings(q, p) \/ BeginArchiveProperty(q, p)
        PROVE  pc'[q] \in {"profile", "billing", "tenants"} /\ req'[q].new = FALSE
    <3>1. [NoRequest EXCEPT !.property = p].new = FALSE
      BY NoRequestTyped DEF Request
    <3>2. \A h : [NoRequest EXCEPT !.property = p, !.held = h].new = FALSE
      BY NoRequestTyped DEF Request
    <3>3. CASE BeginArchiveProperty(q, p)
      BY <3>2, <3>3 DEF BeginArchiveProperty, Begin, EstateTyped
    <3>4. CASE BeginUpdateProperty(q, p)
      BY <3>1, <3>4 DEF BeginUpdateProperty, Begin, EstateTyped
    <3>5. CASE BeginProfileSettings(q, p)
      BY <3>1, <3>5 DEF BeginProfileSettings, Begin, EstateTyped
    <3>6. CASE BeginBillingSettings(q, p)
      BY <3>1, <3>6 DEF BeginBillingSettings, Begin, EstateTyped
    <3> QED BY <2>1, <3>3, <3>4, <3>5, <3>6
  <2>2. ASSUME NEW p \in Properties, NEW r \in Rooms, NEW n \in Numbers,
               BeginCreateRoom(q, p, r, n)
        PROVE  /\ pc'[q] = "type_get" /\ req'[q].new = TRUE /\ req'[q].room = r
               /\ room[r] = None /\ \A o \in Requests : ~(req[o].new /\ req[o].room = r)
    BY <2>2, NoRequestTyped DEF BeginCreateRoom, Begin, EstateTyped, Request
  <2>3. ASSUME NEW r \in Rooms, NEW n \in Numbers, BeginUpdateRoom(q, r, n)
        PROVE  /\ pc'[q] = "type_get" /\ req'[q].new = FALSE /\ req'[q].room = r
               /\ room[r] # None /\ req'[q].property = room[r].property
    BY <2>3, NoRequestTyped DEF BeginUpdateRoom, Begin, EstateTyped, Request
  <2>4. ASSUME NEW r \in Rooms, BeginArchiveRoom(q, r)
        PROVE  /\ pc'[q] = "room_archive" /\ req'[q].new = FALSE /\ req'[q].room = r
               /\ room[r] # None
    BY <2>4, NoRequestTyped DEF BeginArchiveRoom, Begin, EstateTyped, Request
  <2> QED BY <1>0, <2>1, <2>2, <2>3, <2>4 DEF BeginSome, RoomOf, tables
<1>2. \A o \in Requests \ {q} : RoomOf(o)'
  BY <1>0, OthersKeepTheirRoom
<1> QED BY <1>0, <1>1, <1>2 DEF RowsInv

\* No step breaks what a request knows of its room.
LEMMA RowsInductive ==
    ASSUME EstateTyped, RowsInv, EstateNext
    PROVE  RowsInv'
<1>1. ASSUME NEW q \in Requests, BeginSome(q)
      PROVE  RowsInv'
  BY <1>1, BeginsRows
<1>2. ASSUME NEW q \in Requests, Proceed(q) \/ Abandon(q)
      PROVE  RowsInv'
  <2>1. RowsStay(q) /\ GoesOn(q)
        /\ \A o \in Requests \ {q} : pc'[o] = pc[o] /\ req'[o] = req[o]
    BY <1>2, ProceedKeepsRows, ProceedGoesOn
  <2>2. \A o \in Requests \ {q} : RoomOf(o)'
    BY <2>1, OthersKeepTheirRoom
  <2>3. CASE pc'[q] = "idle" /\ req'[q] = NoRequest
    BY <2>1, <2>2, <2>3, NoRequestTyped DEF RowsInv, RoomOf
  <2>4. CASE ~(pc'[q] = "idle" /\ req'[q] = NoRequest)
    <3>1. req'[q].room = req[q].room /\ req'[q].new = req[q].new
          /\ req'[q].property = req[q].property /\ pc'[q] # "room_archive"
          /\ (pc'[q] \in {"type_get", "type_create", "room_write"} =>
                 pc[q] \in {"type_get", "type_create"})
      BY <2>1, <2>4 DEF GoesOn
    <3>2. pc[q] \in {"type_get", "type_create"} => UNCHANGED room
      BY <1>2 DEF Proceed, Abandon, tables, WriteProfile, WriteBilling, ArchiveTenants,
         ArchiveRooms, ArchiveProperty, FindType, MissType, CreateRoomType, WriteRoom,
         DuplicateNumber, ArchiveRoom
    <3>3. RoomOf(q)'
      BY <3>1, <3>2 DEF RowsInv, RoomOf
    <3> QED BY <2>1, <2>2, <3>1, <3>3 DEF RowsInv
  <2> QED BY <2>3, <2>4
<1>3. CASE CreateProperty
  BY <1>3 DEF CreateProperty, RowsInv, RoomOf
<1>4. ASSUME NEW t \in Tenants, NEW p \in Properties, MoveIn(t, p)
      PROVE  RowsInv'
  <2>1. \A q \in Requests : /\ req'[q].new = req[q].new
                            /\ req'[q].room = req[q].room
                            /\ req'[q].property = req[q].property
    BY <1>4 DEF MoveIn, EstateTyped, Request
  <2> QED BY <1>4, <2>1 DEF MoveIn, RowsInv, RoomOf
<1> QED BY <1>1, <1>2, <1>3, <1>4 DEF EstateNext

-----------------------------------------------------------------------------
(* Estate: the type of a room *)

\* A request that is about to write a room has found or made a type of its property.
TypeFound(q) ==
    pc[q] = "room_write" =>
        req[q].type.property = req[q].property /\ req[q].type.n <= types[req[q].property]

TypesInv == RoomTypeIsOfProperty /\ \A q \in Requests : TypeFound(q)

\* Types are made and never deleted; a room takes the type its request has found.
LEMMA TypesInductive ==
    ASSUME EstateTyped, EstateTyped', RowsInv, TypesInv, EstateNext
    PROVE  TypesInv'
<1>0. /\ \A p \in Properties : types[p] \in Nat
      /\ \A q \in Requests : /\ req[q].property \in Properties
                             /\ req[q].type.n \in Nat
                             /\ req'[q].property \in Properties
      /\ \A r \in Rooms : room[r] # None => /\ room[r].property \in Properties
                                            /\ room[r].type.n \in Nat
  BY DEF EstateTyped, Request, RoomType, RoomRow
<1>1. ASSUME UNCHANGED <<room, types>>,
             NEW q \in Requests, pc'[q] # "room_write",
             \A o \in Requests \ {q} : pc'[o] = pc[o] /\ req'[o] = req[o]
      PROVE  TypesInv'
  BY <1>1 DEF TypesInv, TypeFound, RoomTypeIsOfProperty
<1>2. ASSUME NEW q \in Requests, BeginSome(q)
      PROVE  TypesInv'
  BY <1>1, <1>2 DEF BeginSome, BeginUpdateProperty, BeginProfileSettings,
     BeginBillingSettings, BeginArchiveProperty, BeginCreateRoom, BeginUpdateRoom,
     BeginArchiveRoom, Begin, EstateTyped, tables
<1>3. ASSUME NEW q \in Requests,
             \/ WriteProfile(q) \/ WriteBilling(q) \/ ArchiveTenants(q)
             \/ ArchiveProperty(q) \/ MissType(q) \/ DuplicateNumber(q) \/ Abandon(q)
      PROVE  TypesInv'
  <2>1. pc'[q] # "room_write" /\ UNCHANGED <<room, types>>
    BY <1>3 DEF WriteProfile, WriteBilling, ArchiveTenants, ArchiveProperty, MissType,
       DuplicateNumber, Abandon, Finish, Goto, tables, EstateTyped
  <2>2. \A o \in Requests \ {q} : pc'[o] = pc[o] /\ req'[o] = req[o]
    BY <1>3, ProceedGoesOn DEF Proceed
  <2> QED BY <1>1, <2>1, <2>2
<1>4. ASSUME NEW q \in Requests, ArchiveRooms(q) \/ ArchiveRoom(q)
      PROVE  TypesInv'
  <2>1. \A r \in Rooms : room'[r] # None =>
           /\ room[r] # None
           /\ room'[r].property = room[r].property
           /\ room'[r].type = room[r].type
    <3>1. CASE ArchiveRooms(q)
      <4>1. \A r \in Rooms : room[r] # None => room[r] \in RoomRow
        BY DEF EstateTyped
      <4>2. \A r \in Rooms : \/ room'[r] = room[r]
                             \/ room[r] # None /\ room'[r] = [room[r] EXCEPT !.archived = TRUE]
        BY <3>1 DEF ArchiveRooms, RoomsOf
      <4> QED BY <4>1, <4>2 DEF RoomRow
    <3>2. CASE ArchiveRoom(q)
      <4>1. req[q].room \in Rooms /\ room[req[q].room] # None
            /\ room[req[q].room] \in RoomRow
        BY <3>2 DEF ArchiveRoom, EstateTyped, RequestTyped, RoomSteps, RowsInv, RoomOf
      <4>2. room' = [room EXCEPT ![req[q].room] = [room[req[q].room] EXCEPT !.archived = TRUE]]
        BY <3>2 DEF ArchiveRoom
      <4> QED BY <4>1, <4>2 DEF EstateTyped, RoomRow
    <3> QED BY <1>4, <3>1, <3>2
  <2>2. pc'[q] # "room_write" /\ UNCHANGED types
    BY <1>4 DEF ArchiveRooms, ArchiveRoom, Finish, Goto, EstateTyped
  <2>3. \A o \in Requests \ {q} : pc'[o] = pc[o] /\ req'[o] = req[o]
    BY <1>4, ProceedGoesOn DEF Proceed
  <2> QED BY <2>1, <2>2, <2>3 DEF TypesInv, TypeFound, RoomTypeIsOfProperty
<1>5. ASSUME NEW q \in Requests, FindType(q)
      PROVE  TypesInv'
  <2>1. PICK t \in TypesOf(req[q].property) : req' = [req EXCEPT ![q].type = t]
    BY <1>5 DEF FindType
  <2>2. t.property = req[q].property /\ t.n <= types[req[q].property]
    BY <2>1 DEF TypesOf
  <2>3. req[q] \in Request /\ req'[q] = [req[q] EXCEPT !.type = t]
    BY <2>1 DEF EstateTyped
  <2>4. req'[q].type = t /\ req'[q].property = req[q].property
    BY <2>3 DEF Request
  <2>5. \A o \in Requests \ {q} : pc'[o] = pc[o] /\ req'[o] = req[o]
    BY <1>5, ProceedGoesOn DEF Proceed
  <2> QED BY <1>5, <2>2, <2>4, <2>5 DEF FindType, tables, TypesInv, TypeFound,
      RoomTypeIsOfProperty
<1>6. ASSUME NEW q \in Requests, CreateRoomType(q)
      PROVE  TypesInv'
  <2> DEFINE p == req[q].property
             t == [property |-> p, n |-> types[p] + 1]
  <2>1. req[q] \in Request /\ req' = [req EXCEPT ![q] = [req[q] EXCEPT !.type = t]]
    BY <1>6 DEF CreateRoomType, EstateTyped
  <2>2. req'[q].type = t /\ req'[q].property = p
    BY <2>1 DEF EstateTyped, Request
  <2>3. types'[p] = types[p] + 1 /\ \A o \in Properties : types[o] <= types'[o]
    BY <1>0, <1>6 DEF CreateRoomType, EstateTyped
  <2>4. TypeFound(q)'
    BY <1>0, <2>2, <2>3 DEF TypeFound
  <2>5. \A o \in Requests \ {q} : pc'[o] = pc[o] /\ req'[o] = req[o]
    BY <1>6, ProceedGoesOn DEF Proceed
  <2>6. \A i \in Properties : types[i] \in Nat /\ types'[i] \in Nat
    BY DEF EstateTyped
  <2>7. \A o \in Requests \ {q} : TypeFound(o)'
    BY <1>0, <2>3, <2>5, <2>6 DEF TypesInv, TypeFound
  <2>8. RoomTypeIsOfProperty'
    BY <1>0, <1>6, <2>3, <2>6 DEF CreateRoomType, TypesInv, RoomTypeIsOfProperty
  <2> QED BY <2>4, <2>7, <2>8 DEF TypesInv
<1>7. ASSUME NEW q \in Requests, WriteRoom(q)
      PROVE  TypesInv'
  <2> DEFINE r == req[q].room
  <2>1. r \in Rooms
    BY <1>7 DEF WriteRoom, EstateTyped, RequestTyped, RoomSteps
  <2>2. /\ room'[r].property = req[q].property /\ room'[r].type = req[q].type
        /\ \A o \in Rooms \ {r} : room'[o] = room[o]
        /\ types' = types
    BY <1>7, <2>1 DEF WriteRoom, EstateTyped
  <2>3. TypeFound(q) /\ pc[q] = "room_write" /\ pc'[q] = "idle"
    BY <1>7 DEF WriteRoom, TypesInv, Finish, Goto, EstateTyped
  <2>4. \A o \in Requests \ {q} : pc'[o] = pc[o] /\ req'[o] = req[o]
    BY <1>7, ProceedGoesOn DEF Proceed
  <2> QED BY <2>1, <2>2, <2>3, <2>4 DEF TypesInv, TypeFound, RoomTypeIsOfProperty
<1>8. CASE CreateProperty
  BY <1>8 DEF CreateProperty, TypesInv, TypeFound, RoomTypeIsOfProperty
<1>9. ASSUME NEW t \in Tenants, NEW p \in Properties, MoveIn(t, p)
      PROVE  TypesInv'
  <2>1. \A q \in Requests : req'[q].type = req[q].type /\ req'[q].property = req[q].property
    BY <1>9 DEF MoveIn, EstateTyped, Request
  <2> QED BY <1>9, <2>1 DEF MoveIn, TypesInv, TypeFound, RoomTypeIsOfProperty
<1> QED BY <1>2, <1>3, <1>4, <1>5, <1>6, <1>7, <1>8, <1>9 DEF EstateNext, Proceed

-----------------------------------------------------------------------------
(* Estate: an archived property *)

\* What a request that archives has found, at each statement: its property's rooms and
\* tenants, then archived tenants, then archived rooms as well.
HeldBy(q) ==
    /\ pc[q] = "tenants" =>
          \A t \in req[q].held \cap Tenants : tenant[t].property = req[q].property
    /\ pc[q] \in {"rooms", "property"} =>
          \A t \in req[q].held \cap Tenants : tenant[t].archived
    /\ pc[q] \in {"tenants", "rooms"} =>
          \A r \in req[q].held \cap Rooms : r \in RoomsOf(req[q].property)
    /\ pc[q] = "property" =>
          \A r \in req[q].held \cap Rooms : room[r] # None /\ room[r].archived

CoverInv ==
    \A p \in Properties :
        /\ \A r \in covered[p] \cap Rooms : room[r] # None /\ room[r].archived
        /\ \A t \in covered[p] \cap Tenants : tenant[t].archived

HeldInv == CoverInv /\ \A q \in Requests : HeldBy(q)

\* What a step leaves of tenants, but for the one who moves in.
TenantsStay ==
    \A t \in Tenants : /\ tenant'[t].property = tenant[t].property
                       /\ tenant[t].archived => tenant'[t].archived

\* Only ArchiveTenants writes a tenant, and it moves none.
LEMMA ProceedKeepsTenants ==
    ASSUME EstateTyped, NEW q \in Requests, Proceed(q) \/ Abandon(q)
    PROVE  TenantsStay
<1>1. CASE ArchiveTenants(q)
  <2>1. \A t \in Tenants : \/ tenant'[t] = tenant[t]
                           \/ tenant'[t] = [tenant[t] EXCEPT !.archived = TRUE]
    BY <1>1 DEF ArchiveTenants
  <2>2. \A t \in Tenants : tenant[t] \in TenantRow
    BY DEF EstateTyped
  <2> QED BY <2>1, <2>2 DEF TenantsStay, TenantRow
<1>2. CASE UNCHANGED tenant
  BY <1>2 DEF TenantsStay
<1> QED BY <1>1, <1>2
    DEF Proceed, Abandon, tables, WriteProfile, WriteBilling, ArchiveRooms,
        ArchiveProperty, FindType, MissType, CreateRoomType, WriteRoom, DuplicateNumber,
        ArchiveRoom

\* A request that others leave alone holds what it held: rooms and tenants stay.
LEMMA OthersHold ==
    ASSUME EstateTyped, NEW o \in Requests, HeldBy(o), NEW q \in Requests, RowsStay(q),
           TenantsStay, pc'[o] = pc[o], req'[o] = req[o]
    PROVE  HeldBy(o)'
<1>1. req[o].held \in SUBSET (Rooms \cup Tenants)
  BY DEF EstateTyped, Request
<1>2. \A r \in Rooms : r \in RoomsOf(req[o].property) => r \in RoomsOf(req[o].property)'
  <2>1. UNCHANGED req[o].property
    OBVIOUS
  <2> QED BY <2>1 DEF RowsStay, RoomsOf
<1>3. /\ \A r \in Rooms : room[r] # None /\ room[r].archived => room'[r] # None /\ room'[r].archived
      /\ \A t \in Tenants : tenant[t].archived => tenant'[t].archived
      /\ \A t \in Tenants : tenant'[t].property = tenant[t].property
  BY DEF RowsStay, TenantsStay
<1> QED BY <1>1, <1>2, <1>3 DEF HeldBy

\* And so does what an archived property had.
LEMMA CoverStays ==
    ASSUME EstateTyped, CoverInv, NEW q \in Requests, RowsStay(q), TenantsStay,
           UNCHANGED covered
    PROVE  CoverInv'
  BY DEF EstateTyped, CoverInv, RowsStay, TenantsStay

\* The three statements archive what the request held when it came, in their order.
LEMMA ProceedHolds ==
    ASSUME EstateTyped, RowsInv, HeldInv, NEW q \in Requests, Proceed(q) \/ Abandon(q)
    PROVE  HeldInv'
<1>1. RowsStay(q) /\ TenantsStay /\ GoesOn(q)
      /\ \A o \in Requests \ {q} : pc'[o] = pc[o] /\ req'[o] = req[o]
  BY ProceedKeepsRows, ProceedKeepsTenants, ProceedGoesOn
<1>2. \A o \in Requests \ {q} : HeldBy(o)'
  BY <1>1, OthersHold DEF HeldInv
<1>3. HeldBy(q)'
  <2>1. CASE pc'[q] \notin {"rooms", "property"}
    <3>1. pc'[q] # "tenants"
      BY <1>1 DEF GoesOn
    <3> QED BY <2>1, <3>1 DEF HeldBy
  <2>2. CASE pc'[q] = "rooms"
    <3>1. /\ pc[q] = "tenants"
          /\ req'[q].held = req[q].held /\ req'[q].property = req[q].property
      BY <1>1, <2>2 DEF GoesOn
    <3>2. ArchiveTenants(q)
      BY <1>1, <2>2, <3>1
         DEF Proceed, Abandon, WriteProfile, WriteBilling, ArchiveRooms, ArchiveProperty,
             FindType, MissType, CreateRoomType, WriteRoom, DuplicateNumber, ArchiveRoom,
             Finish, Goto, EstateTyped
    <3>3. \A t \in req[q].held \cap Tenants : tenant'[t].archived = TRUE
      <4>1. \A t \in req[q].held \cap Tenants :
               /\ tenant[t] \in TenantRow
               /\ t \in TenantsOf(req[q].property)
        BY <3>1 DEF HeldInv, HeldBy, TenantsOf, EstateTyped
      <4> QED BY <3>2, <4>1 DEF ArchiveTenants, TenantRow
    <3>4. \A r \in req[q].held \cap Rooms :
             room'[r] # None /\ room'[r].property = req[q].property
      BY <1>1, <3>1 DEF HeldInv, HeldBy, RowsStay, RoomsOf
    <3> QED BY <2>2, <3>1, <3>3, <3>4 DEF HeldBy, RoomsOf
  <2>3. CASE pc'[q] = "property"
    <3>1. /\ pc[q] = "rooms"
          /\ req'[q].held = req[q].held /\ req'[q].property = req[q].property
      BY <1>1, <2>3 DEF GoesOn
    <3>2. ArchiveRooms(q)
      BY <1>1, <2>3, <3>1
         DEF Proceed, Abandon, WriteProfile, WriteBilling, ArchiveTenants, ArchiveProperty,
             FindType, MissType, CreateRoomType, WriteRoom, DuplicateNumber, ArchiveRoom,
             Finish, Goto, EstateTyped
    <3>3. \A r \in req[q].held \cap Rooms : room'[r] # None /\ room'[r].archived
      <4>1. \A r \in req[q].held \cap Rooms :
               /\ r \in RoomsOf(req[q].property)
               /\ room[r] # None /\ room[r] \in RoomRow
        BY <3>1 DEF HeldInv, HeldBy, RoomsOf, EstateTyped
      <4>2. \A r \in req[q].held \cap Rooms : room'[r] = [room[r] EXCEPT !.archived = TRUE]
        BY <3>2, <4>1 DEF ArchiveRooms
      <4>3. \A r \in req[q].held \cap Rooms : room'[r].archived = TRUE
        BY <4>1, <4>2 DEF RoomRow
      <4>4. \A r \in req[q].held \cap Rooms : room'[r] # None
        BY <1>1, <4>1 DEF RowsStay
      <4> QED BY <4>3, <4>4
    <3>4. \A t \in req[q].held \cap Tenants : tenant'[t].archived
      BY <1>1, <3>1 DEF HeldInv, HeldBy, TenantsStay
    <3> QED BY <2>3, <3>1, <3>3, <3>4 DEF HeldBy
  <2> QED BY <2>1, <2>2, <2>3
<1>4. CoverInv'
  <2>1. CASE ArchiveProperty(q)
    <3>1. /\ covered' = [covered EXCEPT ![req[q].property] = req[q].held]
          /\ UNCHANGED <<room, tenant>>
          /\ pc[q] = "property"
      BY <2>1 DEF ArchiveProperty
    <3>2. /\ \A r \in req[q].held \cap Rooms : room[r] # None /\ room[r].archived
          /\ \A t \in req[q].held \cap Tenants : tenant[t].archived
      BY <3>1 DEF HeldInv, HeldBy
    <3> QED BY <3>1, <3>2 DEF HeldInv, CoverInv, EstateTyped
  <2>2. CASE UNCHANGED covered
    BY <1>1, <2>2, CoverStays DEF HeldInv
  <2> QED BY <2>1, <2>2
      DEF Proceed, Abandon, tables, WriteProfile, WriteBilling, ArchiveTenants,
          ArchiveRooms, FindType, MissType, CreateRoomType, WriteRoom, DuplicateNumber,
          ArchiveRoom
<1> QED BY <1>2, <1>3, <1>4 DEF HeldInv

\* A request that archives begins with the rooms and tenants of its property; a tenant
\* who moves in is no longer one of those a request has found.
LEMMA HeldInductive ==
    ASSUME EstateTyped, RowsInv, HeldInv, EstateNext
    PROVE  HeldInv'
<1>1. ASSUME NEW q \in Requests, BeginSome(q)
      PROVE  HeldInv'
  <2>1. UNCHANGED tables /\ \A o \in Requests \ {q} : pc'[o] = pc[o] /\ req'[o] = req[o]
    BY <1>1 DEF BeginSome, BeginUpdateProperty, BeginProfileSettings, BeginBillingSettings,
       BeginArchiveProperty, BeginCreateRoom, BeginUpdateRoom, BeginArchiveRoom, Begin,
       EstateTyped, tables
  <2>2. CASE pc'[q] \notin {"tenants", "rooms", "property"}
    BY <2>1, <2>2 DEF tables, HeldInv, HeldBy, CoverInv, RoomsOf
  <2>3. CASE pc'[q] \in {"tenants", "rooms", "property"}
    <3>1. PICK p \in Properties : BeginArchiveProperty(q, p)
      BY <1>1, <2>3 DEF BeginSome, BeginUpdateProperty, BeginProfileSettings,
         BeginBillingSettings, BeginCreateRoom, BeginUpdateRoom, BeginArchiveRoom, Begin,
         EstateTyped
    <3>2. /\ pc'[q] = "tenants"
          /\ req'[q] = [NoRequest EXCEPT !.property = p, !.held = RoomsOf(p) \cup TenantsOf(p)]
      BY <3>1 DEF BeginArchiveProperty, Begin, EstateTyped
    <3>3. req'[q].property = p /\ req'[q].held = RoomsOf(p) \cup TenantsOf(p)
      BY <3>2, NoRequestTyped DEF Request
    <3>4. HeldBy(q)'
      BY <2>1, <3>2, <3>3, EstateAssumption DEF tables, HeldBy, RoomsOf, TenantsOf
    <3> QED BY <2>1, <3>4 DEF tables, HeldInv, HeldBy, CoverInv, RoomsOf
  <2> QED BY <2>2, <2>3
<1>2. ASSUME NEW q \in Requests, Proceed(q) \/ Abandon(q)
      PROVE  HeldInv'
  BY <1>2, ProceedHolds
<1>3. CASE CreateProperty
  BY <1>3 DEF CreateProperty, HeldInv, HeldBy, CoverInv, RoomsOf
<1>4. ASSUME NEW t \in Tenants, NEW p \in Properties, MoveIn(t, p)
      PROVE  HeldInv'
  <2>1. \A q \in Requests :
           /\ req'[q].held = req[q].held \ {t}
           /\ req'[q].property = req[q].property
    BY <1>4 DEF MoveIn, EstateTyped, Request
  <2>2. /\ \A u \in Tenants \ {t} : tenant'[u] = tenant[u]
        /\ \A o \in Properties : covered'[o] = covered[o] \ {t}
        /\ UNCHANGED <<room, pc>>
    BY <1>4 DEF MoveIn, EstateTyped
  <2>3. CoverInv'
    BY <2>2 DEF HeldInv, CoverInv
  <2>4. \A q \in Requests : HeldBy(q)'
    BY <2>1, <2>2 DEF HeldInv, HeldBy, RoomsOf
  <2> QED BY <2>3, <2>4 DEF HeldInv
<1> QED BY <1>1, <1>2, <1>3, <1>4 DEF EstateNext

-----------------------------------------------------------------------------
(* Estate: the first property *)

\* Properties are numbered as they come, a request works on one that has come, and one
\* that writes the billing settings on one that was the first when it came.
FirstInv ==
    /\ \A p \in Properties : property[p].state # "none" =>
          \A o \in 1 .. p - 1 : property[o].state # "none"
    /\ \A q \in Requests : pc[q] \in {"tenants", "rooms", "property", "billing"} =>
          property[req[q].property].state # "none"
    /\ \A q \in Requests : pc[q] = "billing" =>
          \A o \in 1 .. req[q].property - 1 : property[o].state = "archived"
    /\ BillingOfFirstProperty

\* What a step does to a property: what has come stays, what is archived stays archived.
PropertiesStay ==
    \A p \in Properties :
        /\ property[p].state # "none" => property'[p].state # "none"
        /\ property[p].state = "archived" => property'[p].state = "archived"

\* No request makes a property come, and only WriteBilling sets its settings.
LEMMA ProceedKeepsProperties ==
    ASSUME EstateTyped, FirstInv, NEW q \in Requests, Proceed(q) \/ Abandon(q)
    PROVE  /\ PropertiesStay
           /\ \A p \in Properties : property'[p].state # "none" => property[p].state # "none"
           /\ \A p \in Properties :
                 property'[p].billing =>
                    property[p].billing \/ (pc[q] = "billing" /\ p = req[q].property)
<1>0. /\ req[q].property \in Properties
      /\ \A p \in Properties : property[p] \in PropertyRow
  BY DEF EstateTyped, Request
<1>1. CASE WriteBilling(q)
  <2> DEFINE p == req[q].property
  <2>1. property' = [property EXCEPT ![p] = [property[p] EXCEPT !.billing = TRUE]]
    BY <1>1 DEF WriteBilling
  <2>2. property'[p].state = property[p].state
    BY <1>0, <2>1 DEF EstateTyped, PropertyRow
  <2>3. \A o \in Properties \ {p} : property'[o] = property[o]
    BY <2>1 DEF EstateTyped
  <2> QED BY <1>0, <1>1, <2>2, <2>3 DEF WriteBilling, PropertiesStay
<1>2. CASE ArchiveProperty(q)
  <2> DEFINE p == req[q].property
  <2>1. property' = [property EXCEPT ![p] = [property[p] EXCEPT !.state = "archived"]]
    BY <1>2 DEF ArchiveProperty
  <2>2. property'[p].state = "archived" /\ property'[p].billing = property[p].billing
    BY <1>0, <2>1 DEF EstateTyped, PropertyRow
  <2>3. \A o \in Properties \ {p} : property'[o] = property[o]
    BY <2>1 DEF EstateTyped
  <2>4. property[p].state # "none"
    BY <1>2 DEF ArchiveProperty, FirstInv
  <2> QED BY <1>0, <2>2, <2>3, <2>4 DEF PropertiesStay
<1>3. CASE UNCHANGED property
  BY <1>3 DEF PropertiesStay
<1> QED BY <1>1, <1>2, <1>3
    DEF Proceed, Abandon, tables, WriteProfile, ArchiveTenants, ArchiveRooms, FindType,
        MissType, CreateRoomType, WriteRoom, DuplicateNumber, ArchiveRoom

\* A request that begins on a property that has come, or with the settings of the first.
LEMMA BeginsFirst ==
    ASSUME FirstInv, NEW q \in Requests, UNCHANGED property,
           \A o \in Requests \ {q} : pc'[o] = pc[o] /\ req'[o] = req[o],
           pc'[q] \in {"tenants", "rooms", "property", "billing"} =>
              property[req'[q].property].state # "none",
           pc'[q] = "billing" =>
              \A o \in 1 .. req'[q].property - 1 : property[o].state = "archived"
    PROVE  FirstInv'
<1>1. BillingOfFirstProperty' /\ \A p \in Properties : property'[p].state # "none" =>
          \A o \in 1 .. p - 1 : property'[o].state # "none"
  BY DEF FirstInv, BillingOfFirstProperty
<1>2. \A o \in Requests : pc'[o] \in {"tenants", "rooms", "property", "billing"} =>
          property'[req'[o].property].state # "none"
  BY DEF FirstInv
<1>3. \A o \in Requests : pc'[o] = "billing" =>
          \A i \in 1 .. req'[o].property - 1 : property'[i].state = "archived"
  BY DEF FirstInv
<1> QED BY <1>1, <1>2, <1>3 DEF FirstInv

\* No step gives a property settings while an earlier one is live or yet to come.
LEMMA FirstInductive ==
    ASSUME EstateTyped, FirstInv, EstateNext
    PROVE  FirstInv'
<1> USE EstateAssumption DEF Properties
<1>0. \A q \in Requests : req[q].property \in Properties
  BY DEF EstateTyped, Request
<1>1. ASSUME NEW q \in Requests, BeginSome(q)
      PROVE  FirstInv'
  <2>1. UNCHANGED property /\ \A o \in Requests \ {q} : pc'[o] = pc[o] /\ req'[o] = req[o]
    BY <1>1 DEF BeginSome, BeginUpdateProperty, BeginProfileSettings, BeginBillingSettings,
       BeginArchiveProperty, BeginCreateRoom, BeginUpdateRoom, BeginArchiveRoom, Begin,
       EstateTyped, tables
  <2>2. CASE pc'[q] \notin {"tenants", "rooms", "property", "billing"}
    BY <2>1, <2>2 DEF FirstInv, BillingOfFirstProperty
  <2>3. ASSUME NEW p \in Properties, BeginArchiveProperty(q, p)
        PROVE  FirstInv'
    <3>1. pc'[q] = "tenants"
          /\ req'[q] = [NoRequest EXCEPT !.property = p, !.held = RoomsOf(p) \cup TenantsOf(p)]
      BY <2>3 DEF BeginArchiveProperty, Begin, EstateTyped
    <3>2. req'[q].property = p /\ property[p].state # "none"
      BY <2>3, <3>1, NoRequestTyped DEF BeginArchiveProperty, Live, Request
    <3>3. pc'[q] # "billing"
      BY <3>1
    <3> QED BY <2>1, <3>2, <3>3, BeginsFirst
  <2>4. ASSUME NEW p \in Properties, BeginBillingSettings(q, p)
        PROVE  FirstInv'
    <3>1. pc'[q] = "billing" /\ req'[q] = [NoRequest EXCEPT !.property = p]
      BY <2>4 DEF BeginBillingSettings, Begin, EstateTyped
    <3>2. req'[q].property = p /\ property[p].state # "none"
      BY <2>4, <3>1, NoRequestTyped DEF BeginBillingSettings, Primary, Live, Request
    <3>3. ASSUME NEW o \in 1 .. p - 1
          PROVE  property[o].state = "archived"
      <4>1. o \in Properties /\ o < p
        BY <3>3
      <4>2. property[o].state # "live"
        BY <2>4, <4>1 DEF BeginBillingSettings, Primary, Live
      <4>3. property[o].state # "none"
        BY <3>2 DEF FirstInv
      <4> QED BY <4>1, <4>2, <4>3 DEF EstateTyped, PropertyRow, State
    <3> QED BY <2>1, <3>1, <3>2, <3>3, BeginsFirst
  <2>5. CASE pc'[q] \in {"tenants", "rooms", "property", "billing"}
    BY <1>1, <2>3, <2>4, <2>5 DEF BeginSome, BeginUpdateProperty, BeginProfileSettings,
       BeginCreateRoom, BeginUpdateRoom, BeginArchiveRoom, Begin, EstateTyped
  <2> QED BY <2>2, <2>5
<1>2. ASSUME NEW q \in Requests, Proceed(q) \/ Abandon(q)
      PROVE  FirstInv'
  <2>1. /\ PropertiesStay
        /\ \A p \in Properties : property'[p].state # "none" => property[p].state # "none"
        /\ \A p \in Properties :
              property'[p].billing =>
                 property[p].billing \/ (pc[q] = "billing" /\ p = req[q].property)
    BY <1>2, ProceedKeepsProperties
  <2>2. GoesOn(q) /\ \A o \in Requests \ {q} : pc'[o] = pc[o] /\ req'[o] = req[o]
    BY <1>2, ProceedGoesOn
  <2>3. \A p \in Properties : property'[p].state # "none" =>
           \A o \in 1 .. p - 1 : property'[o].state # "none"
    BY <2>1 DEF FirstInv, PropertiesStay
  <2>4. \A o \in Requests : pc'[o] \in {"tenants", "rooms", "property", "billing"} =>
           /\ pc[o] \in {"tenants", "rooms", "property", "billing"}
           /\ req'[o].property = req[o].property
           /\ pc'[o] = "billing" => pc[o] = "billing"
    BY <2>2 DEF GoesOn
  <2>5. \A o \in Requests : pc'[o] \in {"tenants", "rooms", "property", "billing"} =>
           property'[req'[o].property].state # "none"
    BY <1>0, <2>1, <2>4 DEF FirstInv, PropertiesStay
  <2>6. \A o \in Requests : pc'[o] = "billing" =>
           \A i \in 1 .. req'[o].property - 1 : property'[i].state = "archived"
    BY <1>0, <2>1, <2>4 DEF FirstInv, PropertiesStay
  <2>7. BillingOfFirstProperty'
    BY <1>0, <2>1 DEF FirstInv, PropertiesStay, BillingOfFirstProperty
  <2> QED BY <2>3, <2>5, <2>6, <2>7 DEF FirstInv
<1>3. CASE CreateProperty
  <2>1. PICK p \in Properties :
           /\ property[p].state = "none"
           /\ \A o \in 1 .. p - 1 : property[o].state # "none"
           /\ property' = [property EXCEPT ![p] = [state |-> "live", billing |-> FALSE]]
           /\ UNCHANGED <<pc, req>>
    BY <1>3 DEF CreateProperty
  <2>2. property'[p].state = "live" /\ property'[p].billing = FALSE
        /\ \A o \in Properties \ {p} : property'[o] = property[o]
    BY <2>1 DEF EstateTyped
  <2> QED BY <1>0, <2>1, <2>2 DEF FirstInv, BillingOfFirstProperty
<1>4. ASSUME NEW t \in Tenants, NEW p \in Properties, MoveIn(t, p)
      PROVE  FirstInv'
  <2>1. \A q \in Requests : req'[q].property = req[q].property
    BY <1>4 DEF MoveIn, EstateTyped, Request
  <2> QED BY <1>4, <2>1 DEF MoveIn, FirstInv, BillingOfFirstProperty
<1> QED BY <1>1, <1>2, <1>3, <1>4 DEF EstateNext

-----------------------------------------------------------------------------
(* Estate: how many types of a name *)

\* The requests that are about to create a type for a property.
Racing(p) == {q \in Requests : pc[q] = "type_create" /\ req[q].property = p}

\* A request that looked for the first type before it was there may still create one.
RaceInv == \A p \in Properties : types[p] + Cardinality(Racing(p)) <= Cardinality(Requests)

\* There are no more of them than requests.
LEMMA RacingIsFinite ==
    ASSUME IsFiniteSet(Requests), NEW S \in SUBSET Requests
    PROVE  /\ IsFiniteSet(S) /\ Cardinality(S) \in Nat
           /\ Cardinality(S) <= Cardinality(Requests)
           /\ Cardinality(Requests) \in Nat
BY FS_Subset, FS_CardinalityType

\* A request joins the race only where there is no type, and leaves it with the one that
\* it creates.
LEMMA RaceInductive ==
    ASSUME IsFiniteSet(Requests), EstateTyped, EstateTyped', RaceInv, EstateNext
    PROVE  RaceInv'
<1>0. ASSUME NEW p \in Properties
      PROVE  /\ types[p] \in Nat /\ types'[p] \in Nat
             /\ IsFiniteSet(Racing(p)) /\ Cardinality(Racing(p)) \in Nat
             /\ Racing(p)' \in SUBSET Requests
             /\ Cardinality(Racing(p)') \in Nat
             /\ Cardinality(Racing(p)') <= Cardinality(Requests)
             /\ Cardinality(Requests) \in Nat
             /\ types[p] + Cardinality(Racing(p)) <= Cardinality(Requests)
  <2>1. Racing(p) \in SUBSET Requests /\ Racing(p)' \in SUBSET Requests
    BY DEF Racing
  <2>2. types[p] \in Nat /\ types'[p] \in Nat
    BY DEF EstateTyped
  <2>3. types[p] + Cardinality(Racing(p)) <= Cardinality(Requests)
    BY DEF RaceInv
  <2> QED BY <2>1, <2>2, <2>3, RacingIsFinite
<1>1. ASSUME UNCHANGED types, \A p \in Properties : Racing(p)' \subseteq Racing(p)
      PROVE  RaceInv'
  <2>1. ASSUME NEW p \in Properties
        PROVE  Cardinality(Racing(p)') <= Cardinality(Racing(p))
    BY <1>0, <1>1, FS_Subset
  <2> QED BY <1>0, <1>1, <2>1 DEF RaceInv
<1>2. ASSUME UNCHANGED types,
             NEW q \in Requests, pc'[q] # "type_create",
             \A o \in Requests \ {q} : pc'[o] = pc[o] /\ req'[o] = req[o]
      PROVE  RaceInv'
  <2>1. \A p \in Properties : Racing(p)' \subseteq Racing(p)
    BY <1>2 DEF Racing
  <2> QED BY <1>1, <1>2, <2>1
<1>3. ASSUME NEW q \in Requests, BeginSome(q)
      PROVE  RaceInv'
  BY <1>2, <1>3 DEF BeginSome, BeginUpdateProperty, BeginProfileSettings,
     BeginBillingSettings, BeginArchiveProperty, BeginCreateRoom, BeginUpdateRoom,
     BeginArchiveRoom, Begin, EstateTyped, tables
<1>4. ASSUME NEW q \in Requests,
             \/ WriteProfile(q) \/ WriteBilling(q) \/ ArchiveTenants(q) \/ ArchiveRooms(q)
             \/ ArchiveProperty(q) \/ FindType(q) \/ WriteRoom(q) \/ DuplicateNumber(q)
             \/ ArchiveRoom(q) \/ Abandon(q)
      PROVE  RaceInv'
  <2>1. pc'[q] # "type_create" /\ UNCHANGED types
    BY <1>4 DEF WriteProfile, WriteBilling, ArchiveTenants, ArchiveRooms, ArchiveProperty,
       FindType, WriteRoom, DuplicateNumber, ArchiveRoom, Abandon, Finish, Goto, tables,
       EstateTyped
  <2>2. \A o \in Requests \ {q} : pc'[o] = pc[o] /\ req'[o] = req[o]
    BY <1>4, ProceedGoesOn DEF Proceed
  <2> QED BY <1>2, <2>1, <2>2
<1>5. ASSUME NEW q \in Requests, MissType(q)
      PROVE  RaceInv'
  <2>1. req[q].property \in Properties
    BY DEF EstateTyped, Request
  <2>2. types[req[q].property] = 0
    <3>1. TypesOf(req[q].property) = {}
      BY <1>5 DEF MissType
    <3>2. 1 .. types[req[q].property] = {}
      BY <3>1 DEF TypesOf
    <3> QED BY <1>0, <2>1, <3>2
  <2>3. UNCHANGED <<types, req>> /\ \A o \in Requests \ {q} : pc'[o] = pc[o]
    BY <1>5 DEF MissType, Goto, EstateTyped
  <2>4. ASSUME NEW p \in Properties, p # req[q].property
        PROVE  Racing(p)' = Racing(p)
    BY <2>3, <2>4 DEF Racing
  <2>5. ASSUME NEW p \in Properties
        PROVE  types'[p] + Cardinality(Racing(p)') <= Cardinality(Requests)
    <3>1. CASE p = req[q].property
      BY <1>0, <2>2, <2>3, <3>1
    <3>2. CASE p # req[q].property
      BY <1>0, <2>3, <2>4, <3>2
    <3> QED BY <3>1, <3>2
  <2> QED BY <2>5 DEF RaceInv
<1>6. ASSUME NEW q \in Requests, CreateRoomType(q)
      PROVE  RaceInv'
  <2>1. req[q].property \in Properties
    BY DEF EstateTyped, Request
  <2>2. /\ types' = [types EXCEPT ![req[q].property] = @ + 1]
        /\ pc[q] = "type_create" /\ pc'[q] = "room_write"
    BY <1>6 DEF CreateRoomType, Goto, EstateTyped
  <2>3. \A o \in Requests \ {q} : pc'[o] = pc[o] /\ req'[o] = req[o]
    BY <1>6, ProceedGoesOn DEF Proceed
  <2>4. ASSUME NEW p \in Properties
        PROVE  Racing(p)' = Racing(p) \ {q}
    BY <2>2, <2>3 DEF Racing
  <2>5. ASSUME NEW p \in Properties
        PROVE  types'[p] + Cardinality(Racing(p)') <= Cardinality(Requests)
    <3>1. CASE p = req[q].property
      <4>1. q \in Racing(p)
        BY <2>2, <3>1 DEF Racing
      <4>2. Cardinality(Racing(p)') = Cardinality(Racing(p)) - 1
        BY <1>0, <2>4, <4>1, FS_RemoveElement
      <4>3. types'[p] = types[p] + 1
        BY <2>1, <2>2, <3>1 DEF EstateTyped
      <4> QED BY <1>0, <4>2, <4>3
    <3>2. CASE p # req[q].property
      <4>1. Racing(p)' = Racing(p)
        BY <2>4, <3>2 DEF Racing
      <4>2. types'[p] = types[p]
        BY <2>2, <3>2 DEF EstateTyped
      <4> QED BY <1>0, <4>1, <4>2
    <3> QED BY <3>1, <3>2
  <2> QED BY <2>5 DEF RaceInv
<1>7. CASE CreateProperty
  BY <1>1, <1>7 DEF CreateProperty, Racing
<1>8. ASSUME NEW t \in Tenants, NEW p \in Properties, MoveIn(t, p)
      PROVE  RaceInv'
  <2>1. \A q \in Requests : req'[q].property = req[q].property
    BY <1>8 DEF MoveIn, EstateTyped, Request
  <2>2. UNCHANGED <<pc, types>>
    BY <1>8 DEF MoveIn
  <2>3. \A o \in Properties : Racing(o)' \subseteq Racing(o)
    BY <2>1, <2>2 DEF Racing
  <2> QED BY <1>1, <2>2, <2>3
<1> QED BY <1>3, <1>4, <1>5, <1>6, <1>7, <1>8 DEF EstateNext, Proceed

-----------------------------------------------------------------------------
(* Estate: the theorems *)

EstateInv == EstateTyped /\ RowsInv /\ TypesInv /\ HeldInv /\ FirstInv

\* Types are kept by the steps of the rest of the system as well.
LEMMA EstateTypeInductive ==
    ASSUME EstateTyped, RowsInv, EstateNext
    PROVE  EstateTyped'
<1>1. ASSUME NEW q \in Requests, BeginSome(q) \/ Proceed(q)
      PROVE  EstateTyped'
  BY <1>1, BeginsTyped, ProceedTyped
<1>2. ASSUME NEW q \in Requests, Abandon(q)
      PROVE  EstateTyped'
  BY <1>2, FinishTyped DEF Abandon, tables, EstateTyped
<1>3. CASE CreateProperty
  <2>1. PICK p \in Properties :
           /\ property' = [property EXCEPT ![p] = [state |-> "live", billing |-> FALSE]]
           /\ UNCHANGED <<room, types, tenant, pc, req, covered>>
    BY <1>3 DEF CreateProperty
  <2>2. [state |-> "live", billing |-> FALSE] \in PropertyRow
    BY DEF PropertyRow, State
  <2> QED BY <2>1, <2>2 DEF EstateTyped, RequestTyped
<1>4. ASSUME NEW t \in Tenants, NEW p \in Properties, MoveIn(t, p)
      PROVE  EstateTyped'
  <2>1. tenant' \in [Tenants -> TenantRow]
    BY <1>4 DEF MoveIn, EstateTyped, TenantRow
  <2>2. \A q \in Requests : [req[q] EXCEPT !.held = @ \ {t}] \in Request
                            /\ [req[q] EXCEPT !.held = @ \ {t}].room = req[q].room
    BY DEF EstateTyped, Request
  <2>3. req' \in [Requests -> Request] /\ \A q \in Requests : req'[q].room = req[q].room
    BY <1>4, <2>2 DEF MoveIn
  <2>4. covered' \in [Properties -> SUBSET (Rooms \cup Tenants)]
    BY <1>4 DEF MoveIn, EstateTyped
  <2> QED BY <1>4, <2>1, <2>3, <2>4 DEF MoveIn, EstateTyped, RequestTyped
<1> QED BY <1>1, <1>2, <1>3, <1>4 DEF EstateNext

\* Before the first request there is nothing but rooms and tenants without a property.
LEMMA EstateInitially == EstateInit => EstateInv
<1> SUFFICES ASSUME EstateInit
             PROVE  EstateInv
  OBVIOUS
<1>1. EstateTyped
  BY NoRequestTyped DEF EstateInit, EstateTyped, RequestTyped, PropertyRow, State, TenantRow,
     Steps, RoomSteps
<1>2. RowsInv
  BY NoRequestTyped DEF EstateInit, RowsInv, RoomOf
<1>3. TypesInv /\ HeldInv
  BY DEF EstateInit, TypesInv, TypeFound, RoomTypeIsOfProperty, HeldInv, HeldBy, CoverInv
<1>4. FirstInv
  BY DEF EstateInit, FirstInv, BillingOfFirstProperty
<1> QED BY <1>1, <1>2, <1>3, <1>4 DEF EstateInv

\* No step, and no stutter, disturbs the invariant.
LEMMA EstateInductive ==
    ASSUME EstateInv, [EstateNext]_estateVars
    PROVE  EstateInv'
<1>1. CASE EstateNext
  BY <1>1, EstateTypeInductive, RowsInductive, TypesInductive, HeldInductive,
     FirstInductive DEF EstateInv
<1>2. CASE UNCHANGED estateVars
  BY <1>2 DEF estateVars, EstateInv, EstateTyped, RequestTyped, RowsInv, RoomOf, TypesInv,
     TypeFound, RoomTypeIsOfProperty, HeldInv, HeldBy, CoverInv, RoomsOf, FirstInv,
     BillingOfFirstProperty
<1> QED BY <1>1, <1>2

\* The invariant holds in every state.
LEMMA EstateInvariant == EstateSpec => []EstateInv
BY EstateInitially, EstateInductive, PTL DEF EstateSpec

\* However requests on rooms interleave and fail, a room has a type of its own property.
THEOREM RoomTypesAreOfProperty == EstateSpec => []RoomTypeIsOfProperty
<1>1. EstateInv => RoomTypeIsOfProperty
  BY DEF EstateInv, TypesInv
<1> QED BY <1>1, EstateInvariant, PTL

\* Wherever requests that archive a property stop, and whatever is created, edited and
\* moved beside them, an archived property leaves nothing live of what it has had
\* since the request that archived it came.
THEOREM ArchivesAreWhole == EstateSpec => []ArchivedWithItsRooms
<1>1. EstateInv => ArchivedWithItsRooms
  BY DEF EstateInv, HeldInv, CoverInv, ArchivedWithItsRooms
<1> QED BY <1>1, EstateInvariant, PTL

\* However settings, creations and archivings interleave, the billing settings are those
\* of a property all of whose predecessors are archived.
THEOREM BillingIsOfFirst == EstateSpec => []BillingOfFirstProperty
<1>1. EstateInv => BillingOfFirstProperty
  BY DEF EstateInv, FirstInv
<1> QED BY <1>1, EstateInvariant, PTL

\* With any finite number of requests at once: an export is typed, and a property comes
\* to have no more types of one name than requests can race for the first.
THEOREM TypesAreBounded ==
    ASSUME IsFiniteSet(Requests)
    PROVE  Spec => []TypeOK
<1> DEFINE Inv == EstateInv /\ RaceInv /\ ExportInv
<1>1. Init => Inv
  <2> SUFFICES ASSUME Init
               PROVE  Inv
    OBVIOUS
  <2>1. EstateInv /\ ExportInv
    BY EstateInitially, ExportInitially DEF Init
  <2>2. \A p \in Properties : types[p] = 0 /\ Racing(p) = {}
    BY DEF Init, EstateInit, Racing
  <2>3. RaceInv
    BY <2>2, RacingIsFinite, FS_EmptySet DEF RaceInv
  <2> QED BY <2>1, <2>3
<1>2. ASSUME Inv, [Next]_<<estateVars, exportVars, moving>>
      PROVE  Inv'
  <2>1. [EstateNext]_estateVars /\ [ExportNext]_exportVars
    BY <1>2 DEF Next, MoveEstate, MoveExport
  <2>2. EstateInv' /\ ExportInv'
    BY <1>2, <2>1, EstateInductive, ExportKept
  <2>3. CASE EstateNext
    BY <1>2, <2>2, <2>3, RaceInductive DEF EstateInv
  <2>4. CASE UNCHANGED estateVars
    <3>1. UNCHANGED <<types, pc, req>>
      BY <2>4 DEF estateVars
    <3>2. ASSUME NEW p \in Properties
          PROVE  Racing(p)' = Racing(p)
      BY <3>1 DEF Racing
    <3>3. RaceInv'
      BY <1>2, <3>1, <3>2 DEF RaceInv
    <3> QED BY <2>2, <3>3
  <2> QED BY <2>1, <2>2, <2>3, <2>4
<1>3. Inv => TypeOK
  <2> SUFFICES ASSUME Inv
               PROVE  TypeOK
    OBVIOUS
  <2>1. ASSUME NEW p \in Properties
        PROVE  types[p] \in 0 .. Cardinality(Requests)
    <3>1. Racing(p) \in SUBSET Requests /\ types[p] \in Nat
          /\ types[p] + Cardinality(Racing(p)) <= Cardinality(Requests)
      BY DEF Racing, RaceInv, EstateInv, EstateTyped
    <3> QED BY <3>1, RacingIsFinite
  <2>2. types \in [Properties -> 0 .. Cardinality(Requests)]
    BY <2>1 DEF EstateInv, EstateTyped
  <2> QED BY <2>2 DEF EstateInv, EstateTyped, ExportInv, TypeOK, EstateTypeOK
<1> HIDE DEF Inv
<1> QED BY <1>1, <1>2, <1>3, PTL DEF Spec
=============================================================================
