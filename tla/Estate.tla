------------------------------- MODULE Estate -------------------------------
(***************************************************************************)
(* Properties, their settings, their rooms and room types, for one owner:  *)
(* internal/service/property.go, room_service.go and the settings of       *)
(* internal/service/settings.go.                                           *)
(*                                                                         *)
(* One action is one SQL statement, or one statement and the ownership     *)
(* lookup before it.  Layouts are in Layout.tla; rooms.status is in        *)
(* Occupancy.tla.  One room type name is enough: others never meet it.     *)
(* Failed lookups write nothing and are left out, as are audit entries.    *)
(***************************************************************************)
EXTENDS Naturals, FiniteSets

CONSTANTS
    MaxProperties,   \* bound: properties are numbered as they are created
    Rooms,
    Tenants,
    Numbers,         \* rooms.number
    Requests,
    None

ASSUME EstateAssumption ==
    /\ MaxProperties \in Nat \ {0}
    /\ Numbers # {}
    /\ None \notin Rooms
    /\ Rooms \cap Tenants = {}

VARIABLES
    property,
    room,
    types,       \* how many types of the one name a property has, numbered from 1
    tenant,
    pc,
    req,
    covered      \* history: what a property has held ever since the request came that
                 \* archived it

estateVars == <<property, room, types, tenant, pc, req, covered>>

Properties == 1 .. MaxProperties
State      == {"none", "live", "archived"}
RoomType   == [property : Properties, n : Nat \ {0}]

\* billing: do its billing columns hold a configuration.  The profile columns (name,
\* address, bank account) are data that nothing here reads.
PropertyRow == [state : State, billing : BOOLEAN]
RoomRow     == [property : Properties, number : Numbers, type : RoomType, archived : BOOLEAN]

ASSUME NoneIsNoRow == None \notin RoomRow

TenantRow   == [property : Properties \cup {None}, archived : BOOLEAN]
Request     == [property : Properties, room : Rooms \cup {None}, number : Numbers,
                new : BOOLEAN, type : RoomType, held : SUBSET (Rooms \cup Tenants)]

Steps == {"idle", "type_get", "type_create", "room_write", "room_archive", "profile",
          "billing", "tenants", "rooms", "property"}

NoRequest == [property |-> 1, room |-> None, number |-> CHOOSE n \in Numbers : TRUE,
              new |-> FALSE, type |-> [property |-> 1, n |-> 1], held |-> {}]

Begin(q, l, r) ==
    /\ pc[q] = "idle"
    /\ pc' = [pc EXCEPT ![q] = l]
    /\ req' = [req EXCEPT ![q] = r]

Goto(q, l) == pc' = [pc EXCEPT ![q] = l]

Finish(q) ==
    /\ Goto(q, "idle")
    /\ req' = [req EXCEPT ![q] = NoRequest]

tables == <<property, room, types, tenant, covered>>

-----------------------------------------------------------------------------
(* Properties and settings *)

\* GetProperty: WHERE archived_at IS NULL.
Live(p) == property[p].state = "live"

\* Mutant: ORDER BY created_at is left out.
AnyLive(p) == Live(p)

\* GetSettingsByOwner: the live property created first.
Primary(p) == Live(p) /\ \A o \in Properties : Live(o) => p <= o

CreateProperty ==
    \E p \in Properties :
        /\ property[p].state = "none"
        /\ \A o \in 1 .. p - 1 : property[o].state # "none"
        /\ property' = [property EXCEPT ![p] = [state |-> "live", billing |-> FALSE]]
        /\ UNCHANGED <<room, types, tenant, pc, req, covered>>

BeginUpdateProperty(q, p) ==
    /\ Live(p)
    /\ Begin(q, "profile", [NoRequest EXCEPT !.property = p])
    /\ UNCHANGED tables

BeginProfileSettings(q, p) ==
    /\ Primary(p)
    /\ Begin(q, "profile", [NoRequest EXCEPT !.property = p])
    /\ UNCHANGED tables

\* UpdateProperty and UpdateProfileSettings write the same columns, by primary key: of
\* a property that may be archived by now.
WriteProfile(q) ==
    /\ pc[q] = "profile"
    /\ Finish(q)
    /\ UNCHANGED tables

BeginBillingSettings(q, p) ==
    /\ Primary(p)
    /\ Begin(q, "billing", [NoRequest EXCEPT !.property = p])
    /\ UNCHANGED tables

\* Nothing else ever sets these columns.
WriteBilling(q) ==
    /\ pc[q] = "billing"
    /\ property' = [property EXCEPT ![req[q].property].billing = TRUE]
    /\ Finish(q)
    /\ UNCHANGED <<room, types, tenant, covered>>

-----------------------------------------------------------------------------
(* ArchiveProperty: tenants, rooms and the property, one after another *)

RoomsOf(p)   == {r \in Rooms : room[r] # None /\ room[r].property = p}
TenantsOf(p) == {t \in Tenants : tenant[t].property = p}

BeginArchiveProperty(q, p) ==
    /\ Live(p)
    /\ Begin(q, "tenants",
             [NoRequest EXCEPT !.property = p, !.held = RoomsOf(p) \cup TenantsOf(p)])
    /\ UNCHANGED tables

ArchiveTenants(q) ==
    /\ pc[q] = "tenants"
    /\ tenant' = [t \in Tenants |->
                    IF t \in TenantsOf(req[q].property)
                    THEN [tenant[t] EXCEPT !.archived = TRUE] ELSE tenant[t]]
    /\ Goto(q, "rooms")
    /\ UNCHANGED <<property, room, types, req, covered>>

\* Mutant: a failure of the statement is ignored, as those of other writes are.
ArchiveRoomsOrNot(q) ==
    /\ pc[q] = "rooms"
    /\ room' \in {room, [r \in Rooms |->
                         IF r \in RoomsOf(req[q].property)
                         THEN [room[r] EXCEPT !.archived = TRUE] ELSE room[r]]}
    /\ Goto(q, "property")
    /\ UNCHANGED <<property, types, tenant, req, covered>>

ArchiveRooms(q) ==
    /\ pc[q] = "rooms"
    /\ room' = [r \in Rooms |->
                  IF r \in RoomsOf(req[q].property)
                  THEN [room[r] EXCEPT !.archived = TRUE] ELSE room[r]]
    /\ Goto(q, "property")
    /\ UNCHANGED <<property, types, tenant, req, covered>>

ArchiveProperty(q) ==
    /\ pc[q] = "property"
    /\ LET p == req[q].property
       IN  /\ property' = [property EXCEPT ![p].state = "archived"]
           /\ covered' = [covered EXCEPT ![p] = req[q].held]
    /\ Finish(q)
    /\ UNCHANGED <<room, types, tenant>>

-----------------------------------------------------------------------------
(* Rooms and room types *)

BeginCreateRoom(q, p, r, n) ==
    /\ Live(p)
    /\ room[r] = None
    /\ \A o \in Requests : ~(req[o].new /\ req[o].room = r)
    /\ Begin(q, "type_get",
             [NoRequest EXCEPT !.property = p, !.room = r, !.number = n, !.new = TRUE])
    /\ UNCHANGED tables

\* GetRoom does not look at archived_at; the property must be live.
BeginUpdateRoom(q, r, n) ==
    /\ room[r] # None
    /\ Live(room[r].property)
    /\ Begin(q, "type_get",
             [NoRequest EXCEPT !.property = room[r].property, !.room = r, !.number = n])
    /\ UNCHANGED tables

\* Mutant: GetRoomTypeByName looks for the name in all properties.
TypesAnywhere(p) == UNION {{[property |-> o, n |-> n] : n \in 1 .. types[o]} : o \in Properties}

\* GetRoomTypeByName, by property and name.
TypesOf(p) == {[property |-> p, n |-> n] : n \in 1 .. types[p]}

\* LIMIT 1 without ORDER BY: any of them.
FindType(q) ==
    /\ pc[q] = "type_get"
    /\ \E t \in TypesOf(req[q].property) : req' = [req EXCEPT ![q].type = t]
    /\ Goto(q, "room_write")
    /\ UNCHANGED tables

\* Mutant: a type is created whether or not there is one.
MissAnyType(q) ==
    /\ pc[q] = "type_get"
    /\ Goto(q, "type_create")
    /\ UNCHANGED <<property, room, types, tenant, covered, req>>

MissType(q) ==
    /\ pc[q] = "type_get"
    /\ TypesOf(req[q].property) = {}
    /\ Goto(q, "type_create")
    /\ UNCHANGED <<property, room, types, tenant, covered, req>>

\* No UNIQUE constraint on property and name.
CreateRoomType(q) ==
    /\ pc[q] = "type_create"
    /\ LET p == req[q].property
       IN  /\ types' = [types EXCEPT ![p] = @ + 1]
           /\ req' = [req EXCEPT ![q].type = [property |-> p, n |-> types[p] + 1]]
    /\ Goto(q, "room_write")
    /\ UNCHANGED <<property, room, tenant, covered>>

\* UNIQUE (property_id, number), archived rooms included.
NumberTaken(q) ==
    \E o \in RoomsOf(req[q].property) \ {req[q].room} : room[o].number = req[q].number

\* CreateRoom inserts and UpdateRoom updates; the type is the one that was found.
WriteRoom(q) ==
    /\ pc[q] = "room_write"
    /\ ~NumberTaken(q)
    /\ room' = [room EXCEPT ![req[q].room] =
                  [property |-> req[q].property, number |-> req[q].number,
                   type |-> req[q].type, archived |-> ~req[q].new /\ @.archived]]
    /\ Finish(q)
    /\ UNCHANGED <<property, types, tenant, covered>>

\* ErrDuplicateRoomNumber: a type that was created for the room stays.
DuplicateNumber(q) ==
    /\ pc[q] = "room_write"
    /\ NumberTaken(q)
    /\ Finish(q)
    /\ UNCHANGED tables

BeginArchiveRoom(q, r) ==
    /\ room[r] # None
    /\ Live(room[r].property)
    /\ Begin(q, "room_archive", [NoRequest EXCEPT !.room = r])
    /\ UNCHANGED tables

ArchiveRoom(q) ==
    /\ pc[q] = "room_archive"
    /\ room' = [room EXCEPT ![req[q].room].archived = TRUE]
    /\ Finish(q)
    /\ UNCHANGED <<property, types, tenant, covered>>

-----------------------------------------------------------------------------
(* The rest of the system *)

\* A check-in files the tenant under the property, which it may have found live some
\* time ago; no check-out takes that back.
MoveIn(t, p) ==
    /\ property[p].state # "none"
    /\ tenant[t].property # p
    /\ tenant' = [tenant EXCEPT ![t].property = p]
    /\ req' = [q \in Requests |-> [req[q] EXCEPT !.held = @ \ {t}]]
    /\ covered' = [o \in Properties |-> covered[o] \ {t}]
    /\ UNCHANGED <<property, room, types, pc>>

\* A statement fails, or the request dies between two; a statement that takes effect
\* and reports an error is one followed by this.
Abandon(q) ==
    /\ pc[q] # "idle"
    /\ Finish(q)
    /\ UNCHANGED tables

-----------------------------------------------------------------------------
(* The specification *)

EstateInit ==
    /\ property = [p \in Properties |-> [state |-> "none", billing |-> FALSE]]
    /\ room = [r \in Rooms |-> None]
    /\ types = [p \in Properties |-> 0]
    /\ tenant = [t \in Tenants |-> [property |-> None, archived |-> FALSE]]
    /\ pc = [q \in Requests |-> "idle"]
    /\ req = [q \in Requests |-> NoRequest]
    /\ covered = [p \in Properties |-> {}]

BeginSome(q) ==
    \/ \E p \in Properties :
          \/ BeginUpdateProperty(q, p) \/ BeginProfileSettings(q, p)
          \/ BeginBillingSettings(q, p)
          \/ BeginArchiveProperty(q, p)
          \/ \E r \in Rooms, n \in Numbers : BeginCreateRoom(q, p, r, n)
    \/ \E r \in Rooms :
          \/ \E n \in Numbers : BeginUpdateRoom(q, r, n)
          \/ BeginArchiveRoom(q, r)

Proceed(q) ==
    \/ WriteProfile(q) \/ WriteBilling(q)
    \/ ArchiveTenants(q) \/ ArchiveRooms(q) \/ ArchiveProperty(q)
    \/ FindType(q) \/ MissType(q) \/ CreateRoomType(q)
    \/ WriteRoom(q) \/ DuplicateNumber(q) \/ ArchiveRoom(q)

EstateNext ==
    \/ \E q \in Requests : BeginSome(q) \/ Proceed(q) \/ Abandon(q)
    \/ CreateProperty
    \/ \E t \in Tenants, p \in Properties : MoveIn(t, p)

EstateSpec == EstateInit /\ [][EstateNext]_estateVars

-----------------------------------------------------------------------------
(* Properties *)

\* Type invariant.  A property gets a second type of a name only from requests that
\* looked for the first before it was there: no more types than requests can race.
EstateTypeOK ==
    /\ property \in [Properties -> PropertyRow]
    /\ room \in [Rooms -> RoomRow \cup {None}]
    /\ types \in [Properties -> 0 .. Cardinality(Requests)]
    /\ tenant \in [Tenants -> TenantRow]
    /\ pc \in [Requests -> Steps]
    /\ req \in [Requests -> Request]
    /\ covered \in [Properties -> SUBSET (Rooms \cup Tenants)]

\* Wherever ArchiveProperty stops and whatever runs beside it, a property is archived
\* only after the rooms and tenants it has had since the request came: none of them is
\* left live under a property that no lookup finds any more.
ArchivedWithItsRooms ==
    \A p \in Properties : property[p].state = "archived" =>
        \A x \in covered[p] :
            /\ x \in Rooms => room[x].archived
            /\ x \in Tenants => tenant[x].archived

\* A room has a type of its own property, although the schema only asks for a type and
\* requests look the name up and create it in several statements.
RoomTypeIsOfProperty ==
    \A r \in Rooms : room[r] # None =>
        room[r].type.property = room[r].property /\ room[r].type.n <= types[room[r].property]

\* The billing configuration is kept with the owner's first property and nowhere else:
\* a property has one of its own only if all earlier ones have been archived.
BillingOfFirstProperty ==
    \A p \in Properties : property[p].billing =>
        \A o \in 1 .. p - 1 : property[o].state = "archived"
=============================================================================
