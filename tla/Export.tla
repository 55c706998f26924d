------------------------------- MODULE Export -------------------------------
(***************************************************************************)
(* ExportData of internal/service/settings.go: six SELECTs, one after      *)
(* another and in no transaction, while other requests insert and archive. *)
(*                                                                         *)
(* A row is its table, its property and, for a payment, its bill.  Rows of *)
(* these tables are never deleted; a property and a room may be archived.  *)
(* All properties are of the owner who exports, and a tenant keeps its     *)
(* property while the export runs.                                         *)
(***************************************************************************)
EXTENDS Naturals, FiniteSets

CONSTANTS
    Estates,     \* properties
    Records,     \* rows of the other five tables
    NoBill

Tables == {"rooms", "tenants", "contracts", "bills", "payments"}

ASSUME ExportAssumption ==
    \A x \in Records :
        /\ x.table \in Tables
        /\ x.estate \in Estates
        /\ x.table # "payments" => x.bill = NoBill
        /\ x.table = "payments" => /\ x.bill \in Records
                                   /\ x.bill.table = "bills"
                                   /\ x.bill.estate = x.estate

\* A primary key names one row of one table.
ASSUME NamesAreDistinct == Estates \cap Records = {} /\ NoBill \notin Estates \cup Records

VARIABLES
    open,        \* properties that exist and are not archived
    closed,      \* archived properties
    stored,      \* rows that exist
    shut,        \* archived rooms
    reading,     \* the table the export reads next, "idle" or "answered"
    exported,    \* what it has read
    ready        \* history: what existed when it came

exportVars == <<open, closed, stored, shut, reading, exported, ready>>
tablesOfExport == <<open, closed, stored, shut>>

InLiveProperty(t) == {x \in stored : x.table = t /\ x.estate \in open}

-----------------------------------------------------------------------------
(* The six reads *)

Read(t, rows, next) ==
    /\ reading = t
    /\ exported' = exported \cup rows
    /\ reading' = next
    /\ UNCHANGED <<tablesOfExport, ready>>

BeginExport ==
    /\ reading = "idle"
    /\ reading' = "properties"
    /\ ready' = open \cup closed \cup stored
    /\ UNCHANGED <<tablesOfExport, exported>>

ExportProperties == Read("properties", open, "rooms")

\* Both the room and its property must not be archived.
ExportRooms == Read("rooms", InLiveProperty("rooms") \ shut, "tenants")

\* An archived tenant is exported all the same.
ExportTenants   == Read("tenants", InLiveProperty("tenants"), "contracts")
ExportContracts == Read("contracts", InLiveProperty("contracts"), "bills")
ExportBills     == Read("bills", InLiveProperty("bills"), "payments")

\* Mutant: p.archived_at IS NULL is left out of the join.
PaymentsOfAnyProperty ==
    Read("payments", {x \in stored : x.table = "payments"}, "answered")

\* Joined with their bills and the bills' properties.
ExportPayments == Read("payments", InLiveProperty("payments"), "answered")

\* The answer, CSV or JSON, holds what was read, and the next export starts afresh.
Answer ==
    /\ reading = "answered"
    /\ reading' = "idle"
    /\ exported' = {}
    /\ ready' = {}
    /\ UNCHANGED tablesOfExport

\* A SELECT fails or the client leaves: 500, and nothing is sent.
FailExport ==
    /\ reading \notin {"idle", "answered"}
    /\ reading' = "idle"
    /\ exported' = {}
    /\ ready' = {}
    /\ UNCHANGED tablesOfExport

-----------------------------------------------------------------------------
(* The rest of the system *)

OpenProperty(p) ==
    /\ p \notin open \cup closed
    /\ open' = open \cup {p}
    /\ UNCHANGED <<closed, stored, shut, reading, exported, ready>>

\* Foreign keys: the property first, and a payment's bill.  A request that found the
\* property live may insert after it has been archived.
InsertRecord(x) ==
    /\ x \notin stored
    /\ x.estate \in open \cup closed
    /\ x.bill # NoBill => x.bill \in stored
    /\ stored' = stored \cup {x}
    /\ UNCHANGED <<open, closed, shut, reading, exported, ready>>

CloseRoom(x) ==
    /\ x \in stored
    /\ x.table = "rooms"
    /\ shut' = shut \cup {x}
    /\ UNCHANGED <<open, closed, stored, reading, exported, ready>>

CloseProperty(p) ==
    /\ p \in open
    /\ open' = open \ {p}
    /\ closed' = closed \cup {p}
    /\ UNCHANGED <<stored, shut, reading, exported, ready>>

-----------------------------------------------------------------------------
(* The specification *)

ExportInit ==
    /\ open = {}
    /\ closed = {}
    /\ stored = {}
    /\ shut = {}
    /\ reading = "idle"
    /\ exported = {}
    /\ ready = {}

ExportNext ==
    \/ BeginExport \/ ExportProperties \/ ExportRooms \/ ExportTenants \/ ExportContracts
    \/ ExportBills \/ ExportPayments \/ Answer \/ FailExport
    \/ \E p \in Estates : OpenProperty(p) \/ CloseProperty(p)
    \/ \E x \in Records : InsertRecord(x) \/ CloseRoom(x)

ExportSpec == ExportInit /\ [][ExportNext]_exportVars

-----------------------------------------------------------------------------
(* Properties *)

\* Type invariant.
ExportTypeOK ==
    /\ open \subseteq Estates
    /\ closed \subseteq Estates \ open
    /\ stored \subseteq Records
    /\ shut \subseteq stored
    /\ reading \in Tables \cup {"idle", "properties", "answered"}
    /\ exported \subseteq open \cup closed \cup stored
    /\ ready \subseteq open \cup closed \cup stored

\* What an export names and could have read, it has: the property of every row and the
\* bill of every payment are in it, unless they are younger than the request.  Rows may
\* be missing that came, or whose property was archived, while it read; and a contract
\* may name an archived room, whose row it leaves out.
ExportHasItsParents ==
    reading = "answered" =>
        \A x \in exported \cap Records :
            /\ x.estate \in ready => x.estate \in exported
            /\ x.bill \in ready => x.bill \in exported
=============================================================================
