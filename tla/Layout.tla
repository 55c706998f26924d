------------------------------- MODULE Layout -------------------------------
(***************************************************************************)
(* RoomService.UpdateLayout: the one operation of the program that opens a *)
(* transaction.  PostgreSQL keeps what a transaction writes to itself      *)
(* until it commits, holds a lock on each row it has written until it      *)
(* ends, and aborts one of several transactions that wait for one another. *)
(* UpdateRoom writes the same columns of one room in a statement of its    *)
(* own.                                                                    *)
(***************************************************************************)
EXTENDS Naturals, Sequences, FiniteSets, Functions

CONSTANTS
    Places,      \* rooms
    Clients,     \* requests
    Layouts,     \* the sequences of rooms that clients send, in their order
    Edit,        \* the position that UpdateRoom writes
    Origin       \* the position rooms have at first

ASSUME LayoutAssumption ==
    /\ Layouts \subseteq Seq(Places)
    /\ Edit \notin Clients /\ Origin \notin Clients

VARIABLES
    grid,        \* committed positions: the client whose layout set them
    phase,
    layout,      \* the rooms a transaction has still to write
    written,     \* the rooms it has written and therefore locked
    named        \* history: the rooms of the layout, all of them

layoutVars == <<grid, phase, layout, written, named>>

Locked(r) == \E c \in Clients : r \in written[c]
HeldByOther(c, r) == \E d \in Clients \ {c} : r \in written[d]

\* The transactions that cannot go on, each waiting for a lock of another of them.
WaitsFor(c, d) ==
    /\ phase[c] = "open"
    /\ layout[c] # <<>>
    /\ Head(layout[c]) \in written[d]
    /\ c # d

Deadlocked(c) ==
    \E S \in SUBSET Clients :
        /\ c \in S
        /\ \A d \in S : \E e \in S : WaitsFor(d, e)

-----------------------------------------------------------------------------
(* UpdateLayout *)

\* The owner's property is found live, and BeginTx.
BeginTx(c, s) ==
    /\ phase[c] = "idle"
    /\ phase' = [phase EXCEPT ![c] = "open"]
    /\ layout' = [layout EXCEPT ![c] = s]
    /\ named' = [named EXCEPT ![c] = Range(s)]
    /\ UNCHANGED <<grid, written>>

\* Mutant: the statement goes to s.queries, outside the transaction.
UpdateOutsideTx(c) ==
    /\ phase[c] = "open"
    /\ layout[c] # <<>>
    /\ ~HeldByOther(c, Head(layout[c]))
    /\ grid' = [grid EXCEPT ![Head(layout[c])] = c]
    /\ layout' = [layout EXCEPT ![c] = Tail(@)]
    /\ UNCHANGED <<phase, written, named>>

\* UpdateRoomLayout waits for the row's lock, and keeps it.
UpdateRoomLayout(c) ==
    /\ phase[c] = "open"
    /\ layout[c] # <<>>
    /\ ~HeldByOther(c, Head(layout[c]))
    /\ written' = [written EXCEPT ![c] = @ \cup {Head(layout[c])}]
    /\ layout' = [layout EXCEPT ![c] = Tail(@)]
    /\ UNCHANGED <<grid, phase, named>>

End(c) ==
    /\ phase' = [phase EXCEPT ![c] = "idle"]
    /\ layout' = [layout EXCEPT ![c] = <<>>]
    /\ written' = [written EXCEPT ![c] = {}]
    /\ named' = [named EXCEPT ![c] = {}]

Commit(c) ==
    /\ phase[c] = "open"
    /\ layout[c] = <<>>
    /\ grid' = [r \in Places |-> IF r \in written[c] THEN c ELSE grid[r]]
    /\ End(c)

\* Mutant: without the deferred Rollback the request ends and its transaction does not.
LeaveOpen(c) ==
    /\ phase[c] = "open"
    /\ phase' = [phase EXCEPT ![c] = "idle"]
    /\ layout' = [layout EXCEPT ![c] = <<>>]
    /\ UNCHANGED <<grid, written, named>>

\* A statement or the commit fails, a room_id does not parse, the client leaves or the
\* process dies: the deferred Rollback, or the end of the connection, releases all.
Rollback(c) ==
    /\ phase[c] = "open"
    /\ End(c)
    /\ UNCHANGED grid

\* The database aborts a transaction of a cycle; its statement fails, and Rollback.
AbortDeadlocked(c) ==
    /\ Deadlocked(c)
    /\ Rollback(c)

\* UpdateRoom and CreateRoom set a position in one statement, which waits for the lock.
EditRoom(r) ==
    /\ ~Locked(r)
    /\ grid' = [grid EXCEPT ![r] = Edit]
    /\ UNCHANGED <<phase, layout, written, named>>

-----------------------------------------------------------------------------
(* The specification *)

LayoutInit ==
    /\ grid = [r \in Places |-> Origin]
    /\ phase = [c \in Clients |-> "idle"]
    /\ layout = [c \in Clients |-> <<>>]
    /\ written = [c \in Clients |-> {}]
    /\ named = [c \in Clients |-> {}]

LayoutNext ==
    \/ \E c \in Clients :
          \/ \E s \in Layouts : BeginTx(c, s)
          \/ UpdateRoomLayout(c) \/ Commit(c) \/ Rollback(c) \/ AbortDeadlocked(c)
    \/ \E r \in Places : EditRoom(r)

LayoutSpec == LayoutInit /\ [][LayoutNext]_layoutVars

\* The loop goes on, locks are granted in the order they are asked for, and
\* deadlock_timeout expires.  Nothing makes a statement fail.
LayoutFairness ==
    \A c \in Clients :
        /\ WF_layoutVars(Commit(c))
        /\ SF_layoutVars(UpdateRoomLayout(c))
        /\ WF_layoutVars(AbortDeadlocked(c))

-----------------------------------------------------------------------------
(* Properties *)

\* Type invariant: no row is locked twice.
LayoutTypeOK ==
    /\ grid \in [Places -> Clients \cup {Edit, Origin}]
    /\ phase \in [Clients -> {"idle", "open"}]
    /\ layout \in [Clients -> Seq(Places)]
    /\ written \in [Clients -> SUBSET Places]
    /\ named \in [Clients -> SUBSET Places]
    /\ \A c, d \in Clients : c # d => written[c] \cap written[d] = {}
    /\ \A c \in Clients : named[c] = written[c] \cup Range(layout[c])

\* The promise: a layout moves all the rooms it names in one step, and otherwise a room
\* moves only by an edit of its own.  Two layouts at once never mix.
AtomicStep ==
    \/ \E c \in Clients : grid' = [r \in Places |-> IF r \in named[c] THEN c ELSE grid[r]]
    \/ \E r \in Places : grid' = [grid EXCEPT ![r] = Edit]

LayoutIsWhole == [][AtomicStep]_grid

\* Every layout is answered, although two that name the same rooms in different orders
\* wait for one another: the one that is aborted releases what it holds.
LayoutEnds == \A c \in Clients : phase[c] = "open" ~> phase[c] = "idle"
=============================================================================
