------------------------------- MODULE People -------------------------------
(***************************************************************************)
(* Profiles: internal/service/auth.go, and AddStaff of settings.go, over   *)
(* the table profiles.                                                     *)
(*                                                                         *)
(* Approve reads a profile, sends an e-mail and changes nothing.  The      *)
(* middleware falls back to the role of the token when its lookup fails    *)
(* for any reason, and a token may carry any role: so whoever calls, the   *)
(* role check may let the call through, and no guard here stands for it.   *)
(***************************************************************************)
EXTENDS Naturals, FiniteSets

CONSTANTS
    Users,
    Requests,
    None

Roles == {"owner", "tenant", "staff"}

ASSUME PeopleAssumption == None \notin Users \cup Roles

VARIABLES
    profile,     \* the role in a user's row of profiles, or None
    linked,      \* users that a row of another table refers to
    pc,
    req,
    told         \* history: roles that Register has answered for the present row

peopleVars == <<profile, linked, pc, req, told>>

Request   == [user : Users \cup {None}, role : Roles]
NoRequest == [user |-> None, role |-> "tenant"]

\* What profileExists means to a foreign key, or to GetProfile.
Registered(u) == profile[u] # None

Begin(q, l, u, r) ==
    /\ pc[q] = "idle"
    /\ pc' = [pc EXCEPT ![q] = l]
    /\ req' = [req EXCEPT ![q] = [user |-> u, role |-> r]]

Finish(q) ==
    /\ pc' = [pc EXCEPT ![q] = "idle"]
    /\ req' = [req EXCEPT ![q] = NoRequest]

-----------------------------------------------------------------------------
(* Register *)

\* The profile is there: it is returned as it is, whatever role was asked for.
RegisterKnown(u) ==
    /\ Registered(u)
    /\ told' = [told EXCEPT ![u] = @ \cup {profile[u]}]
    /\ UNCHANGED <<profile, linked, pc, req>>

\* Mutant: without the default of the role.
RegisterUndefaulted(q, u, asked) ==
    /\ ~Registered(u)
    /\ Begin(q, "upsert", u, asked)
    /\ UNCHANGED <<profile, linked, told>>

\* No role means tenant; another word than the three is refused.
RegisterNew(q, u, asked) ==
    /\ ~Registered(u)
    /\ Begin(q, "upsert", u, IF asked = None THEN "tenant" ELSE asked)
    /\ UNCHANGED <<profile, linked, told>>

Upserted(u, r) ==
    /\ profile' = [profile EXCEPT ![u] = r]
    /\ told' = [told EXCEPT ![u] = @ \cup {r}]

\* Mutant: role = EXCLUDED.role in the ON CONFLICT clause.
UpsertEverything(q) ==
    /\ pc[q] = "upsert"
    /\ Upserted(req[q].user, req[q].role)
    /\ Finish(q)
    /\ UNCHANGED linked

\* UpsertProfile: another registration may have made the row since the lookup, and
\* its role stays.  The row is returned as it is after the statement.
UpsertProfile(q) ==
    /\ pc[q] = "upsert"
    /\ LET u == req[q].user
       IN  Upserted(u, IF Registered(u) THEN profile[u] ELSE req[q].role)
    /\ Finish(q)
    /\ UNCHANGED linked

-----------------------------------------------------------------------------
(* Reject *)

\* The profile is read, and the e-mail that says so goes out before the delete is
\* tried.
Reject(q, u) ==
    /\ Registered(u)
    /\ Begin(q, "delete", u, "tenant")
    /\ UNCHANGED <<profile, linked, told>>

\* Foreign keys refuse the delete of a profile that any row refers to.  Deleting a row
\* that has gone succeeds; one that was registered anew is deleted.
DeleteProfile(q) ==
    /\ pc[q] = "delete"
    /\ LET u == req[q].user
       IN  /\ u \notin linked
           /\ profile' = [profile EXCEPT ![u] = None]
           /\ told' = [told EXCEPT ![u] = {}]
    /\ Finish(q)
    /\ UNCHANGED linked

\* Refused, failed or cancelled: the profile stays.
Abandon(q) ==
    /\ pc[q] # "idle"
    /\ Finish(q)
    /\ UNCHANGED <<profile, linked, told>>

-----------------------------------------------------------------------------
(* Invite and AddStaff *)

\* Both read the caller's profile and insert an invitation that refers to it; the
\* e-mail may fail unnoticed.  No operation ever uses an invitation up.
Invite(u) ==
    /\ Registered(u)
    /\ linked' = linked \cup {u}
    /\ UNCHANGED <<profile, pc, req, told>>

-----------------------------------------------------------------------------
(* The specification *)

PeopleInit ==
    /\ profile = [u \in Users |-> None]
    /\ linked = {}
    /\ pc = [q \in Requests |-> "idle"]
    /\ req = [q \in Requests |-> NoRequest]
    /\ told = [u \in Users |-> {}]

PeopleNext ==
    \/ \E u \in Users : RegisterKnown(u) \/ Invite(u)
    \/ \E q \in Requests :
          \/ \E u \in Users :
                \/ \E r \in Roles \cup {None} : RegisterNew(q, u, r)
                \/ Reject(q, u)
          \/ UpsertProfile(q) \/ DeleteProfile(q) \/ Abandon(q)

PeopleSpec == PeopleInit /\ [][PeopleNext]_peopleVars

-----------------------------------------------------------------------------
(* Properties *)

\* Type invariant: what a row refers to exists.
PeopleTypeOK ==
    /\ profile \in [Users -> Roles \cup {None}]
    /\ linked \in SUBSET {u \in Users : Registered(u)}
    /\ pc \in [Requests -> {"idle", "upsert", "delete"}]
    /\ req \in [Requests -> Request]
    /\ \A q \in Requests : pc[q] # "idle" => req[q].user \in Users
    /\ told \in [Users -> SUBSET Roles]

\* "If the profile already exists, the existing role is preserved": however many
\* registrations of a user race, with different roles and with rejections, all that
\* are answered while the profile stays were told the role it has.
RoleKept == \A u \in Users : told[u] \subseteq {profile[u]}
=============================================================================
