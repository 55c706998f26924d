------------------------------- MODULE Outbox -------------------------------
(***************************************************************************)
(* What users are told, in the application and by e-mail, by announcements *)
(* and tickets: internal/service/announcement.go, notification_service.go, *)
(* message_service.go and UpdateTicket of ticket.go, over the profiles of  *)
(* People.                                                                 *)
(*                                                                         *)
(* The tenants are those of one owner's property, each with one ticket at  *)
(* most.  Equal notifications are one: how often one was sent is left out, *)
(* and so is is_read, which a user sets on its own and no statement tests. *)
(* An e-mail that may not go out need not: the address may be missing and  *)
(* the service may fail, and neither is noticed.                           *)
(***************************************************************************)
EXTENDS People

CONSTANTS
    Writers,           \* requests of owners that announce or update a ticket
    Statuses,          \* what UpdateTicket is asked to set
    MaxAnnouncements,  \* bound: announcements are numbered as they are inserted
    MaxNotes           \* bound: notifications kept

VARIABLES
    tenancy,     \* of the property, "active" or "away": archived, blacklisted, or moved
    ticket,      \* status of a tenant's ticket, or None
    announced,   \* announcements inserted
    notes,       \* notifications
    mails,       \* history: e-mails sent
    step,
    work,
    had          \* history: every status a tenant's ticket has had

outboxVars == <<tenancy, ticket, announced, notes, mails, step, work, had>>

Announcements == 1 .. MaxAnnouncements
TicketStatus  == {"open", "in_progress", "resolved"}

ASSUME OutboxAssumption ==
    /\ Statuses \subseteq TicketStatus
    /\ None \notin TicketStatus
    /\ MaxAnnouncements \in Nat

\* What a notification or an e-mail is about.
News == [to : Users, topic : {"announcement"}, about : Announcements]
          \cup [to : Users, topic : {"update"}, about : TicketStatus]
          \cup [to : Users, topic : {"request"}, about : Users]

Tell(u, topic, about) == [to |-> u, topic |-> topic, about |-> about]

Work   == [id : 0 .. MaxAnnouncements, asked : SUBSET Users, targets : SUBSET Users,
           notified : SUBSET Users, tenant : Users \cup {None},
           status : TicketStatus \cup {None}]
NoWork == [id |-> 0, asked |-> {}, targets |-> {}, notified |-> {}, tenant |-> None,
           status |-> None]

Steps == {"idle", "asked", "active", "fan_out", "answered", "update", "notify", "mail"}

At(w, l) == step[w] = l

Turn(w, l) == step' = [step EXCEPT ![w] = l]

Note(w, r) == work' = [work EXCEPT ![w] = r]

Close(w) == Turn(w, "idle") /\ Note(w, NoWork)

\* CreateNotification: user_id refers to a profile.
Insert(n) ==
    /\ Registered(n.to)
    /\ n \in notes \/ Cardinality(notes) < MaxNotes
    /\ notes' = notes \cup {n}
    /\ linked' = linked \cup {n.to}

NoInsert == UNCHANGED <<notes, linked>>

\* An insert that reports an error has taken effect or not.
FailedInsert(n) == Insert(n) \/ NoInsert

-----------------------------------------------------------------------------
(* CreateAnnouncement *)

\* The row is inserted before anyone is looked up.
CreateAnnouncement(w, o, asked) ==
    /\ At(w, "idle")
    /\ Registered(o)
    /\ announced < MaxAnnouncements
    /\ announced' = announced + 1
    /\ linked' = linked \cup {o}
    /\ Turn(w, IF asked # {} THEN "asked" ELSE "active")
    /\ Note(w, [NoWork EXCEPT !.id = announced + 1, !.asked = asked])
    /\ UNCHANGED <<profile, pc, req, told, tenancy, ticket, notes, mails, had>>

\* Named users, one lookup each: any profile will do, a tenant or not; one that is not
\* found, or whose lookup fails, is skipped.
ResolveAsked(w, u) ==
    /\ At(w, "asked")
    /\ u \in work[w].asked
    /\ \E found \in IF Registered(u) THEN {{u}, {}} ELSE {{}} :
          Note(w, [work[w] EXCEPT !.asked = @ \ {u}, !.targets = @ \cup found])
    /\ Turn(w, IF work[w].asked = {u} THEN "fan_out" ELSE "asked")
    /\ UNCHANGED <<peopleVars, tenancy, ticket, announced, notes, mails, had>>

\* GetActiveTenantsByProperty and GetActiveTenantsByOwner.
ActiveTenants == {u \in Users : tenancy[u] = "active"}

ResolveActive(w) ==
    /\ At(w, "active")
    /\ Note(w, [work[w] EXCEPT !.targets = ActiveTenants])
    /\ Turn(w, "fan_out")
    /\ UNCHANGED <<peopleVars, tenancy, ticket, announced, notes, mails, had>>

\* A notification, and then perhaps an e-mail.
NotifyTarget(w, u) ==
    /\ At(w, "fan_out")
    /\ u \in work[w].targets
    /\ LET n == Tell(u, "announcement", work[w].id)
       IN  Insert(n) /\ mails' \in {mails, mails \cup {n}}
    /\ Note(w, [work[w] EXCEPT !.targets = @ \ {u}, !.notified = @ \cup {u}])
    /\ UNCHANGED <<profile, pc, req, told, tenancy, ticket, announced, step, had>>

\* Mutant: the tenant is counted although the insert failed.
CountTarget(w, u) ==
    /\ At(w, "fan_out")
    /\ u \in work[w].targets
    /\ FailedInsert(Tell(u, "announcement", work[w].id))
    /\ Note(w, [work[w] EXCEPT !.targets = @ \ {u}, !.notified = @ \cup {u}])
    /\ UNCHANGED <<profile, pc, req, told, tenancy, ticket, announced, mails, step, had>>

\* The insert failed, perhaps because the profile has been deleted since: the next
\* one is tried.
SkipTarget(w, u) ==
    /\ At(w, "fan_out")
    /\ u \in work[w].targets
    /\ FailedInsert(Tell(u, "announcement", work[w].id))
    /\ Note(w, [work[w] EXCEPT !.targets = @ \ {u}])
    /\ UNCHANGED <<profile, pc, req, told, tenancy, ticket, announced, mails, step, had>>

\* 201, with the tenants that were notified.
AnswerAnnouncement(w) ==
    /\ At(w, "fan_out")
    /\ work[w].targets = {}
    /\ Turn(w, "answered")
    /\ UNCHANGED <<peopleVars, tenancy, ticket, announced, notes, mails, work, had>>

-----------------------------------------------------------------------------
(* Tickets *)

\* The notification that goes with a new ticket, or alone with a request for renewal;
\* it may fail.  Neither asks whether the tenant is archived or blacklisted.
TellOwner(u, o) == FailedInsert(Tell(o, "request", u))

CreateTicket(u, o) ==
    /\ tenancy[u] # "none"
    /\ ticket[u] = None
    /\ ticket' = [ticket EXCEPT ![u] = "open"]
    /\ had' = [had EXCEPT ![u] = {"open"}]
    /\ TellOwner(u, o)
    /\ UNCHANGED <<profile, pc, req, told, tenancy, announced, mails, step, work>>

RequestContractRenewal(u, o) ==
    /\ tenancy[u] # "none"
    /\ TellOwner(u, o)
    /\ UNCHANGED <<profile, pc, req, told, tenancy, ticket, announced, mails, step, work, had>>

\* GetTicket and GetProperty; the status they find is not looked at.
BeginUpdateTicket(w, u, s) ==
    /\ At(w, "idle")
    /\ ticket[u] # None
    /\ Turn(w, "update")
    /\ Note(w, [NoWork EXCEPT !.tenant = u, !.status = s])
    /\ UNCHANGED <<peopleVars, tenancy, ticket, announced, notes, mails, had>>

SetStatus(w) ==
    /\ ticket' = [ticket EXCEPT ![work[w].tenant] = work[w].status]
    /\ had' = [had EXCEPT ![work[w].tenant] = @ \cup {work[w].status}]

UpdateTicket(w) ==
    /\ At(w, "update")
    /\ SetStatus(w)
    /\ Turn(w, "notify")
    /\ UNCHANGED <<peopleVars, tenancy, announced, notes, mails, work>>

FailUpdateTicket(w) ==
    /\ At(w, "update")
    /\ SetStatus(w) \/ UNCHANGED <<ticket, had>>
    /\ Close(w)
    /\ UNCHANGED <<peopleVars, tenancy, announced, notes, mails>>

NewsOf(w) == Tell(work[w].tenant, "update", work[w].status)

\* Its error is discarded.  An audit entry and the goroutine of the e-mail follow.
NotifyTenant(w) ==
    /\ At(w, "notify")
    /\ FailedInsert(NewsOf(w))
    /\ Turn(w, "mail")
    /\ UNCHANGED <<profile, pc, req, told, tenancy, ticket, announced, mails, work, had>>

\* The goroutine reads the profile with the context of the request: it gets as far as
\* the e-mail only if it reads before the answer is out, which cancels the context.
MailTenant(w) ==
    /\ At(w, "mail")
    /\ mails' = mails \cup {NewsOf(w)}
    /\ UNCHANGED <<peopleVars, tenancy, ticket, announced, notes, step, work, had>>

-----------------------------------------------------------------------------
(* Ends of requests; messages; tenants *)

\* The answer is out, or the request dies where it is: nothing is undone.
CloseRequest(w) ==
    /\ ~At(w, "idle")
    /\ Close(w)
    /\ UNCHANGED <<peopleVars, tenancy, ticket, announced, notes, mails, had>>

\* The row refers to both.  Its goroutine addresses the e-mail to no one, and no
\* operation marks a message as read.
SendMessage(sender, receiver) ==
    /\ Registered(sender)
    /\ Registered(receiver)
    /\ linked' = linked \cup {sender, receiver}
    /\ UNCHANGED <<profile, pc, req, told, outboxVars>>

\* Elsewhere: a tenants row is made for a profile and is never deleted; its tenant may
\* move out of the property and in again.
BecomeTenant(u) ==
    /\ Registered(u)
    /\ linked' = linked \cup {u}
    /\ tenancy' = [tenancy EXCEPT ![u] = "active"]
    /\ UNCHANGED <<profile, pc, req, told, ticket, announced, notes, mails, step,
                   work, had>>

ArchiveOrBlacklist(u) ==
    /\ tenancy[u] = "active"
    /\ tenancy' = [tenancy EXCEPT ![u] = "away"]
    /\ UNCHANGED <<peopleVars, ticket, announced, notes, mails, step, work, had>>

-----------------------------------------------------------------------------
(* The specification *)

OutboxInit ==
    /\ PeopleInit
    /\ tenancy = [u \in Users |-> "none"]
    /\ ticket = [u \in Users |-> None]
    /\ announced = 0
    /\ notes = {}
    /\ mails = {}
    /\ step = [w \in Writers |-> "idle"]
    /\ work = [w \in Writers |-> NoWork]
    /\ had = [u \in Users |-> {}]

OutboxNext ==
    \/ PeopleNext /\ UNCHANGED outboxVars
    \/ \E w \in Writers :
          \/ \E o \in Users, asked \in SUBSET Users : CreateAnnouncement(w, o, asked)
          \/ \E u \in Users :
                \/ ResolveAsked(w, u) \/ NotifyTarget(w, u) \/ SkipTarget(w, u)
                \/ \E s \in Statuses : BeginUpdateTicket(w, u, s)
          \/ ResolveActive(w) \/ AnswerAnnouncement(w)
          \/ UpdateTicket(w) \/ FailUpdateTicket(w) \/ NotifyTenant(w) \/ MailTenant(w)
          \/ CloseRequest(w)
    \/ \E u \in Users :
          \/ BecomeTenant(u) \/ ArchiveOrBlacklist(u)
          \/ \E o \in Users :
                CreateTicket(u, o) \/ RequestContractRenewal(u, o) \/ SendMessage(u, o)

OutboxSpec == OutboxInit /\ [][OutboxNext]_<<peopleVars, outboxVars>>

-----------------------------------------------------------------------------
(* Properties *)

\* Type invariant: a tenant, and whoever has a notification, has a profile that can no
\* longer be rejected.
OutboxTypeOK ==
    /\ PeopleTypeOK
    /\ tenancy \in [Users -> {"none", "active", "away"}]
    /\ \A u \in Users : tenancy[u] # "none" => u \in linked
    /\ ticket \in [Users -> TicketStatus \cup {None}]
    /\ announced \in 0 .. MaxAnnouncements
    /\ notes \subseteq News
    /\ \A n \in notes : n.to \in linked
    /\ mails \subseteq News
    /\ step \in [Writers -> Steps]
    /\ work \in [Writers -> Work]
    /\ had \in [Users -> SUBSET TicketStatus]

\* The answer to an announcement names tenants that have its notification, and an
\* e-mail of it went to no one else, whoever was rejected during the fan-out.
AnnouncedTruly ==
    /\ \A w \in Writers :
          At(w, "answered") =>
              \A u \in work[w].notified : Tell(u, "announcement", work[w].id) \in notes
    /\ \A n \in mails : n.topic = "announcement" => n \in notes

\* What users are told has happened: AnnouncedTruly, and a tenant hears, by notification
\* or by e-mail, of no status that the ticket never had, with two updates in flight.
NewsIsTrue ==
    /\ AnnouncedTruly
    /\ \A n \in notes \cup mails : n.topic = "update" => n.about \in had[n.to]
=============================================================================
