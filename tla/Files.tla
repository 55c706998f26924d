-------------------------------- MODULE Files --------------------------------
(***************************************************************************)
(* Files in the storage service and the rows that point to them: photos of *)
(* rooms (internal/service/room_photo.go), attachments of tickets          *)
(* (ticket.go, tenant_portal.go) and generated contracts                   *)
(* (contract_template.go).                                                 *)
(*                                                                         *)
(* No transaction spans the database and the storage service.  A request   *)
(* uploads, inserts, and deletes what it has uploaded when a later step    *)
(* fails; one action is one call of either.  Requests refused before the   *)
(* first call that changes something (ownership, size and type of a file)  *)
(* are not modelled.                                                       *)
(***************************************************************************)
EXTENDS Naturals, FiniteSets, SequencesExt

CONSTANTS
    Files,       \* names of files; all buckets share them, since names are UUIDs
    Tickets,
    MaxPhotos,   \* maxTicketPhotos
    Requests,    \* requests that may be in flight at once
    Faults,      \* which of FaultKinds may happen
    None

\* sql: a statement fails and has no effect.  reply: it takes effect, but the code
\* sees an error.  storage: a call of the storage service reports an error; an
\* upload may have happened nevertheless.  crash: the request dies.
FaultKinds == {"sql", "reply", "storage", "crash"}

ASSUME ConstantsAssumption ==
    /\ None \notin Tickets
    /\ MaxPhotos \in Nat
    /\ Faults \subseteq FaultKinds

VARIABLES
    stored,      \* the files in the storage service
    photo,       \* the room_photos table: the files its rows point to
    attached,    \* the ticket_attachments table: the ticket a file is attached to
    ticket,      \* the tickets table; see TicketRow
    documents,   \* history: pairs of files that GenerateContract answered with
    shown,       \* history: photos a client was told exist, not deleted since
    astray,      \* history: files a storage fault or a crash took out of control
    pc,
    req

vars == <<stored, photo, attached, ticket, documents, shown, astray, pc, req>>

\* History of a ticket: did it come through the tenant portal, how many photos came
\* with it, how many attachments its creator was told of, and None before the creator
\* was told anything.
TicketRow == [portal : BOOLEAN, sent : 0 .. MaxPhotos,
              told   : (0 .. MaxPhotos) \cup {None}]

ASSUME NoneIsNoRow == None \notin TicketRow

PhotoSteps    == {"up_upload", "up_insert", "dp_file", "dp_row"}
TicketSteps   == {"ct_insert", "ct_upload", "ct_attach", "ct_answer", "mt_insert"}
ContractSteps == {"gc_pdf", "gc_docx", "gc_answer"}
Steps         == {"idle", "clean"} \cup PhotoSteps \cup TicketSteps \cup ContractSteps

\* files: what the request has uploaded, or is about to delete.
\* left: how many files it has yet to upload.
Request == [ticket : Tickets \cup {None}, files : Seq(Files), left : Nat]
Blank   == [ticket |-> None, files |-> <<>>, left |-> 0]

-----------------------------------------------------------------------------
(* Control of a request *)

Goto(q, l) == pc' = [pc EXCEPT ![q] = l]

Finish(q) == /\ pc' = [pc EXCEPT ![q] = "idle"]
             /\ req' = [req EXCEPT ![q] = Blank]

\* A file name is a fresh UUID.  Names are given again only when nothing refers to
\* their file any more.
Fresh(f) ==
    /\ f \notin stored \cup photo
    /\ attached[f] = None
    /\ \A q \in Requests : f \notin Range(req[q].files)

\* Bound: a request begins only while names are left for it and for those in flight.
NamesLeft(n) == Cardinality({f \in Files : Fresh(f)})
                  >= n + MapThenSumSet(LAMBDA q : req[q].left, Requests)

Begin(q, l, files, left) ==
    /\ pc[q] = "idle"
    /\ NamesLeft(left)
    /\ Goto(q, l)
    /\ req' = [req EXCEPT ![q] = [ticket |-> None, files |-> files, left |-> left]]
    /\ UNCHANGED <<stored, photo, attached, ticket, documents, astray>>

\* The request gives up and turns to the files it has uploaded, if any.
CleanUp(q, files) ==
    IF files = <<>>
    THEN Finish(q)
    ELSE /\ Goto(q, "clean")
         /\ req' = [req EXCEPT ![q] = [@ EXCEPT !.files = files, !.left = 0]]

-----------------------------------------------------------------------------
(* The storage service *)

\* storage.Client.UploadFile: the file is there and the request goes on.
Upload(q, from, to) ==
    /\ pc[q] = from
    /\ \E f \in Files :
          /\ Fresh(f)
          /\ stored' = stored \cup {f}
          /\ astray' = astray \ {f}
          /\ req' = [req EXCEPT ![q].files = Append(@, f), ![q].left = @ - 1]
    /\ Goto(q, to)
    /\ UNCHANGED <<photo, attached, ticket, documents, shown>>

\* It reports an error.  The code cleans up the files of earlier uploads, not this
\* one, which may be there all the same (a reply after the 30 seconds of httpClient).
FailUpload(q) ==
    /\ "storage" \in Faults
    /\ pc[q] \in {"up_upload", "ct_upload", "gc_pdf", "gc_docx"}
    /\ \/ UNCHANGED <<stored, astray>>
       \/ \E f \in Files : /\ Fresh(f)
                           /\ stored' = stored \cup {f}
                           /\ astray' = astray \cup {f}
    /\ CleanUp(q, req[q].files)
    /\ UNCHANGED <<photo, attached, ticket, documents, shown>>

\* storage.Client.DeleteFile, whose error every caller discards.
DeleteFile(f) ==
    \/ stored' = stored \ {f} /\ UNCHANGED astray
    \/ "storage" \in Faults /\ astray' = astray \cup {f} /\ UNCHANGED stored

\* The files are deleted one by one, in the order of their upload.
Clean(q) ==
    /\ pc[q] = "clean"
    /\ DeleteFile(Head(req[q].files))
    /\ CleanUp(q, Tail(req[q].files))
    /\ UNCHANGED <<photo, attached, ticket, documents, shown>>

-----------------------------------------------------------------------------
(* RoomPhotoService *)

BeginUploadPhoto(q) == Begin(q, "up_upload", <<>>, 1) /\ UNCHANGED shown

UploadPhoto(q) == Upload(q, "up_upload", "up_insert")

UploadPhotoInsert(q) ==
    /\ pc[q] = "up_insert"
    /\ photo' = photo \cup Range(req[q].files)
    /\ shown' = shown \cup Range(req[q].files)
    /\ Finish(q)
    /\ UNCHANGED <<stored, attached, ticket, documents, astray>>

\* Mutant: a failed insert returns at once and leaves the file.
FailInsertOnly(q) ==
    /\ pc[q] = "up_insert"
    /\ "sql" \in Faults
    /\ Finish(q)
    /\ UNCHANGED <<stored, photo, attached, ticket, documents, shown, astray>>

\* The insert reports an error, with or without its effect.
FailInsert(q) ==
    /\ pc[q] = "up_insert"
    /\ \/ "sql" \in Faults /\ UNCHANGED photo
       \/ "reply" \in Faults /\ photo' = photo \cup Range(req[q].files)
    /\ CleanUp(q, req[q].files)
    /\ UNCHANGED <<stored, attached, ticket, documents, shown, astray>>

\* GetRoomPhoto; from here on the photo is no longer promised.
BeginDeletePhoto(q) ==
    \E f \in photo : Begin(q, "dp_file", <<f>>, 0) /\ shown' = shown \ {f}

DeletePhotoFile(q) ==
    /\ pc[q] = "dp_file"
    /\ DeleteFile(Head(req[q].files))
    /\ Goto(q, "dp_row")
    /\ UNCHANGED <<photo, attached, ticket, documents, shown, req>>

DeletePhotoRow(q) ==
    /\ pc[q] = "dp_row"
    /\ photo' = photo \ Range(req[q].files)
    /\ Finish(q)
    /\ UNCHANGED <<stored, attached, ticket, documents, shown, astray>>

-----------------------------------------------------------------------------
(* TicketService.CreateTicket *)

\* Bound: a submission starts only while a ticket is left for it.
TicketLeft == Cardinality({t \in Tickets : ticket[t] = None})
                > Cardinality({q \in Requests : pc[q] \in {"ct_insert", "mt_insert"}})

BeginTicket(q) ==
    /\ TicketLeft
    /\ \E n \in 0 .. MaxPhotos : Begin(q, "ct_insert", <<>>, n)
    /\ UNCHANGED shown

NextPhoto(left) == IF left = 0 THEN "ct_answer" ELSE "ct_upload"

CreateTicketInsert(q) ==
    /\ pc[q] = "ct_insert"
    /\ \E t \in Tickets :
          /\ ticket[t] = None
          /\ ticket' = [ticket EXCEPT ![t] =
                 [portal |-> FALSE, sent |-> req[q].left, told |-> None]]
          /\ req' = [req EXCEPT ![q].ticket = t]
    /\ Goto(q, NextPhoto(req[q].left))
    /\ UNCHANGED <<stored, photo, attached, documents, shown, astray>>

CreateTicketUpload(q) == Upload(q, "ct_upload", "ct_attach")

InsertAttachment(q) == attached' = [attached EXCEPT ![Last(req[q].files)] = req[q].ticket]

CreateTicketAttach(q) ==
    /\ pc[q] = "ct_attach"
    /\ InsertAttachment(q)
    /\ Goto(q, NextPhoto(req[q].left))
    /\ UNCHANGED <<stored, photo, ticket, documents, shown, astray, req>>

\* Mutant: a failed attachment is skipped like a failed notification.
SkipAttach(q) ==
    /\ pc[q] = "ct_attach"
    /\ "sql" \in Faults
    /\ Goto(q, NextPhoto(req[q].left))
    /\ UNCHANGED <<stored, photo, attached, ticket, documents, shown, astray, req>>

\* All files of the ticket are deleted; its rows stay.
FailAttach(q) ==
    /\ pc[q] = "ct_attach"
    /\ \/ "sql" \in Faults /\ UNCHANGED attached
       \/ "reply" \in Faults /\ InsertAttachment(q)
    /\ CleanUp(q, req[q].files)
    /\ UNCHANGED <<stored, photo, ticket, documents, shown, astray>>

\* The notification may fail; the answer lists every attachment.
CreateTicketAnswer(q) ==
    /\ pc[q] = "ct_answer"
    /\ ticket' = [ticket EXCEPT ![req[q].ticket].told = Len(req[q].files)]
    /\ Finish(q)
    /\ UNCHANGED <<stored, photo, attached, documents, shown, astray>>

\* TenantPortalService.CreateMyTicket counts the photos, inserts the ticket and drops
\* the photos; its answer lists no attachment.
BeginMyTicket(q) ==
    /\ TicketLeft
    /\ \E n \in 0 .. MaxPhotos : Begin(q, "mt_insert", <<>>, n)
    /\ UNCHANGED shown

CreateMyTicket(q) ==
    /\ pc[q] = "mt_insert"
    /\ \E t \in Tickets :
          /\ ticket[t] = None
          /\ ticket' = [ticket EXCEPT ![t] =
                 [portal |-> TRUE, sent |-> req[q].left, told |-> 0]]
    /\ Finish(q)
    /\ UNCHANGED <<stored, photo, attached, documents, shown, astray>>

-----------------------------------------------------------------------------
(* ContractTemplateService.GenerateContract *)

BeginContract(q) == Begin(q, "gc_pdf", <<>>, 2) /\ UNCHANGED shown

\* Mutant: the answer does not wait for the second document.
UploadPDFOnly(q) == Upload(q, "gc_pdf", "gc_answer")

UploadPDF(q)  == Upload(q, "gc_pdf", "gc_docx")
UploadDOCX(q) == Upload(q, "gc_docx", "gc_answer")

\* The audit entry may fail; the answer carries both URLs.
GenerateAnswer(q) ==
    /\ pc[q] = "gc_answer"
    /\ documents' = documents \cup {req[q].files}
    /\ Finish(q)
    /\ UNCHANGED <<stored, photo, attached, ticket, shown, astray>>

-----------------------------------------------------------------------------
(* Other faults *)

\* An insert of a ticket or the delete of a photo row fails.
Abandon(q) ==
    /\ "sql" \in Faults
    /\ pc[q] \in {"ct_insert", "mt_insert", "dp_row"}
    /\ Finish(q)
    /\ UNCHANGED <<stored, photo, attached, ticket, documents, shown, astray>>

\* Files that are a dying request's to clean up are lost track of.
Crash(q) ==
    /\ "crash" \in Faults
    /\ pc[q] # "idle"
    /\ astray' = IF pc[q] \in {"dp_file", "dp_row"}
                 THEN astray
                 ELSE astray \cup Range(req[q].files)
    /\ Finish(q)
    /\ UNCHANGED <<stored, photo, attached, ticket, documents, shown>>

-----------------------------------------------------------------------------
(* The specification *)

Init ==
    /\ stored = {} /\ photo = {} /\ documents = {} /\ shown = {} /\ astray = {}
    /\ attached = [f \in Files |-> None]
    /\ ticket = [t \in Tickets |-> None]
    /\ pc = [q \in Requests |-> "idle"]
    /\ req = [q \in Requests |-> Blank]

Photos(q) ==
    \/ BeginUploadPhoto(q) \/ UploadPhoto(q) \/ UploadPhotoInsert(q)
    \/ BeginDeletePhoto(q) \/ DeletePhotoFile(q) \/ DeletePhotoRow(q)

TicketsOf(q) ==
    \/ BeginTicket(q) \/ CreateTicketInsert(q) \/ CreateTicketUpload(q)
    \/ CreateTicketAttach(q) \/ CreateTicketAnswer(q)
    \/ BeginMyTicket(q) \/ CreateMyTicket(q)

Contracts(q) ==
    BeginContract(q) \/ UploadPDF(q) \/ UploadDOCX(q) \/ GenerateAnswer(q)

Fail(q) ==
    FailUpload(q) \/ FailInsert(q) \/ FailAttach(q) \/ Abandon(q) \/ Crash(q)

Next == \E q \in Requests :
           Photos(q) \/ TicketsOf(q) \/ Contracts(q) \/ Clean(q) \/ Fail(q)

Spec == Init /\ [][Next]_vars

-----------------------------------------------------------------------------
(* Properties *)

Quiescent     == \A q \in Requests : pc[q] = "idle"
Attachments   == {f \in Files : attached[f] # None}
AttachedTo(t) == {f \in Files : attached[f] = t}

\* What a request holds where it is: a name of its own, and a ticket with a row.
RequestOK(q) ==
    /\ pc[q] \in {"up_insert", "dp_file", "dp_row", "ct_attach", "clean"}
         => req[q].files # <<>>
    /\ pc[q] \in {"ct_upload", "ct_attach", "ct_answer"}
         => req[q].ticket \in Tickets /\ ticket[req[q].ticket] # None
    /\ pc[q] = "gc_answer" => Len(req[q].files) = 2
    /\ pc[q] \in {"up_upload", "ct_upload", "gc_pdf", "gc_docx"} => req[q].left > 0

\* Type invariant: the tables hold what their columns may, and a request holds the
\* files and the ticket its next step needs.
TypeOK ==
    /\ stored \subseteq Files /\ photo \subseteq Files /\ shown \subseteq Files
    /\ astray \subseteq Files
    /\ attached \in [Files -> Tickets \cup {None}]
    /\ ticket \in [Tickets -> TicketRow \cup {None}]
    /\ documents \subseteq Seq(Files)
    /\ pc \in [Requests -> Steps]
    /\ req \in [Requests -> Request]
    /\ \A q \in Requests : RequestOK(q)

\* Whatever interleaves and whatever fails, what a client was told exists exists:
\* a photo with its row and its file, as many attachments of a ticket as the answer
\* lists, each with its file, both documents of a contract.  The answer of
\* TicketService.CreateTicket lists all the photos that were sent.
AnswersAreTrue ==
    /\ shown \subseteq photo \cap stored
    /\ \A t \in Tickets : ticket[t] # None /\ ticket[t].told # None =>
          /\ ~ticket[t].portal => ticket[t].told = ticket[t].sent
          /\ Cardinality(AttachedTo(t)) = ticket[t].told
          /\ AttachedTo(t) \subseteq stored
    /\ \A d \in documents : Range(d) \subseteq stored

\* The claim of TenantPortalHandler.CreateMyTicket, "Accepts a multipart form with title,
\* description, optional priority, and up to 3 photo attachments", and of its service,
\* "It delegates to the existing TicketService.CreateTicket logic": whoever has an answer
\* about a ticket has all its photos attached, whichever way it came.
PhotosAreAttached ==
    \A t \in Tickets : ticket[t] # None /\ ticket[t].told # None =>
        Cardinality(AttachedTo(t)) = ticket[t].sent

\* No file is left behind that nothing points to, except by a storage service that
\* reports an error or by a process that dies.
NoOrphanFile ==
    Quiescent => stored \subseteq photo \cup Attachments \cup astray
                                  \cup UNION {Range(d) : d \in documents}
=============================================================================
