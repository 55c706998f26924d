----------------------------- MODULE FilesProofs -----------------------------
(***************************************************************************)
(* What Files guarantees for any number of files, tickets and requests in  *)
(* flight, any bound on the photos of a ticket and any faults.             *)
(*                                                                         *)
(* A file is in the hands of one request from its upload on, and in no     *)
(* answer and under no other row, until a row or an answer names it or the *)
(* request deletes it.  FilesInv says so: Apart, Distinct, Secret and      *)
(* Uploaded of the hands, Recorded, Rows and Deleted of the rows, Reached, *)
(* Shown and Counted of what the theorems promise.                         *)
(***************************************************************************)
EXTENDS Files, SequenceTheorems, FiniteSetTheorems, TLAPS

-----------------------------------------------------------------------------
(* Sequences of files *)

\* The files of a request are finitely many names.
LEMMA FilesOfSeq ==
  ASSUME NEW s \in Seq(Files)
  PROVE  /\ Len(s) \in Nat /\ Range(s) \subseteq Files
         /\ s = <<>> <=> Len(s) = 0
         /\ s = <<>> => Range(s) = {}
  BY LenProperties, EmptySeq, RangeOfSeq, RangeEquality

\* Uploading one more file.
LEMMA AppendFile ==
  ASSUME NEW s \in Seq(Files), NEW f \in Files
  PROVE  /\ Append(s, f) \in Seq(Files)
         /\ Len(Append(s, f)) = Len(s) + 1
         /\ Range(Append(s, f)) = Range(s) \cup {f}
         /\ Last(Append(s, f)) = f
         /\ IsInjective(s) /\ f \notin Range(s) => IsInjective(Append(s, f))
<1> DEFINE t == Append(s, f)
<1>1. /\ t \in Seq(Files) /\ Len(t) = Len(s) + 1 /\ Len(s) \in Nat
      /\ \A i \in 1 .. Len(s) : t[i] = s[i]
      /\ t[Len(s) + 1] = f
  BY AppendProperties, LenProperties
<1>2. /\ Range(s) = {s[i] : i \in 1 .. Len(s)}
      /\ Range(t) = {t[i] : i \in 1 .. Len(t)}
  BY <1>1, RangeEquality
<1>3. DOMAIN s = 1 .. Len(s) /\ DOMAIN t = 1 .. Len(t)
  BY <1>1, LenProperties
<1> HIDE DEF t
<1>4. Range(t) = Range(s) \cup {f}
  BY <1>1, <1>2
<1>5. Last(t) = f
  BY <1>1 DEF Last
<1>6. ASSUME IsInjective(s), f \notin Range(s)
      PROVE  IsInjective(t)
  <2>1. SUFFICES ASSUME NEW i \in 1 .. Len(t), NEW j \in 1 .. Len(t), t[i] = t[j]
                 PROVE  i = j
    BY <1>3 DEF IsInjective
  <2>2. CASE i \in 1 .. Len(s) /\ j \in 1 .. Len(s)
    BY <1>1, <1>3, <1>6, <2>1, <2>2 DEF IsInjective
  <2>3. CASE i \notin 1 .. Len(s) \/ j \notin 1 .. Len(s)
    BY <1>1, <1>2, <1>6, <2>1, <2>3
  <2> QED BY <2>2, <2>3
<1> QED BY <1>1, <1>4, <1>5, <1>6 DEF t

\* Cleaning up the files one by one.
LEMMA TailOfFiles ==
  ASSUME NEW s \in Seq(Files), s # <<>>
  PROVE  /\ Head(s) \in Files /\ Tail(s) \in Seq(Files)
         /\ Len(Tail(s)) = Len(s) - 1
         /\ Range(s) = {Head(s)} \cup Range(Tail(s))
         /\ IsInjective(s) => IsInjective(Tail(s)) /\ Head(s) \notin Range(Tail(s))
<1> DEFINE t == Tail(s)
<1>1. /\ t \in Seq(Files) /\ Len(t) = Len(s) - 1 /\ Head(s) \in Files
      /\ \A i \in 1 .. Len(t) : t[i] = s[i + 1]
      /\ Len(s) \in Nat \ {0} /\ Head(s) = s[1]
  BY HeadTailProperties, EmptySeq
<1>2. /\ Range(s) = {s[i] : i \in 1 .. Len(s)}
      /\ Range(t) = {t[i] : i \in 1 .. Len(t)}
  BY <1>1, RangeEquality
<1>3. DOMAIN s = 1 .. Len(s) /\ DOMAIN t = 1 .. Len(t)
  BY <1>1, LenProperties
<1> HIDE DEF t
<1>4. Range(s) = {Head(s)} \cup Range(t)
  <2>1. \A i \in 1 .. Len(s) : i = 1 \/ (i - 1 \in 1 .. Len(t) /\ t[i - 1] = s[i])
    BY <1>1
  <2>2. \A i \in 1 .. Len(t) : i + 1 \in 1 .. Len(s) /\ t[i] = s[i + 1]
    BY <1>1
  <2> QED BY <1>1, <1>2, <2>1, <2>2
<1>5. ASSUME IsInjective(s)
      PROVE  IsInjective(t) /\ Head(s) \notin Range(t)
  <2>1. \A i \in 1 .. Len(t) : i + 1 \in 1 .. Len(s) /\ t[i] = s[i + 1]
    BY <1>1
  <2>2. ASSUME NEW i \in 1 .. Len(t), NEW j \in 1 .. Len(t), t[i] = t[j]
        PROVE  i = j
    <3>1. i + 1 = j + 1
      BY <1>3, <1>5, <2>1, <2>2 DEF IsInjective
    <3> QED BY <3>1
  <2>3. ASSUME NEW i \in 1 .. Len(t), t[i] = s[1]
        PROVE  FALSE
    <3>1. 1 \in 1 .. Len(s) /\ i + 1 # 1
      BY <1>1
    <3> QED BY <1>3, <1>5, <2>1, <2>3, <3>1 DEF IsInjective
  <2> QED BY <1>1, <1>2, <1>3, <2>2, <2>3 DEF IsInjective
<1> QED BY <1>1, <1>4, <1>5 DEF t

\* Distinct names are as many files.
LEMMA CountFiles ==
  ASSUME NEW s \in Seq(Files), IsInjective(s)
  PROVE  IsFiniteSet(Range(s)) /\ Cardinality(Range(s)) = Len(s)
<1>1. Len(s) \in Nat /\ s \in [1 .. Len(s) -> Files] /\ DOMAIN s = 1 .. Len(s)
  BY LenProperties
<1>2. s \in Bijection(1 .. Len(s), Range(s))
  BY <1>1 DEF Bijection, Injection, Surjection, Range
<1>3. ExistsBijection(1 .. Len(s), Range(s))
  BY <1>2 DEF ExistsBijection
<1> QED BY <1>1, <1>3, FS_CountingElements, FS_NatBijection

\* One file is the first, the last and the only one.
LEMMA OneFile ==
  ASSUME NEW f \in Files
  PROVE  /\ <<f>> \in Seq(Files) /\ Len(<<f>>) = 1
         /\ Range(<<f>>) = {f} /\ Head(<<f>>) = f /\ IsInjective(<<f>>)
<1>1. <<f>> \in Seq(Files) /\ Len(<<f>>) = 1 /\ Head(<<f>>) = f /\ <<f>>[1] = f
  OBVIOUS
<1>2. Range(<<f>>) = {<<f>>[i] : i \in 1 .. 1} /\ DOMAIN <<f>> = 1 .. 1
  BY <1>1, RangeEquality, LenProperties
<1> QED BY <1>1, <1>2 DEF IsInjective

\* A request without files has none.
LEMMA NoFile ==
  /\ <<>> \in Seq(Files) /\ Len(<<>>) = 0 /\ Range(<<>>) = {} /\ IsInjective(<<>>)
  BY EmptySeq, RangeEquality, LenProperties DEF IsInjective, Range

-----------------------------------------------------------------------------
(* Type correctness *)

\* The steps of a request that has inserted a ticket and attaches its photos.
TicketHeld == {"ct_upload", "ct_attach", "ct_answer"}

\* How many files a request at step l has and has yet to upload.
Shape(l, r) ==
    /\ l \in {"idle", "up_upload", "ct_insert", "mt_insert", "gc_pdf"}
         => Len(r.files) = 0
    /\ l \in {"ct_insert", "mt_insert"} => r.left <= MaxPhotos
    /\ l \in {"up_upload", "gc_docx"} => r.left = 1
    /\ l = "gc_pdf" => r.left = 2
    /\ l \in {"gc_docx", "dp_file", "dp_row"} => Len(r.files) = 1
    /\ l = "gc_answer" => Len(r.files) = 2
    /\ l \in {"clean", "up_insert", "ct_attach"} => Len(r.files) > 0
    /\ l = "ct_upload" => r.left > 0
    /\ l = "ct_answer" => r.left = 0

\* The ticket of such a request, whose creator has been told nothing yet, came with
\* as many photos as the request has and has yet to upload.
Awaited(l, r, row) ==
    l \in TicketHeld => /\ r.ticket \in Tickets
                       /\ row # None
                       /\ row.told = None
                       /\ row.sent = Len(r.files) + r.left

\* TypeOK does not follow from itself: that an answer lists at most MaxPhotos
\* attachments takes the count of the files since the ticket was inserted, and that
\* no two requests work for one ticket.
TypeInv ==
    /\ stored \subseteq Files /\ photo \subseteq Files /\ shown \subseteq Files
    /\ astray \subseteq Files
    /\ attached \in [Files -> Tickets \cup {None}]
    /\ ticket \in [Tickets -> TicketRow \cup {None}]
    /\ documents \subseteq Seq(Files)
    /\ pc \in [Requests -> Steps]
    /\ req \in [Requests -> Request]
    /\ \A q \in Requests : Shape(pc[q], req[q])
    /\ \A q \in Requests : Awaited(pc[q], req[q], ticket[req[q].ticket])
    /\ \A p, q \in Requests :
         pc[p] \in TicketHeld /\ pc[q] \in TicketHeld /\ req[p].ticket = req[q].ticket
           => p = q

\* What it says of types is TypeOK.
LEMMA TypeInvTyped == TypeInv => TypeOK
<1> SUFFICES ASSUME TypeInv, NEW q \in Requests PROVE RequestOK(q)
  BY DEF TypeInv, TypeOK
<1>1. req[q] \in Request /\ Shape(pc[q], req[q])
        /\ Awaited(pc[q], req[q], ticket[req[q].ticket])
  BY DEF TypeInv
<1>2. req[q].files \in Seq(Files) /\ req[q].left \in Nat
  BY <1>1 DEF Request
<1>3. req[q].files = <<>> <=> Len(req[q].files) = 0
  BY <1>2, FilesOfSeq
<1> QED BY <1>1, <1>2, <1>3 DEF RequestOK, Shape, Awaited, TicketHeld

\* Request q moves to step l with the values r.
Moves(q, l, r) == pc' = [pc EXCEPT ![q] = l] /\ req' = [req EXCEPT ![q] = r]

\* Such a step keeps the types when l suits r, when tables stay typed, and when it
\* leaves alone the tickets of other requests.
LEMMA MoveTyped ==
  ASSUME TypeInv, NEW q \in Requests, NEW l \in Steps, NEW r \in Request,
         Moves(q, l, r), Shape(l, r), Awaited(l, r, ticket'[r.ticket]),
         stored' \subseteq Files, photo' \subseteq Files, shown' \subseteq Files,
         astray' \subseteq Files,
         attached' \in [Files -> Tickets \cup {None}],
         ticket' \in [Tickets -> TicketRow \cup {None}],
         documents' \subseteq Seq(Files),
         \A p \in Requests \ {q} : pc[p] \in TicketHeld =>
            /\ ticket'[req[p].ticket] = ticket[req[p].ticket]
            /\ l \in TicketHeld => req[p].ticket # r.ticket
  PROVE  TypeInv'
<1>1. /\ pc' \in [Requests -> Steps] /\ req' \in [Requests -> Request]
      /\ pc'[q] = l /\ req'[q] = r
      /\ \A p \in Requests \ {q} : pc'[p] = pc[p] /\ req'[p] = req[p]
  BY DEF TypeInv, Moves
<1>2. ASSUME NEW p \in Requests
      PROVE  /\ Shape(pc'[p], req'[p])
             /\ Awaited(pc'[p], req'[p], ticket'[req'[p].ticket])
  BY <1>1 DEF TypeInv, Awaited
<1>3. ASSUME NEW p \in Requests, NEW s \in Requests,
             pc'[p] \in TicketHeld, pc'[s] \in TicketHeld,
             req'[p].ticket = req'[s].ticket
      PROVE  p = s
  BY <1>1, <1>3 DEF TypeInv
<1> QED BY <1>1, <1>2, <1>3 DEF TypeInv

\* The same when tickets are left alone and q holds none it did not hold.
LEMMA PlainTyped ==
  ASSUME TypeInv, NEW q \in Requests, NEW l \in Steps, NEW r \in Request,
         Moves(q, l, r), Shape(l, r), UNCHANGED ticket,
         l \in TicketHeld => /\ pc[q] \in TicketHeld /\ r.ticket = req[q].ticket
                            /\ Len(r.files) + r.left = Len(req[q].files) + req[q].left,
         stored' \subseteq Files, photo' \subseteq Files, shown' \subseteq Files,
         astray' \subseteq Files,
         attached' \in [Files -> Tickets \cup {None}],
         documents' \subseteq Seq(Files)
  PROVE  TypeInv'
<1>1. ticket' \in [Tickets -> TicketRow \cup {None}]
  BY DEF TypeInv
<1>2. Awaited(l, r, ticket'[r.ticket])
  BY DEF TypeInv, Awaited
<1>3. \A p \in Requests \ {q} : pc[p] \in TicketHeld =>
         /\ ticket'[req[p].ticket] = ticket[req[p].ticket]
         /\ l \in TicketHeld => req[p].ticket # r.ticket
  BY DEF TypeInv
<1> QED BY <1>1, <1>2, <1>3, MoveTyped

\* An idle request holds nothing.
LEMMA BlankTyped ==
  Blank \in Request /\ "idle" \in Steps \ TicketHeld /\ Shape("idle", Blank)
  BY NoFile DEF Blank, Request, Steps, TicketHeld, Shape

\* A request that ends, or turns to deleting the files fs.
LEMMA CleanUpTyped ==
  ASSUME TypeInv, NEW q \in Requests, NEW fs \in Seq(Files), CleanUp(q, fs),
         UNCHANGED ticket,
         stored' \subseteq Files, photo' \subseteq Files, shown' \subseteq Files,
         astray' \subseteq Files,
         attached' \in [Files -> Tickets \cup {None}],
         documents' \subseteq Seq(Files)
  PROVE  TypeInv'
<1>1. CASE fs = <<>>
  <2>1. Moves(q, "idle", Blank)
    BY <1>1 DEF CleanUp, Finish, Moves
  <2> QED BY <2>1, BlankTyped, PlainTyped
<1>2. CASE fs # <<>>
  <2> DEFINE r == [req[q] EXCEPT !.files = fs, !.left = 0]
  <2>0. req[q] \in Request
    BY DEF TypeInv
  <2>1. r \in Request /\ r.files = fs /\ r.left = 0
    BY <2>0 DEF Request
  <2>4. Len(fs) \in Nat /\ Len(fs) > 0
    BY <1>2, FilesOfSeq
  <2>2. Moves(q, "clean", r)
    BY <1>2 DEF CleanUp, Goto, Moves
  <2>3. Shape("clean", r) /\ "clean" \in Steps \ TicketHeld
    BY <2>1, <2>4 DEF Shape, Steps, TicketHeld
  <2> HIDE DEF r
  <2> QED BY <2>1, <2>2, <2>3, PlainTyped
<1> QED BY <1>1, <1>2

\* A request that arrives.
LEMMA BeginTyped ==
  ASSUME TypeInv, NEW q \in Requests, NEW l \in Steps \ TicketHeld,
         NEW fs \in Seq(Files), NEW n \in Nat, Begin(q, l, fs, n),
         Shape(l, [ticket |-> None, files |-> fs, left |-> n]),
         shown' \subseteq Files
  PROVE  TypeInv'
<1> DEFINE r == [ticket |-> None, files |-> fs, left |-> n]
<1>1. r \in Request /\ Moves(q, l, r)
  BY DEF Request, Begin, Goto, Moves
<1> QED BY <1>1, PlainTyped DEF Begin, TypeInv

\* An upload that succeeds.
LEMMA UploadTyped ==
  ASSUME TypeInv, NEW q \in Requests, NEW from, NEW to \in Steps, Upload(q, from, to),
         req[q].left > 0,
         to \in TicketHeld => from \in TicketHeld,
         \A r \in Request : /\ Len(r.files) = Len(req[q].files) + 1
                            /\ r.left = req[q].left - 1
                            => Shape(to, r)
  PROVE  TypeInv'
<1>1. PICK f \in Files :
         /\ stored' = stored \cup {f}
         /\ astray' = astray \ {f}
         /\ req' = [req EXCEPT ![q].files = Append(@, f), ![q].left = @ - 1]
  BY DEF Upload
<1> DEFINE r == [req[q] EXCEPT !.files = Append(@, f), !.left = @ - 1]
<1>2. req[q] \in Request /\ req[q].files \in Seq(Files) /\ req[q].left \in Nat
  BY DEF TypeInv, Request
<1> DEFINE fs == Append(req[q].files, f)
           n  == req[q].left - 1
<1>a. fs \in Seq(Files) /\ Len(fs) = Len(req[q].files) + 1 /\ Len(req[q].files) \in Nat
  BY <1>2, AppendFile, FilesOfSeq
<1>b. n \in Nat
  BY <1>2
<1>3. r \in Request /\ r.ticket = req[q].ticket /\ r.left = n /\ r.files = fs
  <2> HIDE DEF fs, n
  <2>1. r = [req[q] EXCEPT !.files = fs, !.left = n]
    BY DEF fs, n
  <2> QED BY <1>2, <1>a, <1>b, <2>1 DEF Request
<1>4. Len(r.files) + r.left = Len(req[q].files) + req[q].left
  <2>1. Len(r.files) = Len(req[q].files) + 1 /\ r.left = req[q].left - 1
    <3> HIDE DEF r
    <3> QED BY <1>3, <1>a
  <2>2. Len(req[q].files) \in Nat /\ req[q].left \in Nat
    BY <1>2, <1>a
  <2>3. \A a, b \in Nat : (a + 1) + (b - 1) = a + b
    OBVIOUS
  <2> HIDE DEF r, fs, n
  <2> QED BY <2>1, <2>2, <2>3
<1>5. Moves(q, to, r)
  BY <1>1 DEF Upload, Goto, Moves, TypeInv
<1>6. Shape(to, r)
  <2> HIDE DEF r
  <2> QED BY <1>3, <1>a
<1> HIDE DEF r
<1> QED BY <1>1, <1>3, <1>4, <1>5, <1>6, PlainTyped DEF Upload, TypeInv

\* A request that ends, the tables having changed within their types.
LEMMA FinishTyped ==
  ASSUME TypeInv, NEW q \in Requests, Finish(q),
         stored' \subseteq Files, photo' \subseteq Files, shown' \subseteq Files,
         astray' \subseteq Files,
         attached' \in [Files -> Tickets \cup {None}],
         ticket' \in [Tickets -> TicketRow \cup {None}],
         documents' \subseteq Seq(Files),
         \A p \in Requests \ {q} : pc[p] \in TicketHeld =>
            ticket'[req[p].ticket] = ticket[req[p].ticket]
  PROVE  TypeInv'
<1>1. Awaited("idle", Blank, ticket'[Blank.ticket])
  BY BlankTyped DEF Awaited
<1> QED BY <1>1, BlankTyped, MoveTyped DEF Finish, Moves

\* A request that goes on with the values it has.
LEMMA GotoTyped ==
  ASSUME TypeInv, NEW q \in Requests, NEW l \in Steps, Goto(q, l), UNCHANGED req,
         Shape(l, req[q]), l \in TicketHeld => pc[q] \in TicketHeld,
         UNCHANGED <<photo, ticket, documents, shown>>,
         stored' \subseteq Files, astray' \subseteq Files,
         attached' \in [Files -> Tickets \cup {None}]
  PROVE  TypeInv'
<1>1. req[q] \in Request /\ Moves(q, l, req[q])
  BY DEF TypeInv, Goto, Moves
<1> QED BY <1>1, PlainTyped DEF TypeInv

\* What the type invariant says of one request.
LEMMA RequestTyped ==
  ASSUME TypeInv, NEW q \in Requests
  PROVE  /\ pc[q] \in Steps /\ req[q] \in Request /\ Shape(pc[q], req[q])
         /\ req[q].files \in Seq(Files) /\ req[q].left \in Nat
         /\ Len(req[q].files) \in Nat /\ Range(req[q].files) \subseteq Files
         /\ req[q].files = <<>> <=> Len(req[q].files) = 0
         /\ req[q].files = <<>> => Range(req[q].files) = {}
         /\ pc[q] \in TicketHeld => /\ req[q].ticket \in Tickets
                                   /\ ticket[req[q].ticket] \in TicketRow
                                   /\ ticket[req[q].ticket] # None
<1>1. pc[q] \in Steps /\ req[q] \in Request /\ Shape(pc[q], req[q])
        /\ Awaited(pc[q], req[q], ticket[req[q].ticket])
  BY DEF TypeInv
<1>2. req[q].files \in Seq(Files) /\ req[q].left \in Nat
  BY <1>1 DEF Request
<1> QED BY <1>1, <1>2, FilesOfSeq DEF Awaited, TypeInv

\* The steps of RoomPhotoService.
LEMMA PhotosTyped ==
  ASSUME TypeInv, NEW q \in Requests, Photos(q)
  PROVE  TypeInv'
<1> USE DEF Steps, PhotoSteps, TicketSteps, ContractSteps, TicketHeld
<1>0. /\ req[q].files \in Seq(Files) /\ Range(req[q].files) \subseteq Files
      /\ Shape(pc[q], req[q]) /\ (req[q].files = <<>> <=> Len(req[q].files) = 0)
  BY RequestTyped
<1>1. CASE BeginUploadPhoto(q)
  <2>1. Shape("up_upload", [ticket |-> None, files |-> <<>>, left |-> 1])
    BY NoFile DEF Shape
  <2> QED BY <1>1, <2>1, NoFile, BeginTyped DEF BeginUploadPhoto, TypeInv
<1>2. CASE UploadPhoto(q)
  <2>1. pc[q] = "up_upload" /\ req[q].left > 0
    BY <1>0, <1>2 DEF UploadPhoto, Upload, Shape
  <2>2. \A r \in Request : Len(r.files) = Len(req[q].files) + 1 => Shape("up_insert", r)
    BY RequestTyped DEF Shape
  <2> QED BY <1>2, <2>1, <2>2, UploadTyped DEF UploadPhoto
<1>3. CASE UploadPhotoInsert(q)
  BY <1>0, <1>3, FinishTyped DEF UploadPhotoInsert, TypeInv
<1>4. CASE BeginDeletePhoto(q)
  <2>1. PICK f \in photo : Begin(q, "dp_file", <<f>>, 0) /\ shown' = shown \ {f}
    BY <1>4 DEF BeginDeletePhoto
  <2>2. f \in Files
    BY DEF TypeInv
  <2>3. Shape("dp_file", [ticket |-> None, files |-> <<f>>, left |-> 0])
    BY <2>2, OneFile DEF Shape
  <2> QED BY <2>1, <2>2, <2>3, OneFile, BeginTyped DEF TypeInv
<1>5. CASE DeletePhotoFile(q)
  <2>1. Head(req[q].files) \in Files
    BY <1>0, <1>5, TailOfFiles DEF DeletePhotoFile, Shape
  <2>2. Shape("dp_row", req[q])
    BY <1>0, <1>5 DEF DeletePhotoFile, Shape
  <2> QED BY <1>5, <2>1, <2>2, GotoTyped DEF DeletePhotoFile, DeleteFile, TypeInv
<1>6. CASE DeletePhotoRow(q)
  BY <1>6, FinishTyped DEF DeletePhotoRow, TypeInv
<1> QED BY <1>1, <1>2, <1>3, <1>4, <1>5, <1>6 DEF Photos

\* Inserting the row of a ticket that had none, of which a request may have been told.
LEMMA InsertTicket ==
  ASSUME TypeInv, NEW t \in Tickets, ticket[t] = None, NEW row \in TicketRow,
         ticket' = [ticket EXCEPT ![t] = row]
  PROVE  /\ ticket' \in [Tickets -> TicketRow \cup {None}]
         /\ ticket'[t] = row /\ row # None
         /\ \A p \in Requests : pc[p] \in TicketHeld =>
              /\ ticket'[req[p].ticket] = ticket[req[p].ticket]
              /\ req[p].ticket # t
  BY NoneIsNoRow DEF TypeInv, Awaited

\* The steps of TicketService.CreateTicket and TenantPortalService.CreateMyTicket.
LEMMA TicketsTyped ==
  ASSUME TypeInv, NEW q \in Requests, TicketsOf(q)
  PROVE  TypeInv'
<1> USE DEF Steps, PhotoSteps, TicketSteps, ContractSteps, TicketHeld
<1>0. /\ req[q] \in Request /\ req[q].files \in Seq(Files) /\ req[q].left \in Nat
      /\ Len(req[q].files) \in Nat
      /\ Shape(pc[q], req[q]) /\ (req[q].files = <<>> <=> Len(req[q].files) = 0)
  BY RequestTyped
<1>1. CASE BeginTicket(q) \/ BeginMyTicket(q)
  <2>1. PICK n \in 0 .. MaxPhotos : \/ Begin(q, "ct_insert", <<>>, n)
                                   \/ Begin(q, "mt_insert", <<>>, n)
    BY <1>1 DEF BeginTicket, BeginMyTicket
  <2>2. n \in Nat /\ n <= MaxPhotos
    BY ConstantsAssumption
  <2>3. /\ Shape("ct_insert", [ticket |-> None, files |-> <<>>, left |-> n])
        /\ Shape("mt_insert", [ticket |-> None, files |-> <<>>, left |-> n])
    BY <2>2, NoFile DEF Shape
  <2>4. shown' \subseteq Files
    BY <1>1 DEF BeginTicket, BeginMyTicket, TypeInv
  <2> QED BY <2>1, <2>2, <2>3, <2>4, NoFile, BeginTyped
<1>2. CASE CreateTicketInsert(q)
  <2> DEFINE row == [portal |-> FALSE, sent |-> req[q].left, told |-> None]
             l   == NextPhoto(req[q].left)
  <2>1. PICK t \in Tickets : /\ ticket[t] = None
                             /\ ticket' = [ticket EXCEPT ![t] = row]
                             /\ req' = [req EXCEPT ![q].ticket = t]
    BY <1>2 DEF CreateTicketInsert
  <2> DEFINE r == [req[q] EXCEPT !.ticket = t]
  <2>2. req[q].left <= MaxPhotos /\ Len(req[q].files) = 0
    BY <1>0, <1>2 DEF CreateTicketInsert, Shape
  <2>3. row \in TicketRow /\ row.sent = req[q].left /\ row.told = None
    BY <1>0, <2>2, ConstantsAssumption DEF TicketRow
  <2>4. /\ r \in Request /\ r.ticket = t /\ r.files = req[q].files
        /\ r.left = req[q].left
    BY <1>0 DEF Request
  <2>5. Moves(q, l, r)
    BY <1>2, <2>1 DEF CreateTicketInsert, Goto, Moves, TypeInv
  <2>6. l \in {"ct_answer", "ct_upload"} /\ (l = "ct_answer" <=> req[q].left = 0)
    BY DEF NextPhoto
  <2> HIDE DEF row, r, l
  <2>7. Shape(l, r)
    BY <1>0, <2>4, <2>6 DEF Shape
  <2>8. ticket' \in [Tickets -> TicketRow \cup {None}] /\ ticket'[t] = row /\ row # None
    BY <2>1, <2>3, InsertTicket
  <2>9. \A p \in Requests : pc[p] \in TicketHeld =>
              /\ ticket'[req[p].ticket] = ticket[req[p].ticket]
              /\ req[p].ticket # t
    BY <2>1, <2>3, InsertTicket
  <2>10. Awaited(l, r, ticket'[r.ticket])
    <3>1. row.sent = Len(r.files) + r.left
      BY <1>0, <2>2, <2>3, <2>4
    <3> QED BY <2>3, <2>4, <2>8, <3>1 DEF Awaited
  <2> QED
    BY <1>2, <2>4, <2>5, <2>6, <2>7, <2>8, <2>9, <2>10, MoveTyped
    DEF CreateTicketInsert, TypeInv
<1>3. CASE CreateTicketUpload(q)
  <2>1. pc[q] = "ct_upload" /\ req[q].left > 0
    BY <1>0, <1>3 DEF CreateTicketUpload, Upload, Shape
  <2>2. \A r \in Request : Len(r.files) = Len(req[q].files) + 1 => Shape("ct_attach", r)
    BY <1>0 DEF Shape
  <2> QED BY <1>3, <2>1, <2>2, UploadTyped DEF CreateTicketUpload
<1>4. CASE CreateTicketAttach(q)
  <2> DEFINE l == NextPhoto(req[q].left)
  <2>1. l \in {"ct_answer", "ct_upload"} /\ (l = "ct_answer" <=> req[q].left = 0)
    BY DEF NextPhoto
  <2> HIDE DEF l
  <2>2. Shape(l, req[q])
    BY <1>0, <2>1 DEF Shape
  <2>3. attached' \in [Files -> Tickets \cup {None}]
    BY <1>4, RequestTyped DEF CreateTicketAttach, InsertAttachment, TypeInv
  <2> QED BY <1>4, <2>1, <2>2, <2>3, GotoTyped DEF CreateTicketAttach, TypeInv, l
<1>5. CASE CreateTicketAnswer(q)
  <2> DEFINE t == req[q].ticket
             n == Len(req[q].files)
  <2>1. /\ t \in Tickets /\ ticket[t] \in TicketRow /\ req[q].left = 0
        /\ ticket[t].sent = n + req[q].left
    BY <1>0, <1>5, RequestTyped DEF CreateTicketAnswer, Shape, TypeInv, Awaited
  <2>2. n \in 0 .. MaxPhotos
    BY <1>0, <2>1, ConstantsAssumption DEF TicketRow
  <2> HIDE DEF n
  <2>3. ticket' = [ticket EXCEPT ![t].told = n]
    BY <1>5 DEF CreateTicketAnswer, n
  <2>4. [ticket[t] EXCEPT !.told = n] \in TicketRow
    BY <2>1, <2>2 DEF TicketRow
  <2>5. ticket' \in [Tickets -> TicketRow \cup {None}]
    BY <2>1, <2>3, <2>4 DEF TypeInv
  <2>6. \A p \in Requests \ {q} : pc[p] \in TicketHeld =>
            ticket'[req[p].ticket] = ticket[req[p].ticket]
    BY <1>5, <2>3 DEF CreateTicketAnswer, TypeInv
  <2> QED BY <1>5, <2>5, <2>6, FinishTyped DEF CreateTicketAnswer, TypeInv
<1>6. CASE CreateMyTicket(q)
  <2> DEFINE row == [portal |-> TRUE, sent |-> req[q].left, told |-> 0]
  <2>1. PICK t \in Tickets : /\ ticket[t] = None
                             /\ ticket' = [ticket EXCEPT ![t] = row]
    BY <1>6 DEF CreateMyTicket
  <2>2. row \in TicketRow
    BY <1>0, <1>6, ConstantsAssumption DEF CreateMyTicket, Shape, TicketRow
  <2> QED BY <1>6, <2>1, <2>2, InsertTicket, FinishTyped DEF CreateMyTicket, TypeInv
<1> QED BY <1>1, <1>2, <1>3, <1>4, <1>5, <1>6 DEF TicketsOf

\* The steps of GenerateContract.
LEMMA ContractsTyped ==
  ASSUME TypeInv, NEW q \in Requests, Contracts(q)
  PROVE  TypeInv'
<1> USE DEF Steps, PhotoSteps, TicketSteps, ContractSteps, TicketHeld
<1>0. /\ req[q].files \in Seq(Files) /\ req[q].left \in Nat
      /\ Len(req[q].files) \in Nat /\ Shape(pc[q], req[q])
  BY RequestTyped
<1>1. CASE BeginContract(q)
  <2>1. Shape("gc_pdf", [ticket |-> None, files |-> <<>>, left |-> 2])
    BY NoFile DEF Shape
  <2> QED BY <1>1, <2>1, NoFile, BeginTyped DEF BeginContract, TypeInv
<1>2. CASE UploadPDF(q)
  <2>1. pc[q] = "gc_pdf" /\ req[q].left = 2 /\ Len(req[q].files) = 0
    BY <1>0, <1>2 DEF UploadPDF, Upload, Shape
  <2>2. \A r \in Request : /\ Len(r.files) = Len(req[q].files) + 1
                           /\ r.left = req[q].left - 1
                           => Shape("gc_docx", r)
    BY <2>1 DEF Shape
  <2>3. req[q].left > 0
    BY <2>1
  <2> QED BY <1>2, <2>2, <2>3, UploadTyped DEF UploadPDF
<1>3. CASE UploadDOCX(q)
  <2>1. pc[q] = "gc_docx" /\ req[q].left = 1 /\ Len(req[q].files) = 1
    BY <1>0, <1>3 DEF UploadDOCX, Upload, Shape
  <2>2. \A r \in Request : Len(r.files) = Len(req[q].files) + 1 => Shape("gc_answer", r)
    BY <2>1 DEF Shape
  <2>3. req[q].left > 0
    BY <2>1
  <2> QED BY <1>3, <2>2, <2>3, UploadTyped DEF UploadDOCX
<1>4. CASE GenerateAnswer(q)
  BY <1>0, <1>4, FinishTyped DEF GenerateAnswer, TypeInv
<1> QED BY <1>1, <1>2, <1>3, <1>4 DEF Contracts

\* Cleaning up and the faults.
LEMMA FailuresTyped ==
  ASSUME TypeInv, NEW q \in Requests, Clean(q) \/ Fail(q)
  PROVE  TypeInv'
<1>0. /\ req[q].files \in Seq(Files) /\ Range(req[q].files) \subseteq Files
      /\ Shape(pc[q], req[q]) /\ (req[q].files = <<>> <=> Len(req[q].files) = 0)
  BY RequestTyped
<1>1. CASE Clean(q)
  <2>1. Head(req[q].files) \in Files /\ Tail(req[q].files) \in Seq(Files)
    BY <1>0, <1>1, TailOfFiles DEF Clean, Shape
  <2> QED BY <1>1, <2>1, CleanUpTyped DEF Clean, DeleteFile, TypeInv
<1>2. CASE FailUpload(q)
  BY <1>0, <1>2, CleanUpTyped DEF FailUpload, TypeInv
<1>3. CASE FailInsert(q)
  BY <1>0, <1>3, CleanUpTyped DEF FailInsert, TypeInv
<1>4. CASE FailAttach(q)
  <2>1. attached' \in [Files -> Tickets \cup {None}]
    BY <1>4, RequestTyped DEF FailAttach, InsertAttachment, TypeInv, TicketHeld
  <2> QED BY <1>0, <1>4, <2>1, CleanUpTyped DEF FailAttach, TypeInv
<1>5. CASE Abandon(q)
  BY <1>5, FinishTyped DEF Abandon, TypeInv
<1>6. CASE Crash(q)
  BY <1>0, <1>6, FinishTyped DEF Crash, TypeInv
<1> QED BY <1>1, <1>2, <1>3, <1>4, <1>5, <1>6 DEF Fail

\* TypeInv is an invariant.
LEMMA TypeInvariant == Spec => []TypeInv
<1>1. Init => TypeInv
  BY BlankTyped, NoneIsNoRow
  DEF Init, TypeInv, Steps, PhotoSteps, TicketSteps, ContractSteps, Awaited
<1>2. TypeInv /\ [Next]_vars => TypeInv'
  <2> SUFFICES ASSUME TypeInv, [Next]_vars PROVE TypeInv'
    OBVIOUS
  <2>1. CASE Next
    BY <2>1, PhotosTyped, TicketsTyped, ContractsTyped, FailuresTyped DEF Next
  <2>2. CASE UNCHANGED vars
    BY <2>2 DEF vars, TypeInv
  <2> QED BY <2>1, <2>2
<1> QED BY <1>1, <1>2, PTL DEF Spec

\* The tables hold what their columns may, and a request the files and the ticket
\* its next step needs; an answer lists at most MaxPhotos attachments.
THEOREM TypeCorrect == Spec => []TypeOK
BY TypeInvariant, TypeInvTyped, PTL

-----------------------------------------------------------------------------
(* Whose file is it *)

Held(q)      == Range(req[q].files)
Deleting(q)  == pc[q] \in {"dp_file", "dp_row"}
Uploading(q) == pc[q] \notin {"dp_file", "dp_row", "clean"}
Documented   == UNION {Range(d) : d \in documents}

\* No two requests have uploaded one file, nor has a request uploaded one that another
\* deletes; only cleaning up and deleting may meet.
Apart ==
    \A p, q \in Requests :
       p # q /\ ~Deleting(p) /\ (Uploading(p) \/ ~Deleting(q))
         => \A f \in Held(p) : f \notin Held(q)

Distinct == \A q \in Requests : IsInjective(req[q].files)

\* A file in a request's hands is one that no client has been told of.
Secret ==
    \A q \in Requests : \A f \in Held(q) :
       /\ f \notin shown /\ f \notin Documented
       /\ attached[f] # None => ~Deleting(q) /\ ticket[attached[f]].told = None

\* A file a request has uploaded is there, and no row but its own points to it.
Uploaded ==
    \A q \in Requests : Uploading(q) =>
       \A f \in Held(q) :
          /\ f \in stored /\ f \notin photo
          /\ attached[f] # None => pc[q] \in TicketHeld /\ attached[f] = req[q].ticket

\* The attachments of its ticket are the files it has uploaded, but the last one
\* before that one's row is inserted.
Recorded ==
    \A q \in Requests : pc[q] \in TicketHeld =>
       \A f \in Files :
          attached[f] = req[q].ticket
            <=> f \in Held(q) /\ (pc[q] = "ct_attach" => f # Last(req[q].files))

\* A photo of a room is nothing else, and attachments have a ticket.
Rows ==
    /\ \A f \in photo : attached[f] = None /\ f \notin Documented
    /\ \A f \in Files : attached[f] # None => ticket[attached[f]] # None

\* A photo whose file has been deleted is not there, or the storage service failed.
Deleted ==
    \A q \in Requests : pc[q] = "dp_row" => \A f \in Held(q) : f \in stored => f \in astray

\* Something points to every file.
Reached ==
    \A f \in stored :
       \/ f \in photo \/ attached[f] # None \/ f \in Documented \/ f \in astray
       \/ \E q \in Requests : ~Deleting(q) /\ f \in Held(q)

\* The parts of AnswersAreTrue.
Shown == shown \subseteq photo /\ shown \subseteq stored /\ Documented \subseteq stored

Told(t) == ticket[t] # None /\ ticket[t].told # None

Counted ==
    \A t \in Tickets : Told(t) =>
       /\ ~ticket[t].portal => ticket[t].told = ticket[t].sent
       /\ Cardinality(AttachedTo(t)) = ticket[t].told
       /\ \A f \in Files : attached[f] = t => f \in stored

FilesInv ==
    /\ Apart /\ Distinct /\ Secret /\ Uploaded /\ Recorded /\ Rows /\ Deleted
    /\ Reached /\ Shown /\ Counted

\* A step of request q that leaves the other requests alone.
Others(q) == \A p \in Requests \ {q} : pc'[p] = pc[p] /\ req'[p] = req[p]

-----------------------------------------------------------------------------
(* What a step of one request does to files *)

\* A request that has no file in its hands, and takes none, disturbs nothing, though
\* it may insert a ticket of which nobody is told, or by the portal, of which nothing is.
LEMMA EmptyHanded ==
  ASSUME TypeInv, FilesInv, NEW q \in Requests, Others(q), Held(q)' = {}, Held(q) = {},
         IsInjective(req'[q].files), ~Deleting(q)', pc'[q] # "clean",
         UNCHANGED <<stored, photo, attached, documents, shown, astray>>,
         \A t \in Tickets : ticket[t] # None => ticket'[t] = ticket[t],
         \A t \in Tickets : ticket[t] = None /\ ticket'[t] # None
                              => \/ ticket'[t].told = None
                                 \/ ticket'[t].told = 0 /\ ticket'[t].portal,
         pc'[q] \in TicketHeld => req'[q].ticket \in Tickets /\ ticket[req'[q].ticket] = None
  PROVE  FilesInv'
<1> USE DEF FilesInv, Others
<1>0. /\ \A p \in Requests : \A f \in Held(p) : f \in Files
      /\ attached \in [Files -> Tickets \cup {None}] /\ photo \subseteq Files
      /\ stored \subseteq Files
      /\ \A p \in Requests : pc[p] \in TicketHeld => req[p].ticket \in Tickets
  BY RequestTyped DEF TypeInv, Held
<1>a. Documented' = Documented /\ \A t : AttachedTo(t)' = AttachedTo(t)
  BY DEF Documented, AttachedTo
<1>1. Apart'
  BY DEF Apart, Held, Deleting, Uploading
<1>2. Distinct'
  BY DEF Distinct
<1>3. Secret'
  BY <1>0, <1>a DEF Secret, Held, Deleting, Rows
<1>4. Uploaded'
  BY DEF Uploaded, Held, Uploading
<1>5. Recorded'
  <2>1. ASSUME pc'[q] \in TicketHeld, NEW f \in Files
        PROVE  attached[f] # req'[q].ticket
    BY <1>0, <2>1, NoneIsNoRow, ConstantsAssumption DEF Rows
  <2> QED BY <2>1 DEF Recorded, Held
<1>6. Rows'
  BY <1>0, <1>a DEF Rows
<1>7. Deleted'
  BY DEF Deleted, Held, Deleting
<1>8. Reached'
  BY <1>a DEF Reached, Held, Deleting
<1>9. Shown'
  BY <1>a DEF Shown
<1>10. Counted'
  <2> SUFFICES ASSUME NEW t \in Tickets, ticket'[t] # None, ticket'[t].told # None
               PROVE  /\ ~ticket'[t].portal => ticket'[t].told = ticket'[t].sent
                      /\ Cardinality(AttachedTo(t)) = ticket'[t].told
                      /\ \A f \in Files : attached[f] = t => f \in stored
    BY <1>a DEF Counted, Told
  <2>1. CASE ticket[t] # None
    BY <2>1 DEF Counted, Told
  <2>2. CASE ticket[t] = None
    <3>1. \A f \in Files : attached[f] # t
      BY <1>0, <2>2, ConstantsAssumption DEF Rows
    <3>2. AttachedTo(t) = {}
      BY <3>1 DEF AttachedTo
    <3> QED BY <2>2, <3>1, <3>2, FS_EmptySet
  <2> QED BY <2>1, <2>2
<1> QED BY <1>1, <1>2, <1>3, <1>4, <1>5, <1>6, <1>7, <1>8, <1>9, <1>10

\* An upload puts a fresh file into the hands of a request, which had uploaded the
\* others it holds.
LEMMA UploadKeeps ==
  ASSUME TypeInv, FilesInv, NEW q \in Requests, NEW from, NEW to, Upload(q, from, to),
         from \notin {"dp_file", "dp_row", "clean"},
         to \notin {"dp_file", "dp_row", "clean"},
         to \in TicketHeld <=> from \in TicketHeld,
         from # "ct_attach", to \in TicketHeld => to = "ct_attach"
  PROVE  FilesInv'
<1> USE DEF FilesInv
<1>1. PICK f \in Files :
         /\ Fresh(f)
         /\ stored' = stored \cup {f}
         /\ astray' = astray \ {f}
         /\ req' = [req EXCEPT ![q].files = Append(@, f), ![q].left = @ - 1]
  BY DEF Upload
<1>2. /\ pc[q] = from /\ pc'[q] = to
      /\ UNCHANGED <<photo, attached, ticket, documents, shown>>
      /\ \A p \in Requests \ {q} : pc'[p] = pc[p] /\ req'[p] = req[p]
  BY <1>1 DEF Upload, Goto, TypeInv
<1>3. req[q] \in Request /\ req[q].files \in Seq(Files)
  BY RequestTyped
<1>4. req'[q].ticket = req[q].ticket /\ req'[q].files = Append(req[q].files, f)
  BY <1>1, <1>3 DEF TypeInv, Request
<1>5. /\ f \notin stored /\ f \notin photo /\ attached[f] = None
      /\ \A p \in Requests : f \notin Held(p)
  BY <1>1 DEF Fresh, Held
<1>6. /\ Held(q)' = Held(q) \cup {f} /\ Last(req'[q].files) = f
      /\ IsInjective(req'[q].files)
  BY <1>3, <1>4, <1>5, AppendFile DEF Held, Distinct
<1>7. /\ Documented' = Documented /\ f \notin Documented /\ f \notin shown
      /\ \A t : AttachedTo(t)' = AttachedTo(t)
  BY <1>2, <1>5 DEF Documented, Shown, AttachedTo
<1>8. \A p \in Requests \ {q} : Held(p)' = Held(p)
  BY <1>2 DEF Held
<1>9. \A p \in Requests : pc[p] \in TicketHeld => req[p].ticket \in Tickets
  BY RequestTyped
<1>10. Apart'
  BY <1>2, <1>5, <1>6, <1>8 DEF Apart, Deleting, Uploading
<1>11. Distinct'
  BY <1>2, <1>6 DEF Distinct
<1>12. Secret'
  BY <1>2, <1>5, <1>6, <1>7, <1>8 DEF Secret, Deleting
<1>13. Uploaded'
  <2>1. ASSUME NEW p \in Requests, Uploading(p)', NEW g \in Held(p)', g # f
        PROVE  /\ g \in stored' /\ g \notin photo'
               /\ attached'[g] # None => pc'[p] \in TicketHeld
                                         /\ attached'[g] = req'[p].ticket
    <3>1. /\ g \in Held(p) /\ Uploading(p) /\ req'[p].ticket = req[p].ticket
          /\ pc[p] \in TicketHeld => pc'[p] \in TicketHeld
      BY <1>2, <1>4, <1>6, <1>8, <2>1 DEF Uploading
    <3> QED BY <1>1, <1>2, <3>1 DEF Uploaded
  <2> QED BY <1>1, <1>2, <1>5, <2>1 DEF Uploaded
<1>14. Recorded'
  <2>1. ASSUME NEW p \in Requests \ {q}, pc'[p] \in TicketHeld, NEW g \in Files
        PROVE  attached'[g] = req'[p].ticket
                 <=> g \in Held(p)' /\ (pc'[p] = "ct_attach" => g # Last(req'[p].files))
    BY <1>2, <1>8, <2>1 DEF Recorded
  <2>2. ASSUME pc'[q] \in TicketHeld, NEW g \in Files
        PROVE  attached'[g] = req'[q].ticket
                 <=> g \in Held(q)' /\ (pc'[q] = "ct_attach" => g # Last(req'[q].files))
    <3>1. to = "ct_attach" /\ from \in TicketHeld
      BY <1>2, <2>2
    <3>2. attached[g] = req[q].ticket <=> g \in Held(q)
      BY <1>2, <3>1 DEF Recorded
    <3>3. f \notin Held(q)
      BY <1>5
    <3> QED BY <1>2, <1>4, <1>6, <3>1, <3>2, <3>3
  <2> QED BY <2>1, <2>2 DEF Recorded
<1>15. Rows'
  BY <1>2, <1>7 DEF Rows
<1>16. Deleted'
  BY <1>1, <1>2, <1>5, <1>8 DEF Deleted
<1>17. Reached'
  <2>1. ASSUME NEW g \in stored, g # f
        PROVE  \/ g \in photo' \/ attached'[g] # None \/ g \in Documented'
               \/ g \in astray' \/ \E p \in Requests : ~Deleting(p)' /\ g \in Held(p)'
    BY <1>1, <1>2, <1>6, <1>7, <1>8, <2>1 DEF Reached, Deleting
  <2>2. ~Deleting(q)' /\ f \in Held(q)'
    BY <1>2, <1>6 DEF Deleting
  <2> QED BY <1>1, <2>1, <2>2 DEF Reached
<1>18. Shown'
  BY <1>1, <1>2, <1>7 DEF Shown
<1>19. Counted'
  BY <1>1, <1>2, <1>7 DEF Counted, Told
<1> QED
  BY <1>10, <1>11, <1>12, <1>13, <1>14, <1>15, <1>16, <1>17, <1>18, <1>19

\* A request that has uploaded files and ends, or turns to deleting them, after one of
\* its statements may have taken effect.  A file that leaves its hands is deleted,
\* recorded, or lost track of.
LEMMA GivingUp ==
  ASSUME TypeInv, FilesInv, NEW q \in Requests, Others(q),
         UNCHANGED <<ticket, documents, shown>>,
         ~Deleting(q), pc'[q] \in {"idle", "clean"}, pc'[q] = "idle" => Held(q)' = {},
         Held(q)' \subseteq Held(q), IsInjective(req'[q].files),
         astray \subseteq astray',
         \A f \in stored : f \notin stored' => f \in Held(q) /\ pc[q] = "clean",
         \A f \in stored' : f \notin stored => f \in Files /\ Fresh(f) /\ f \in astray',
         \A f \in photo : f \in photo',
         \A f \in photo' : f \notin photo => f \in Held(q) /\ pc[q] = "up_insert",
         \A f \in Files : attached'[f] # attached[f] =>
            f \in Held(q) /\ pc[q] = "ct_attach" /\ attached'[f] = req[q].ticket,
         \A f \in Held(q) : f \in stored' /\ f \notin Held(q)' => f \in astray'
  PROVE  FilesInv'
<1> USE DEF FilesInv, Others
<1>0. /\ \A p \in Requests : \A f \in Held(p) : f \in Files
      /\ photo \subseteq Files /\ stored \subseteq Files
      /\ \A p \in Requests : pc[p] \in TicketHeld =>
            /\ req[p].ticket \in Tickets /\ ticket[req[p].ticket] # None
            /\ ticket[req[p].ticket].told = None
      /\ \A p \in Requests \ {q} : pc[p] \in TicketHeld /\ pc[q] \in TicketHeld
            => req[p].ticket # req[q].ticket
  BY RequestTyped DEF TypeInv, Held, Awaited
<1>1. Documented' = Documented
  BY DEF Documented
<1>2. \A p \in Requests \ {q} : Held(p)' = Held(p)
  BY DEF Held
<1>3. ~Deleting(q)' /\ (Uploading(q)' => Held(q)' = {}) /\ pc'[q] \notin TicketHeld
  BY DEF Deleting, Uploading, TicketHeld
<1>4. \A f \in Files : attached'[f] # attached[f] =>
         /\ f \in Held(q) /\ Uploading(q) /\ f \notin photo /\ f \notin Documented
         /\ attached'[f] = req[q].ticket /\ req[q].ticket \in Tickets
         /\ ticket[req[q].ticket] # None /\ ticket[req[q].ticket].told = None
         /\ pc[q] \in TicketHeld
  BY <1>0 DEF Uploading, Uploaded, Secret, TicketHeld
<1>5. Apart'
  BY <1>2, <1>3 DEF Apart, Deleting, Uploading
<1>6. Distinct'
  BY DEF Distinct
<1>7. Secret'
  <2>1. ASSUME NEW p \in Requests, NEW f \in Held(p)', f \in Held(p), Deleting(p)' <=> Deleting(p)
        PROVE  /\ f \notin shown' /\ f \notin Documented'
               /\ attached'[f] # None => ~Deleting(p)' /\ ticket'[attached'[f]].told = None
    <3>1. CASE attached'[f] = attached[f]
      BY <1>1, <2>1, <3>1 DEF Secret
    <3>2. CASE attached'[f] # attached[f]
      <4>1. f \in Held(q) /\ Uploading(q) /\ ticket'[attached'[f]].told = None
        BY <1>0, <1>4, <2>1, <3>2
      <4>2. ~Deleting(p)
        BY <2>1, <4>1 DEF Apart, Deleting
      <4> QED BY <1>1, <2>1, <4>1, <4>2 DEF Secret
    <3> QED BY <3>1, <3>2
  <2>2. \A p \in Requests : Held(p)' \subseteq Held(p) /\ (Deleting(p)' <=> Deleting(p))
    BY <1>2, <1>3 DEF Deleting
  <2> QED BY <2>1, <2>2 DEF Secret
<1>8. Uploaded'
  <2> SUFFICES ASSUME NEW p \in Requests \ {q}, Uploading(p), NEW f \in Held(p)
               PROVE  /\ f \in stored' /\ f \notin photo'
                      /\ attached'[f] # None => pc[p] \in TicketHeld
                                                /\ attached'[f] = req[p].ticket
    BY <1>2, <1>3 DEF Uploaded, Uploading
  <2>1. f \notin Held(q) /\ f \in Files
    BY <1>0 DEF Apart, Deleting, Uploading
  <2>2. attached'[f] = attached[f]
    BY <2>1
  <2> QED BY <2>1, <2>2 DEF Uploaded
<1>9. Recorded'
  <2> SUFFICES ASSUME NEW p \in Requests \ {q}, pc[p] \in TicketHeld, NEW f \in Files
               PROVE  attached'[f] = req[p].ticket
                        <=> f \in Held(p) /\ (pc[p] = "ct_attach" => f # Last(req[p].files))
    BY <1>2, <1>3 DEF Recorded
  <2>1. CASE attached'[f] = attached[f]
    BY <2>1 DEF Recorded
  <2>2. CASE attached'[f] # attached[f]
    <3>1. f \in Held(q) /\ attached'[f] = req[q].ticket /\ req[q].ticket # req[p].ticket
      BY <1>0, <1>4, <2>2
    <3>2. f \notin Held(p)
      BY <3>1 DEF Apart, Deleting, Uploading, TicketHeld
    <3> QED BY <3>1, <3>2
  <2> QED BY <2>1, <2>2
<1>10. Rows'
  <2>1. ASSUME NEW f \in photo'
        PROVE  attached'[f] = None /\ f \notin Documented
    <3>1. CASE f \in photo
      BY <1>0, <1>4, <3>1 DEF Rows
    <3>2. CASE f \notin photo
      BY <1>0, <3>2 DEF Uploaded, Uploading, TicketHeld, Secret
    <3> QED BY <3>1, <3>2
  <2>2. ASSUME NEW f \in Files, attached'[f] # None
        PROVE  ticket[attached'[f]] # None
    BY <1>4, <2>2 DEF Rows
  <2> QED BY <1>1, <2>1, <2>2 DEF Rows
<1>11. Deleted'
  <2>1. ASSUME NEW p \in Requests, NEW f \in Held(p), f \in stored', f \notin stored
        PROVE  FALSE
    BY <2>1 DEF Fresh, Held
  <2> QED BY <1>2, <1>3, <2>1 DEF Deleted, Deleting
<1>12. Reached'
  <2> SUFFICES ASSUME NEW f \in stored', f \notin astray', f \notin photo',
                      attached'[f] = None, f \notin Documented
               PROVE  \E p \in Requests : ~Deleting(p)' /\ f \in Held(p)'
    BY <1>1 DEF Reached
  <2>1. f \in stored /\ f \notin astray /\ f \notin photo /\ f \in Files
    BY <1>0
  <2>2. attached[f] = None
    BY <1>4, <2>1, NoneIsNoRow, ConstantsAssumption
  <2>3. PICK p \in Requests : ~Deleting(p) /\ f \in Held(p)
    BY <2>1, <2>2 DEF Reached
  <2>4. CASE p = q
    BY <1>3, <2>3, <2>4
  <2>5. CASE p # q
    BY <1>2, <2>3, <2>5 DEF Deleting
  <2> QED BY <2>4, <2>5
<1>13. Shown'
  <2>1. \A f \in stored : f \in shown \/ f \in Documented => f \in stored'
    BY DEF Secret
  <2> QED BY <1>1, <2>1 DEF Shown
<1>14. Counted'
  <2> SUFFICES ASSUME NEW t \in Tickets, Told(t)
               PROVE  /\ AttachedTo(t)' = AttachedTo(t)
                      /\ \A f \in Files : attached'[f] = t => f \in stored'
    BY DEF Counted, Told
  <2>1. \A f \in Files : attached'[f] = t <=> attached[f] = t
    <3> SUFFICES ASSUME NEW f \in Files, attached'[f] # attached[f]
                 PROVE  attached'[f] # t /\ attached[f] # t
      OBVIOUS
    <3>1. attached'[f] # t
      BY <1>4 DEF Told
    <3>2. attached[f] # t
      BY <1>4, ConstantsAssumption DEF Told, Secret
    <3> QED BY <3>1, <3>2
  <2>2. \A f \in Files : attached[f] = t => f \in stored'
    <3> SUFFICES ASSUME NEW f \in Files, attached[f] = t, f \notin stored' PROVE FALSE
      OBVIOUS
    <3>1. f \in stored
      BY DEF Counted
    <3>2. f \in Held(q)
      BY <3>1
    <3> QED BY <3>2, ConstantsAssumption DEF Secret, Told
  <2> QED BY <2>1, <2>2 DEF AttachedTo
<1> QED
  BY <1>5, <1>6, <1>7, <1>8, <1>9, <1>10, <1>11, <1>12, <1>13, <1>14

\* What a step of request q leaves alone in the hands of the others.
LEMMA OthersKeep ==
  ASSUME NEW q, NEW p \in Requests \ {q}, Others(q)
  PROVE  /\ Held(p)' = Held(p) /\ pc'[p] = pc[p] /\ req'[p] = req[p]
         /\ Deleting(p)' <=> Deleting(p)
         /\ Uploading(p)' <=> Uploading(p)
  BY DEF Others, Held, Deleting, Uploading

\* What a request has uploaded is in nobody else's hands.
LEMMA UploadedIsOwn ==
  ASSUME FilesInv, NEW q \in Requests, NEW p \in Requests \ {q},
         Uploading(q), NEW f \in Held(q)
  PROVE  f \notin Held(p)
  BY DEF FilesInv, Apart, Uploading, Deleting

\* Files in hand are files.
LEMMA HeldTyped ==
  ASSUME TypeInv
  PROVE  /\ \A p \in Requests : \A f \in Held(p) : f \in Files
         /\ photo \subseteq Files /\ stored \subseteq Files /\ pc \in [Requests -> Steps]
         /\ req \in [Requests -> Request]
         /\ attached \in [Files -> Tickets \cup {None}]
         /\ \A p \in Requests : pc[p] \in TicketHeld =>
              /\ req[p].ticket \in Tickets /\ ticket[req[p].ticket] # None
              /\ ticket[req[p].ticket].told = None
         /\ \A p, q \in Requests :
              pc[p] \in TicketHeld /\ pc[q] \in TicketHeld /\ p # q
                => req[p].ticket # req[q].ticket
  BY RequestTyped DEF TypeInv, Held, Awaited

-----------------------------------------------------------------------------
(* Photos *)

\* The delete of a photo ends, with its row deleted or not.
LEMMA DeleteEnds ==
  ASSUME TypeInv, FilesInv, NEW q \in Requests, Others(q),
         Deleting(q), pc'[q] = "idle", Held(q)' = {}, IsInjective(req'[q].files),
         UNCHANGED <<stored, attached, ticket, documents, shown, astray>>,
         \A f \in photo' : f \in photo,
         \A f \in photo : f \notin photo' => f \in Held(q) /\ pc[q] = "dp_row"
  PROVE  FilesInv'
<1> USE DEF FilesInv, Others
<1>1. Documented' = Documented /\ \A t : AttachedTo(t)' = AttachedTo(t)
  BY DEF Documented, AttachedTo
<1>2. ~Deleting(q)' /\ pc'[q] \notin TicketHeld
  BY DEF Deleting, TicketHeld
<1>3. Apart'
  BY <1>2, OthersKeep DEF Apart
<1>4. Distinct'
  BY DEF Distinct
<1>5. Secret'
  <2> SUFFICES ASSUME NEW p \in Requests \ {q}, NEW f \in Held(p)
               PROVE  /\ f \notin shown /\ f \notin Documented
                      /\ attached[f] # None
                           => ~Deleting(p) /\ ticket[attached[f]].told = None
    <3>1. \A p \in Requests \ {q} : Held(p)' = Held(p) /\ (Deleting(p)' <=> Deleting(p))
      BY OthersKeep
    <3> QED BY <1>1, <3>1 DEF Secret
  <2> QED BY DEF Secret
<1>6. Uploaded'
  BY OthersKeep DEF Uploaded
<1>7. Recorded'
  BY <1>2, OthersKeep DEF Recorded
<1>8. Rows'
  BY <1>1 DEF Rows
<1>9. Deleted'
  BY OthersKeep DEF Deleted
<1>10. Reached'
  <2> SUFFICES ASSUME NEW f \in stored, f \notin photo', attached[f] = None,
                      f \notin Documented, f \notin astray
               PROVE  \E p \in Requests : ~Deleting(p)' /\ f \in Held(p)'
    BY <1>1 DEF Reached
  <2>1. f \notin photo
    BY DEF Deleted
  <2>2. PICK p \in Requests : ~Deleting(p) /\ f \in Held(p)
    BY <2>1 DEF Reached
  <2> QED BY <2>2, OthersKeep
<1>11. Shown'
  BY <1>1 DEF Shown, Secret
<1>12. Counted'
  BY <1>1 DEF Counted, Told
<1> QED
  BY <1>3, <1>4, <1>5, <1>6, <1>7, <1>8, <1>9, <1>10, <1>11, <1>12

\* The delete of a photo begins: it is in the hands of a request from here on.
LEMMA DeleteBegins ==
  ASSUME TypeInv, FilesInv, NEW q \in Requests, BeginDeletePhoto(q)
  PROVE  FilesInv'
<1> USE DEF FilesInv
<1>1. PICK f \in photo : Begin(q, "dp_file", <<f>>, 0) /\ shown' = shown \ {f}
  BY DEF BeginDeletePhoto
<1>2. /\ pc[q] = "idle" /\ pc'[q] = "dp_file" /\ req'[q].files = <<f>> /\ Others(q)
      /\ UNCHANGED <<stored, photo, attached, ticket, documents, astray>>
  BY <1>1 DEF Begin, Goto, Others, TypeInv
<1>3. f \in Files /\ Held(q)' = {f} /\ IsInjective(req'[q].files)
  BY <1>2, OneFile DEF TypeInv, Held
<1>4. Held(q) = {}
  BY <1>2, RequestTyped DEF Held, Shape
<1>5. Documented' = Documented /\ \A t : AttachedTo(t)' = AttachedTo(t)
  BY <1>2 DEF Documented, AttachedTo
<1>6. Deleting(q)' /\ ~Uploading(q)' /\ pc'[q] \notin TicketHeld
  BY <1>2 DEF Deleting, Uploading, TicketHeld
<1>7. f \notin Documented /\ attached[f] = None
  BY DEF Rows
<1>8. Apart'
  <2>1. \A p \in Requests : Uploading(p) => f \notin Held(p)
    BY DEF Uploaded
  <2> QED BY <1>2, <1>3, <1>6, <2>1, OthersKeep DEF Apart
<1>9. Distinct'
  BY <1>2, <1>3 DEF Distinct, Others
<1>10. Secret'
  BY <1>1, <1>2, <1>3, <1>5, <1>7, OthersKeep DEF Secret
<1>11. Uploaded'
  BY <1>2, <1>6, OthersKeep DEF Uploaded
<1>12. Recorded'
  BY <1>2, <1>6, OthersKeep DEF Recorded
<1>13. Rows'
  BY <1>2, <1>5 DEF Rows
<1>14. Deleted'
  BY <1>2, OthersKeep DEF Deleted
<1>15. Reached'
  BY <1>2, <1>4, <1>5, OthersKeep DEF Reached
<1>16. Shown'
  BY <1>1, <1>2, <1>5 DEF Shown
<1>17. Counted'
  BY <1>2, <1>5 DEF Counted, Told
<1> QED
  BY <1>8, <1>9, <1>10, <1>11, <1>12, <1>13, <1>14, <1>15, <1>16, <1>17

\* The file of a photo is deleted before its row is.
LEMMA DeleteFileKeeps ==
  ASSUME TypeInv, FilesInv, NEW q \in Requests, DeletePhotoFile(q)
  PROVE  FilesInv'
<1> USE DEF FilesInv
<1> DEFINE f == Head(req[q].files)
<1>1. /\ pc[q] = "dp_file" /\ pc'[q] = "dp_row" /\ Others(q)
      /\ UNCHANGED <<photo, attached, ticket, documents, shown, req>>
  BY DEF DeletePhotoFile, Goto, Others, TypeInv
<1>2. Len(req[q].files) = 1 /\ req[q].files \in Seq(Files) /\ req[q].files # <<>>
  <2>1. Len(req[q].files) = 1 /\ req[q].files \in Seq(Files)
    BY <1>1, RequestTyped DEF Shape
  <2> QED BY <2>1, FilesOfSeq
<1>3. f \in Files /\ Held(q) = {f}
  <2>1. Len(Tail(req[q].files)) = 0 /\ Tail(req[q].files) \in Seq(Files)
    BY <1>2, TailOfFiles
  <2> QED BY <1>2, <2>1, TailOfFiles, FilesOfSeq DEF Held
<1> HIDE DEF f
<1>4. /\ Held(q)' = {f} /\ Deleting(q) /\ Deleting(q)' /\ ~Uploading(q)'
      /\ pc'[q] \notin TicketHeld
  BY <1>1, <1>3 DEF Deleting, Uploading, TicketHeld, Held
<1>5. \/ stored' = stored \ {f} /\ astray' = astray
      \/ stored' = stored /\ astray' = astray \cup {f}
  BY DEF DeletePhotoFile, DeleteFile, f
<1>6. Documented' = Documented /\ \A t : AttachedTo(t)' = AttachedTo(t)
  BY <1>1 DEF Documented, AttachedTo
<1>7. f \notin shown /\ f \notin Documented /\ attached[f] = None
  BY <1>3, <1>4 DEF Secret
<1>8. Apart'
  BY <1>1, <1>3, <1>4, OthersKeep DEF Apart
<1>9. Distinct'
  BY <1>1 DEF Distinct
<1>10. Secret'
  BY <1>1, <1>3, <1>4, <1>6, OthersKeep DEF Secret
<1>11. Uploaded'
  <2>1. ASSUME NEW p \in Requests \ {q}, Uploading(p) PROVE f \notin Held(p)
    BY <1>3, <2>1, UploadedIsOwn
  <2> QED BY <1>1, <1>4, <1>5, <2>1, OthersKeep DEF Uploaded
<1>12. Recorded'
  BY <1>1, <1>4, OthersKeep DEF Recorded
<1>13. Rows'
  BY <1>1, <1>6 DEF Rows
<1>14. Deleted'
  BY <1>1, <1>4, <1>5, OthersKeep DEF Deleted
<1>15. Reached'
  BY <1>1, <1>4, <1>5, <1>6, OthersKeep DEF Reached
<1>16. Shown'
  BY <1>1, <1>5, <1>6, <1>7 DEF Shown
<1>17. Counted'
  BY <1>1, <1>5, <1>6, <1>7, ConstantsAssumption DEF Counted, Told
<1> QED
  BY <1>8, <1>9, <1>10, <1>11, <1>12, <1>13, <1>14, <1>15, <1>16, <1>17

\* The photo a request has uploaded gets its row.
LEMMA InsertKeeps ==
  ASSUME TypeInv, FilesInv, NEW q \in Requests, UploadPhotoInsert(q)
  PROVE  FilesInv'
<1> USE DEF FilesInv
<1>1. /\ pc[q] = "up_insert" /\ pc'[q] = "idle" /\ req'[q] = Blank /\ Others(q)
      /\ photo' = photo \cup Held(q) /\ shown' = shown \cup Held(q)
      /\ UNCHANGED <<stored, attached, ticket, documents, astray>>
  BY DEF UploadPhotoInsert, Finish, Others, Held, TypeInv
<1>2. Held(q)' = {} /\ IsInjective(req'[q].files)
  BY <1>1, NoFile DEF Held, Blank
<1>3. /\ Uploading(q) /\ ~Deleting(q) /\ ~Deleting(q)' /\ pc'[q] \notin TicketHeld
      /\ pc[q] \notin TicketHeld
  BY <1>1 DEF Deleting, Uploading, TicketHeld
<1>4. Documented' = Documented /\ \A t : AttachedTo(t)' = AttachedTo(t)
  BY <1>1 DEF Documented, AttachedTo
<1>5. \A f \in Held(q) : f \in stored /\ f \notin Documented /\ attached[f] = None
  BY <1>3 DEF Uploaded, Secret
<1>6. \A p \in Requests \ {q} : \A f \in Held(q) : f \notin Held(p)
  BY <1>3, UploadedIsOwn
<1>7. Apart'
  BY <1>1, <1>2, OthersKeep DEF Apart
<1>8. Distinct'
  BY <1>1, <1>2 DEF Distinct, Others
<1>9. Secret'
  BY <1>1, <1>2, <1>4, <1>6, OthersKeep DEF Secret
<1>10. Uploaded'
  BY <1>1, <1>2, <1>6, OthersKeep DEF Uploaded
<1>11. Recorded'
  BY <1>1, <1>3, OthersKeep DEF Recorded
<1>12. Rows'
  BY <1>1, <1>4, <1>5 DEF Rows
<1>13. Deleted'
  BY <1>1, <1>2, OthersKeep DEF Deleted
<1>14. Reached'
  BY <1>1, <1>3, <1>4, OthersKeep DEF Reached
<1>15. Shown'
  BY <1>1, <1>4, <1>5 DEF Shown
<1>16. Counted'
  BY <1>1, <1>4 DEF Counted, Told
<1> QED
  BY <1>7, <1>8, <1>9, <1>10, <1>11, <1>12, <1>13, <1>14, <1>15, <1>16

-----------------------------------------------------------------------------
(* Tickets and documents *)

\* The last file a request has uploaded.
LEMMA LastFile ==
  ASSUME NEW s \in Seq(Files), s # <<>>
  PROVE  Last(s) \in Range(s)
<1>1. Len(s) \in Nat /\ Len(s) # 0
  BY FilesOfSeq
<1>2. Len(s) \in 1 .. Len(s) /\ Range(s) = {s[i] : i \in 1 .. Len(s)}
  BY <1>1, RangeEquality
<1> QED BY <1>2 DEF Last

\* The photo a request has uploaded last is attached to its ticket.
LEMMA AttachKeeps ==
  ASSUME TypeInv, FilesInv, NEW q \in Requests, CreateTicketAttach(q)
  PROVE  FilesInv'
<1> USE DEF FilesInv
<1> DEFINE x == Last(req[q].files)
           t == req[q].ticket
<1>0. NextPhoto(req[q].left) \in {"ct_answer", "ct_upload"}
  BY DEF NextPhoto
<1>1. /\ pc[q] = "ct_attach" /\ pc'[q] \in {"ct_answer", "ct_upload"} /\ Others(q)
      /\ attached' = [attached EXCEPT ![x] = t]
      /\ UNCHANGED <<stored, photo, ticket, documents, shown, astray, req>>
  BY <1>0 DEF CreateTicketAttach, InsertAttachment, Goto, Others, TypeInv
<1>2. x \in Held(q)
  <2>1. Len(req[q].files) > 0 /\ req[q].files \in Seq(Files)
    BY <1>1, RequestTyped DEF Shape
  <2> QED BY <2>1, FilesOfSeq, LastFile DEF Held
<1>3. /\ x \in Files /\ t \in Tickets /\ t # None /\ ticket[t] # None
      /\ ticket[t].told = None
  BY <1>1, <1>2, HeldTyped, ConstantsAssumption DEF TicketHeld
<1>4. /\ Uploading(q) /\ Uploading(q)' /\ ~Deleting(q) /\ ~Deleting(q)'
      /\ pc[q] \in TicketHeld /\ pc'[q] \in TicketHeld /\ pc'[q] # "ct_attach"
  BY <1>1 DEF Uploading, Deleting, TicketHeld
<1>5. attached[x] = None /\ x \notin photo /\ x \notin Documented
  <2>1. attached[x] # t
    BY <1>1, <1>2, <1>3, <1>4 DEF Recorded
  <2> QED BY <1>2, <1>4, <2>1 DEF Uploaded, Secret
<1>6. \A f \in Files : IF f = x THEN attached'[f] = t ELSE attached'[f] = attached[f]
  BY <1>1, <1>3 DEF TypeInv
<1>7. \A p \in Requests \ {q} : x \notin Held(p)
  BY <1>2, <1>4, UploadedIsOwn
<1>8. Documented' = Documented /\ \A p : Held(p)' = Held(p)
  BY <1>1 DEF Documented, Held
<1> HIDE DEF x, t
<1>9. \A p \in Requests \ {q} : /\ pc'[p] = pc[p] /\ (Deleting(p)' <=> Deleting(p))
                                /\ (Uploading(p)' <=> Uploading(p))
  BY <1>1, OthersKeep
<1>10. Apart'
  BY <1>4, <1>8, <1>9 DEF Apart
<1>11. Distinct'
  BY <1>1 DEF Distinct
<1>12. Secret'
  <2>1. ASSUME NEW p \in Requests, NEW f \in Held(p), f # x
        PROVE  /\ f \notin shown /\ f \notin Documented
               /\ attached'[f] # None
                    => ~Deleting(p)' /\ ticket[attached'[f]].told = None
    <3>1. f \in Files /\ attached'[f] = attached[f]
      BY <1>6, <2>1, HeldTyped
    <3> QED BY <1>4, <1>9, <2>1, <3>1 DEF Secret
  <2>2. x \notin shown /\ attached'[x] = t
    BY <1>2, <1>3, <1>6 DEF Secret
  <2>3. \A p \in Requests : x \in Held(p) => ~Deleting(p)'
    BY <1>4, <1>7
  <2> QED BY <1>1, <1>3, <1>5, <1>8, <2>1, <2>2, <2>3 DEF Secret
<1>13. Uploaded'
  <2>1. ASSUME NEW p \in Requests, Uploading(p)', NEW f \in Held(p)
        PROVE  /\ f \in stored /\ f \notin photo
               /\ attached'[f] # None
                    => pc'[p] \in TicketHeld /\ attached'[f] = req[p].ticket
    <3>1. f \in Files
      BY HeldTyped
    <3>2. CASE p = q
      BY <1>4, <1>6, <3>1, <3>2 DEF Uploaded, t
    <3>3. CASE p # q
      BY <1>6, <1>7, <1>9, <2>1, <3>1, <3>3 DEF Uploaded
    <3> QED BY <3>2, <3>3
  <2> QED BY <1>1, <1>8, <2>1 DEF Uploaded
<1>14. Recorded'
  <2>1. ASSUME NEW f \in Files
        PROVE  attached'[f] = t <=> f \in Held(q)
    BY <1>1, <1>2, <1>4, <1>6 DEF Recorded, x, t
  <2>2. ASSUME NEW p \in Requests \ {q}, pc[p] \in TicketHeld, NEW f \in Files
        PROVE  attached'[f] = req[p].ticket
                 <=> f \in Held(p) /\ (pc[p] = "ct_attach" => f # Last(req[p].files))
    <3>1. attached'[f] = req[p].ticket <=> attached[f] = req[p].ticket
      <4>1. req[p].ticket # t /\ req[p].ticket # None
        BY <1>4, <2>2, HeldTyped, ConstantsAssumption DEF t
      <4> QED BY <1>5, <1>6, <4>1
    <3> QED BY <2>2, <3>1 DEF Recorded
  <2> QED BY <1>1, <1>4, <1>8, <1>9, <2>1, <2>2 DEF Recorded, t
<1>15. Rows'
  BY <1>1, <1>3, <1>5, <1>6, <1>8, HeldTyped DEF Rows
<1>16. Deleted'
  BY <1>1, <1>4, <1>8, <1>9 DEF Deleted, Deleting
<1>17. Reached'
  BY <1>1, <1>3, <1>4, <1>6, <1>8, <1>9, HeldTyped DEF Reached
<1>18. Shown'
  BY <1>1, <1>8 DEF Shown
<1>19. Counted'
  <2> SUFFICES ASSUME NEW s \in Tickets, Told(s)
               PROVE  \A f \in Files : attached'[f] = s <=> attached[f] = s
    BY <1>1 DEF Counted, Told, AttachedTo
  <2> QED BY <1>3, <1>5, <1>6, ConstantsAssumption DEF Told
<1> QED
  BY <1>10, <1>11, <1>12, <1>13, <1>14, <1>15, <1>16, <1>17, <1>18, <1>19

\* The answer to the creator of a ticket lists the files attached to it.
LEMMA AnswerKeeps ==
  ASSUME TypeInv, FilesInv, NEW q \in Requests, CreateTicketAnswer(q)
  PROVE  FilesInv'
<1> USE DEF FilesInv
<1> DEFINE t == req[q].ticket
           n == Len(req[q].files)
<1>1. /\ pc[q] = "ct_answer" /\ pc'[q] = "idle" /\ req'[q] = Blank /\ Others(q)
      /\ ticket' = [ticket EXCEPT ![t].told = n]
      /\ UNCHANGED <<stored, photo, attached, documents, shown, astray>>
  BY DEF CreateTicketAnswer, Finish, Others, TypeInv
<1>2. /\ pc[q] \in TicketHeld /\ Uploading(q) /\ ~Deleting(q) /\ ~Deleting(q)'
      /\ pc'[q] \notin TicketHeld /\ Held(q)' = {} /\ IsInjective(req'[q].files)
  BY <1>1, NoFile DEF TicketHeld, Uploading, Deleting, Held, Blank
<1>3. /\ t \in Tickets /\ t # None /\ ticket[t] \in TicketRow /\ ticket[t] # None
      /\ ticket[t].sent = n
  <2>1. /\ req[q].left = 0 /\ n \in Nat /\ t \in Tickets
        /\ ticket[t] \in TicketRow /\ ticket[t] # None
    BY <1>1, <1>2, RequestTyped DEF Shape
  <2>2. ticket[t].sent = n + req[q].left
    BY <1>2 DEF TypeInv, Awaited
  <2> QED BY <2>1, <2>2, ConstantsAssumption
<1>4. \A f \in Files : attached[f] = t <=> f \in Held(q)
  BY <1>1, <1>2 DEF Recorded
<1>5. AttachedTo(t) = Held(q) /\ Cardinality(Held(q)) = n
  <2>1. AttachedTo(t) = Held(q)
    BY <1>4, HeldTyped DEF AttachedTo
  <2>2. req[q].files \in Seq(Files) /\ IsInjective(req[q].files)
    BY RequestTyped DEF Distinct
  <2> QED BY <2>1, <2>2, CountFiles DEF Held
<1> HIDE DEF n
<1>6. /\ \A s \in Tickets \ {t} : ticket'[s] = ticket[s]
      /\ ticket'[t] # None /\ ticket'[t].told = n /\ ticket'[t].sent = n
  <2>1. ticket'[t] = [ticket[t] EXCEPT !.told = n]
    BY <1>1, <1>3 DEF TypeInv
  <2>2. ticket'[t] \in [portal : BOOLEAN, sent : 0 .. MaxPhotos,
                    told : {n} \cup (0 .. MaxPhotos) \cup {None}]
    BY <1>3, <2>1 DEF TicketRow
  <2>3. ticket'[t] # None
    <3>1. n \in 0 .. MaxPhotos
      BY <1>3 DEF TicketRow
    <3> QED BY <2>2, <3>1, NoneIsNoRow DEF TicketRow
  <2> QED BY <1>1, <1>3, <2>1, <2>3 DEF TypeInv, TicketRow
<1> HIDE DEF t
<1>7. /\ Documented' = Documented /\ \A s : AttachedTo(s)' = AttachedTo(s)
      /\ \A p \in Requests \ {q} :
           /\ Held(p)' = Held(p) /\ pc'[p] = pc[p] /\ req'[p] = req[p]
           /\ Deleting(p)' <=> Deleting(p)
           /\ Uploading(p)' <=> Uploading(p)
  <2>1. Documented' = Documented /\ \A s : AttachedTo(s)' = AttachedTo(s)
    BY <1>1 DEF Documented, AttachedTo
  <2> QED BY <1>1, <2>1, OthersKeep
<1>8. Apart'
  BY <1>2, <1>7 DEF Apart
<1>9. Distinct'
  BY <1>2, <1>7 DEF Distinct
<1>10. Secret'
  <2> SUFFICES ASSUME NEW p \in Requests \ {q}, NEW f \in Held(p)
               PROVE  /\ f \notin shown /\ f \notin Documented
                      /\ attached[f] # None
                           => ~Deleting(p) /\ ticket'[attached[f]].told = None
    BY <1>1, <1>2, <1>7 DEF Secret
  <2>1. f \in Files /\ f \notin Held(q) /\ attached[f] \in Tickets \cup {None}
    BY <1>2, UploadedIsOwn, HeldTyped
  <2>2. attached[f] # t
    BY <1>4, <2>1
  <2> QED BY <1>6, <2>1, <2>2 DEF Secret
<1>11. Uploaded'
  BY <1>1, <1>2, <1>7 DEF Uploaded
<1>12. Recorded'
  BY <1>1, <1>2, <1>7 DEF Recorded
<1>13. Rows'
  <2>1. \A s \in Tickets : ticket[s] # None => ticket'[s] # None
    BY <1>6
  <2>2. \A f \in Files : attached[f] \in Tickets \cup {None}
    BY HeldTyped
  <2> QED BY <1>1, <1>7, <2>1, <2>2 DEF Rows
<1>14. Deleted'
  BY <1>1, <1>7 DEF Deleted
<1>15. Reached'
  <2> SUFFICES ASSUME NEW f \in stored, f \notin photo, attached[f] = None,
                      f \notin Documented, f \notin astray
               PROVE  \E p \in Requests : ~Deleting(p)' /\ f \in Held(p)'
    BY <1>1, <1>7 DEF Reached
  <2>1. PICK p \in Requests : ~Deleting(p) /\ f \in Held(p)
    BY DEF Reached
  <2>2. p # q
    BY <1>3, <1>4, <2>1, HeldTyped
  <2> QED BY <1>7, <2>1, <2>2
<1>16. Shown'
  BY <1>1, <1>7 DEF Shown
<1>17. Counted'
  <2> SUFFICES ASSUME NEW s \in Tickets, ticket'[s] # None, ticket'[s].told # None
               PROVE  /\ ~ticket'[s].portal => ticket'[s].told = ticket'[s].sent
                      /\ Cardinality(AttachedTo(s)) = ticket'[s].told
                      /\ \A f \in Files : attached[f] = s => f \in stored
    BY <1>1, <1>7 DEF Counted, Told
  <2>1. CASE s = t
    BY <1>2, <1>4, <1>5, <1>6, <2>1 DEF Uploaded
  <2>2. CASE s # t
    BY <1>6, <2>2 DEF Counted, Told
  <2> QED BY <2>1, <2>2
<1> QED
  BY <1>8, <1>9, <1>10, <1>11, <1>12, <1>13, <1>14, <1>15, <1>16, <1>17

\* The answer with a generated contract names its two documents.
LEMMA GenerateKeeps ==
  ASSUME TypeInv, FilesInv, NEW q \in Requests, GenerateAnswer(q)
  PROVE  FilesInv'
<1> USE DEF FilesInv
<1>1. /\ pc[q] = "gc_answer" /\ pc'[q] = "idle" /\ req'[q] = Blank /\ Others(q)
      /\ documents' = documents \cup {req[q].files}
      /\ UNCHANGED <<stored, photo, attached, ticket, shown, astray>>
  BY DEF GenerateAnswer, Finish, Others, TypeInv
<1>2. /\ Uploading(q) /\ ~Deleting(q) /\ ~Deleting(q)'
      /\ pc'[q] \notin TicketHeld /\ Held(q)' = {} /\ IsInjective(req'[q].files)
  BY <1>1, NoFile DEF TicketHeld, Uploading, Deleting, Held, Blank
<1>3. Documented' = Documented \cup Held(q)
  BY <1>1 DEF Documented, Held
<1>4. \A f \in Held(q) : f \in stored /\ f \notin photo
  BY <1>2 DEF Uploaded
<1>5. \A p \in Requests \ {q} : \A f \in Held(q) : f \notin Held(p)
  BY <1>2, UploadedIsOwn
<1>6. \A s : AttachedTo(s)' = AttachedTo(s)
  BY <1>1 DEF AttachedTo
<1>7. \A p \in Requests \ {q} :
           /\ Held(p)' = Held(p) /\ pc'[p] = pc[p] /\ req'[p] = req[p]
           /\ Deleting(p)' <=> Deleting(p)
           /\ Uploading(p)' <=> Uploading(p)
  BY <1>1, OthersKeep
<1>8. Apart'
  BY <1>2, <1>7 DEF Apart
<1>9. Distinct'
  BY <1>2, <1>7 DEF Distinct
<1>10. Secret'
  BY <1>1, <1>2, <1>3, <1>5, <1>7 DEF Secret
<1>11. Uploaded'
  BY <1>1, <1>2, <1>7 DEF Uploaded
<1>12. Recorded'
  BY <1>1, <1>2, <1>7 DEF Recorded
<1>13. Rows'
  BY <1>1, <1>3, <1>4 DEF Rows
<1>14. Deleted'
  BY <1>1, <1>7 DEF Deleted
<1>15. Reached'
  BY <1>1, <1>3, <1>7 DEF Reached
<1>16. Shown'
  BY <1>1, <1>3, <1>4 DEF Shown
<1>17. Counted'
  BY <1>1, <1>6 DEF Counted, Told
<1> QED
  BY <1>8, <1>9, <1>10, <1>11, <1>12, <1>13, <1>14, <1>15, <1>16, <1>17

-----------------------------------------------------------------------------
(* Every action *)

\* A request that ends holds nothing.
LEMMA FinishEffect ==
  ASSUME TypeInv, NEW q \in Requests, Finish(q)
  PROVE  /\ Others(q) /\ pc'[q] = "idle" /\ Held(q)' = {} /\ IsInjective(req'[q].files)
         /\ ~Deleting(q)' /\ pc'[q] # "clean" /\ pc'[q] \notin TicketHeld
<1>1. Others(q) /\ pc'[q] = "idle" /\ req'[q].files = <<>>
  BY DEF TypeInv, Finish, Others, Blank
<1> QED BY <1>1, NoFile DEF Held, Deleting, TicketHeld

\* A request that gives up holds the files it is about to delete, if any.
LEMMA CleanUpEffect ==
  ASSUME TypeInv, NEW q \in Requests, NEW fs \in Seq(Files), IsInjective(fs),
         CleanUp(q, fs)
  PROVE  /\ Others(q) /\ pc'[q] \in {"idle", "clean"} /\ Held(q)' = Range(fs)
         /\ pc'[q] = "idle" => Held(q)' = {}
         /\ IsInjective(req'[q].files)
<1>1. CASE fs = <<>>
  BY <1>1, NoFile, FinishEffect DEF CleanUp
<1>2. CASE fs # <<>>
  <2>1. Others(q) /\ pc'[q] = "clean" /\ req'[q].files = fs
    BY <1>2 DEF TypeInv, CleanUp, Goto, Others, Request
  <2> QED BY <2>1 DEF Held
<1> QED BY <1>1, <1>2

\* A request that arrives without files.
LEMMA BeginKeeps ==
  ASSUME TypeInv, FilesInv, NEW q \in Requests, NEW n,
         NEW l \in {"up_upload", "ct_insert", "mt_insert", "gc_pdf"},
         Begin(q, l, <<>>, n), UNCHANGED shown
  PROVE  FilesInv'
<1>1. /\ pc[q] = "idle" /\ pc'[q] = l /\ req'[q].files = <<>> /\ Others(q)
      /\ UNCHANGED <<stored, photo, attached, ticket, documents, shown, astray>>
  BY DEF Begin, Goto, Others, TypeInv
<1>2. Held(q) = {}
  BY <1>1, RequestTyped DEF Held, Shape
<1>3. /\ Held(q)' = {} /\ IsInjective(req'[q].files) /\ ~Deleting(q)'
      /\ pc'[q] # "clean" /\ pc'[q] \notin TicketHeld
  BY <1>1, NoFile DEF Held, Deleting, TicketHeld
<1> QED BY <1>1, <1>2, <1>3, EmptyHanded

\* The row of a ticket is inserted, or the insert fails.
LEMMA TicketKeeps ==
  ASSUME TypeInv, FilesInv, NEW q \in Requests,
         \/ CreateTicketInsert(q) \/ CreateMyTicket(q)
         \/ Abandon(q) /\ ~Deleting(q)
  PROVE  FilesInv'
<1>1. /\ pc[q] \in {"ct_insert", "mt_insert"}
      /\ UNCHANGED <<stored, photo, attached, documents, shown, astray>>
  BY DEF CreateTicketInsert, CreateMyTicket, Abandon, Deleting
<1>2. Held(q) = {} /\ req[q] \in Request /\ req[q].files = <<>>
  BY <1>1, RequestTyped DEF Held, Shape
<1>3. CASE CreateTicketInsert(q)
  <2>1. NextPhoto(req[q].left) \in {"ct_answer", "ct_upload"}
    BY DEF NextPhoto
  <2>2. PICK t \in Tickets :
          /\ ticket[t] = None
          /\ ticket' = [ticket EXCEPT ![t] =
                 [portal |-> FALSE, sent |-> req[q].left, told |-> None]]
          /\ req' = [req EXCEPT ![q].ticket = t]
    BY <1>3 DEF CreateTicketInsert
  <2>3. /\ pc'[q] \in {"ct_answer", "ct_upload"} /\ Others(q)
        /\ req'[q].files = <<>> /\ req'[q].ticket = t
    BY <1>2, <1>3, <2>1, <2>2 DEF CreateTicketInsert, Goto, Others, TypeInv, Request
  <2>4. /\ Held(q)' = {} /\ IsInjective(req'[q].files) /\ ~Deleting(q)'
        /\ pc'[q] # "clean"
    BY <2>3, NoFile DEF Held, Deleting
  <2>5. /\ \A s \in Tickets : ticket[s] # None => ticket'[s] = ticket[s]
        /\ \A s \in Tickets : ticket[s] = None /\ ticket'[s] # None
             => \/ ticket'[s].told = None
                \/ ticket'[s].told = 0 /\ ticket'[s].portal
    BY <2>2 DEF TypeInv
  <2> QED BY <1>1, <1>2, <2>2, <2>3, <2>4, <2>5, EmptyHanded
<1>4. CASE CreateMyTicket(q)
  <2>1. PICK t \in Tickets :
          /\ ticket[t] = None
          /\ ticket' = [ticket EXCEPT ![t] =
                 [portal |-> TRUE, sent |-> req[q].left, told |-> 0]]
    BY <1>4 DEF CreateMyTicket
  <2>2. /\ \A s \in Tickets : ticket[s] # None => ticket'[s] = ticket[s]
        /\ \A s \in Tickets : ticket[s] = None /\ ticket'[s] # None
             => \/ ticket'[s].told = None
                \/ ticket'[s].told = 0 /\ ticket'[s].portal
    BY <2>1 DEF TypeInv
  <2>3. Finish(q)
    BY <1>4 DEF CreateMyTicket
  <2> QED BY <1>1, <1>2, <2>2, <2>3, FinishEffect, EmptyHanded
<1>5. CASE Abandon(q)
  <2>1. Finish(q) /\ UNCHANGED ticket
    BY <1>5 DEF Abandon
  <2> QED BY <1>1, <1>2, <2>1, FinishEffect, EmptyHanded
<1> QED BY <1>3, <1>4, <1>5

\* The delete of a photo row succeeds or fails, or the request dies.
LEMMA DeleteRowKeeps ==
  ASSUME TypeInv, FilesInv, NEW q \in Requests,
         \/ DeletePhotoRow(q)
         \/ (Abandon(q) \/ Crash(q)) /\ Deleting(q)
  PROVE  FilesInv'
<1>1. /\ Finish(q) /\ Deleting(q)
      /\ UNCHANGED <<stored, attached, ticket, documents, shown, astray>>
  BY DEF DeletePhotoRow, Abandon, Crash, Deleting
<1>2. \/ UNCHANGED photo
      \/ photo' = photo \ Held(q) /\ pc[q] = "dp_row"
  BY DEF DeletePhotoRow, Abandon, Crash, Held
<1> QED BY <1>1, <1>2, FinishEffect, DeleteEnds

\* A step after which a request has given up.
LEMMA FailureKeeps ==
  ASSUME TypeInv, FilesInv, NEW q \in Requests,
         \/ Clean(q) \/ FailUpload(q) \/ FailInsert(q) \/ FailAttach(q)
         \/ Crash(q) /\ ~Deleting(q)
  PROVE  FilesInv'
<1>0. req[q].files \in Seq(Files) /\ IsInjective(req[q].files)
        /\ (req[q].files = <<>> <=> Len(req[q].files) = 0) /\ Shape(pc[q], req[q])
  BY RequestTyped DEF FilesInv, Distinct
<1>1. CASE Clean(q)
  <2>1. /\ Head(req[q].files) \in Files /\ Tail(req[q].files) \in Seq(Files)
        /\ Held(q) = {Head(req[q].files)} \cup Range(Tail(req[q].files))
        /\ IsInjective(Tail(req[q].files))
    BY <1>0, <1>1, TailOfFiles DEF Clean, Shape, Held
  <2>2. /\ pc[q] = "clean" /\ CleanUp(q, Tail(req[q].files))
        /\ UNCHANGED <<photo, attached, ticket, documents, shown>>
        /\ \/ stored' = stored \ {Head(req[q].files)} /\ astray' = astray
           \/ stored' = stored /\ astray' = astray \cup {Head(req[q].files)}
    BY <1>1 DEF Clean, DeleteFile
  <2>3. /\ Others(q) /\ pc'[q] \in {"idle", "clean"}
        /\ Held(q)' = Range(Tail(req[q].files))
        /\ pc'[q] = "idle" => Held(q)' = {}
        /\ IsInjective(req'[q].files)
    BY <2>1, <2>2, CleanUpEffect
  <2>4. ~Deleting(q)
    BY <2>2 DEF Deleting
  <2> QED BY <2>1, <2>2, <2>3, <2>4, GivingUp
<1>2. CASE FailUpload(q) \/ FailInsert(q) \/ FailAttach(q)
  <2>1. /\ CleanUp(q, req[q].files) /\ ~Deleting(q)
        /\ UNCHANGED <<ticket, documents, shown>>
    BY <1>2 DEF FailUpload, FailInsert, FailAttach, Deleting
  <2>2. /\ Others(q) /\ pc'[q] \in {"idle", "clean"} /\ Held(q)' = Held(q)
        /\ pc'[q] = "idle" => Held(q)' = {}
        /\ IsInjective(req'[q].files)
    BY <1>0, <2>1, CleanUpEffect DEF Held
  <2>3. CASE FailUpload(q)
    <3>1. UNCHANGED <<photo, attached>>
      BY <2>3 DEF FailUpload
    <3>2. \/ UNCHANGED <<stored, astray>>
          \/ \E f \in Files : Fresh(f) /\ stored' = stored \cup {f}
                                       /\ astray' = astray \cup {f}
      BY <2>3 DEF FailUpload
    <3> QED BY <2>1, <2>2, <3>1, <3>2, GivingUp
  <2>4. CASE FailInsert(q)
    <3>1. /\ UNCHANGED <<stored, attached, astray>> /\ pc[q] = "up_insert"
          /\ photo' = photo \/ photo' = photo \cup Held(q)
      BY <2>4 DEF FailInsert, Held
    <3> QED BY <2>1, <2>2, <3>1, GivingUp
  <2>5. CASE FailAttach(q)
    <3>1. /\ UNCHANGED <<stored, photo, astray>> /\ pc[q] = "ct_attach"
          /\ \/ attached' = attached
             \/ attached' = [attached EXCEPT ![Last(req[q].files)] = req[q].ticket]
      BY <2>5 DEF FailAttach, InsertAttachment
    <3>2. Last(req[q].files) \in Held(q)
      BY <1>0, <3>1, LastFile DEF Shape, Held
    <3>3. \A f \in Files : attached'[f] # attached[f] =>
             f \in Held(q) /\ pc[q] = "ct_attach" /\ attached'[f] = req[q].ticket
      BY <3>1, <3>2 DEF TypeInv
    <3> QED BY <2>1, <2>2, <3>1, <3>3, GivingUp
  <2> QED BY <1>2, <2>3, <2>4, <2>5
<1>3. CASE Crash(q) /\ ~Deleting(q)
  <2>1. /\ Finish(q) /\ astray' = astray \cup Held(q)
        /\ UNCHANGED <<stored, photo, attached, ticket, documents, shown>>
    BY <1>3 DEF Crash, Held, Deleting
  <2> QED BY <1>3, <2>1, FinishEffect, GivingUp
<1> QED BY <1>1, <1>2, <1>3

-----------------------------------------------------------------------------
(* The theorems *)

\* FilesInv is inductive, relative to TypeInv.
LEMMA FilesInvStep == TypeInv /\ FilesInv /\ [Next]_vars => FilesInv'
<1> SUFFICES ASSUME TypeInv, FilesInv, [Next]_vars PROVE FilesInv'
  OBVIOUS
<1>1. ASSUME NEW q \in Requests, Photos(q) PROVE FilesInv'
  <2>1. CASE UploadPhoto(q)
    <3>1. Upload(q, "up_upload", "up_insert")
      BY <2>1 DEF UploadPhoto
    <3> QED BY <3>1, UploadKeeps DEF TicketHeld
  <2>2. CASE BeginUploadPhoto(q)
    BY <2>2, BeginKeeps DEF BeginUploadPhoto
  <2> QED
    BY <1>1, <2>1, <2>2, InsertKeeps, DeleteBegins, DeleteFileKeeps, DeleteRowKeeps
    DEF Photos
<1>2. ASSUME NEW q \in Requests, TicketsOf(q) PROVE FilesInv'
  <2>1. CASE CreateTicketUpload(q)
    <3>1. Upload(q, "ct_upload", "ct_attach")
      BY <2>1 DEF CreateTicketUpload
    <3> QED BY <3>1, UploadKeeps DEF TicketHeld
  <2>2. CASE BeginTicket(q) \/ BeginMyTicket(q)
    BY <2>2, BeginKeeps DEF BeginTicket, BeginMyTicket
  <2> QED BY <1>2, <2>1, <2>2, TicketKeeps, AttachKeeps, AnswerKeeps DEF TicketsOf
<1>3. ASSUME NEW q \in Requests, Contracts(q) PROVE FilesInv'
  <2>1. CASE UploadPDF(q)
    <3>1. Upload(q, "gc_pdf", "gc_docx")
      BY <2>1 DEF UploadPDF
    <3> QED BY <3>1, UploadKeeps DEF TicketHeld
  <2>2. CASE UploadDOCX(q)
    <3>1. Upload(q, "gc_docx", "gc_answer")
      BY <2>2 DEF UploadDOCX
    <3> QED BY <3>1, UploadKeeps DEF TicketHeld
  <2>3. CASE BeginContract(q)
    BY <2>3, BeginKeeps DEF BeginContract
  <2> QED BY <1>3, <2>1, <2>2, <2>3, GenerateKeeps DEF Contracts
<1>4. ASSUME NEW q \in Requests, Clean(q) \/ Fail(q) PROVE FilesInv'
  BY <1>4, TicketKeeps, DeleteRowKeeps, FailureKeeps DEF Fail
<1>5. CASE UNCHANGED vars
  <2>1. UNCHANGED vars
    BY <1>5
  <2>2. /\ Documented' = Documented /\ \A t : AttachedTo(t)' = AttachedTo(t)
        /\ \A q : Held(q)' = Held(q) /\ (Deleting(q)' <=> Deleting(q))
        /\ \A q : Uploading(q)' <=> Uploading(q)
    BY <2>1 DEF vars, Documented, AttachedTo, Held, Deleting, Uploading
  <2>3. Apart' /\ Distinct' /\ Secret' /\ Uploaded'
    BY <2>1, <2>2 DEF vars, FilesInv, Apart, Distinct, Secret, Uploaded
  <2>4. Recorded' /\ Rows' /\ Deleted'
    BY <2>1, <2>2 DEF vars, FilesInv, Recorded, Rows, Deleted
  <2>5. Reached' /\ Shown' /\ Counted'
    BY <2>1, <2>2 DEF vars, FilesInv, Reached, Shown, Counted, Told
  <2> QED BY <2>3, <2>4, <2>5 DEF FilesInv
<1> QED BY <1>1, <1>2, <1>3, <1>4, <1>5 DEF Next

\* FilesInv is an invariant.
LEMMA FilesInvariant == Spec => [](TypeInv /\ FilesInv)
<1>1. Init => FilesInv
  <2> SUFFICES ASSUME Init PROVE FilesInv
    OBVIOUS
  <2>1. /\ \A q \in Requests : Held(q) = {} /\ IsInjective(req[q].files)
        /\ \A q \in Requests : pc[q] \notin TicketHeld /\ ~Deleting(q)
        /\ Documented = {}
    BY NoFile DEF Init, Blank, Held, TicketHeld, Deleting, Documented
  <2> QED
    BY <2>1
    DEF Init, FilesInv, Apart, Distinct, Secret, Uploaded, Recorded, Rows, Deleted,
        Reached, Shown, Counted, Told
<1> QED BY <1>1, FilesInvStep, TypeInvariant, PTL DEF Spec

\* Whatever interleaves and whatever fails, what a client was told exists exists.
THEOREM AnswersTrue == Spec => []AnswersAreTrue
<1>1. TypeInv /\ FilesInv => AnswersAreTrue
  BY DEF FilesInv, Shown, Counted, Told, Documented, AttachedTo, AnswersAreTrue
<1> QED BY <1>1, FilesInvariant, PTL

\* No file is left behind that nothing points to, except by a storage service that
\* reports an error or by a process that dies.
THEOREM NothingIsOrphaned == Spec => []NoOrphanFile
<1>1. TypeInv /\ FilesInv => NoOrphanFile
  <2> SUFFICES ASSUME TypeInv, FilesInv, Quiescent
               PROVE  stored \subseteq photo \cup Attachments \cup astray \cup Documented
    BY DEF NoOrphanFile, Documented
  <2>1. \A q \in Requests : Held(q) = {}
    BY RequestTyped DEF Quiescent, Held, Shape
  <2>2. stored \subseteq Files
    BY HeldTyped
  <2> QED BY <2>1, <2>2 DEF FilesInv, Reached, Attachments
<1> QED BY <1>1, FilesInvariant, PTL
=============================================================================
