-------------------------- MODULE FileEditorProofs --------------------------
(***************************************************************************)
(* What FileEditor guarantees for any number of edits, changes on disk,    *)
(* failed requests and clicks.                                             *)
(*                                                                         *)
(* That nothing typed is lost needs to know where it is: in the editor     *)
(* while there is a tab, and only then in a save, which has not written    *)
(* it.  That a save overwrites only what was seen needs to know of every   *)
(* time the page holds, the editor's, a save's and a read's, that it is    *)
(* none to come and that the text on disk at that time has been seen.      *)
(*                                                                         *)
(* The parts are said of the values of the variables, so that the lemmas   *)
(* on what the handlers share can speak of the values they leave.          *)
(***************************************************************************)
EXTENDS FileEditor, TLAPS

(***************************************************************************)
(* The types of the records that FileTypeOK leaves open.                   *)
(***************************************************************************)
DocType == [kind : {"none", "text", "error"}, content : Nat, original : Nat, mtime : Nat,
            missing : BOOLEAN, changed : Nat, error : BOOLEAN, prompted : BOOLEAN]
DiskType == [there : BOOLEAN, text : Nat, mtime : Nat]
RequestType == [asked : BOOLEAN, force : BOOLEAN, closes : BOOLEAN]
WaitingType == [phase : {"due", "asking", "reloading", "keeping"}, request : RequestType,
                pending : RequestType]
WritingType == [phase : {"writing"}, request : RequestType, pending : RequestType, text : Nat,
                stage : {"sent", "truncated", "refused", "written"}, mtime : Nat,
                holds : BOOLEAN, expected : Nat]
OwnerType == {NoOwner} \cup WaitingType \cup WritingType
LoadingType == [stage : {"listing", "reading", "confirming", "loaded"}, entry : Nat,
                found : DocType, safe : {TRUE}]
ReloadType == {NoReload} \cup LoadingType
PollingType == [stage : {"listed", "confirming", "joined", "reloading"}, entry : DiskType,
                holds : {"current", "written", "stale"}, frozen : DocType,
                superseded : BOOLEAN, safe : {TRUE}]
PollType == {NoPoll} \cup PollingType
CloseType == {"open", "saving", "asking", "asked", "confirmed", "closed"}

TypesOK ==
  /\ disk \in DiskType
  /\ doc \in DocType
  /\ prompt \in BOOLEAN /\ timer \in BOOLEAN /\ autosave \in BOOLEAN
  /\ close \in CloseType
  /\ ack \in [mtime : Nat, pending : BOOLEAN]
  /\ owner \in OwnerType
  /\ reload \in ReloadType
  /\ poll \in PollType
  /\ texts \in Nat /\ unsaved \in Nat
  /\ damage \subseteq {"reload", "clean", "close"}
  /\ shown \subseteq Nat

\* A poll that waits for a reload has one to wait for.
PollOK(p, r) == p.stage \in {"joined", "reloading"} => r.stage # "none"

\* The close that waits for a save is known to one request, the one at work or the one that waits.
CloseOK(c, o) ==
  /\ o.phase # "none" => /\ o.pending.closes => o.pending.asked
                         /\ ~(o.request.closes /\ o.pending.closes)
  /\ c \in {"saving", "asked"} <=> o.phase # "none" /\ (o.request.closes \/ o.pending.closes)

\* What was typed is in the editor, or in a save that the closed tab has left.
EditOK(u, d, o, c) ==
  u # Nothing =>
    /\ c # "closed" => u = d.content
    /\ c = "closed" => o.phase = "writing" /\ o.text = u
    /\ o.phase = "writing" /\ o.stage = "written" => u # o.text

\* A time is none to come, and the text of the disk at that time has been seen or was read.
Known(t, k, s) == t <= k.mtime /\ (k.there /\ t = k.mtime => k.text \in s)
Found(d, k) == d.mtime <= k.mtime /\ (k.there /\ d.mtime = k.mtime => k.text = d.content)
TimesOK(k, s, d, o, r) ==
  /\ k.mtime > 0
  /\ d.kind = "text" => d.mtime > 0 /\ Known(d.mtime, k, s)
  /\ o.phase = "writing" /\ o.stage = "sent" /\ ~o.request.force => o.expected > 0 /\ Known(o.expected, k, s)
  /\ o.phase = "writing" /\ o.stage = "written" => o.mtime > 0 /\ Known(o.mtime, k, s)
  /\ r.stage = "loaded" /\ r.found.kind = "text" => r.found.mtime > 0 /\ Found(r.found, k)

IInv ==
  /\ TypesOK
  /\ PollOK(poll, reload)
  /\ CloseOK(close, owner)
  /\ EditOK(unsaved, doc, owner, close)
  /\ TimesOK(disk, shown, doc, owner, reload)

-----------------------------------------------------------------------------
(* Who saves.                                                               *)

\* n has the same text under way as o, if any.
Carries(n, o) ==
  /\ n.phase = "writing" <=> o.phase = "writing"
  /\ o.phase = "writing" => /\ n.text = o.text /\ n.stage = o.stage /\ n.mtime = o.mtime
                            /\ n.expected = o.expected /\ n.request = o.request
Idle == {NoOwner} \cup WaitingType

\* The owner is idle or has a save under way, and the requests are known of both.
LEMMA OwnerFields ==
  ASSUME NEW o \in OwnerType
  PROVE  /\ o.phase = "none" => o = NoOwner
         /\ o.phase # "none" => o.request \in RequestType /\ o.pending \in RequestType
         /\ o.phase # "writing" => o \in Idle
         /\ o.phase = "writing" => o \in WritingType
         /\ o.phase \notin {"none", "writing"} => o \in WaitingType
         /\ o.phase \in {"none", "due", "writing", "asking", "reloading", "keeping"}
<1> QED BY DEF OwnerType, WaitingType, WritingType, NoOwner, Idle

\* An idle owner has no text under way.
LEMMA IdleIs == ASSUME NEW o \in Idle PROVE o \in OwnerType /\ o.phase # "writing"
<1> QED BY DEF OwnerType, Idle, WaitingType, NoOwner

\* The next round of an owner: its request, and none that waits.
LEMMA DueIs ==
  ASSUME NEW q \in RequestType
  PROVE  /\ Due(q) \in Idle /\ Due(q).phase = "due" /\ Due(q).request = q
         /\ Due(q).pending = NoRequest /\ Due(q).pending.closes = FALSE
<1>1. NoRequest \in RequestType /\ NoRequest.closes = FALSE BY DEF RequestType, NoRequest
<1>2. Due(q).pending = NoRequest BY DEF Due
<1> QED BY <1>1, <1>2 DEF Due, Idle, WaitingType

\* A request is of its type and asks for what it is made for.
LEMMA RequestIs ==
  ASSUME NEW force \in BOOLEAN, NEW closes \in BOOLEAN
  PROVE  /\ Request(force, closes) \in RequestType
         /\ Request(force, closes).asked /\ Request(force, closes).closes = closes
         /\ Request(force, closes).force = force
<1> QED BY DEF Request, RequestType

\* A save that no longer has the editor's state has its text all the same.
LEMMA DetachedIs ==
  ASSUME NEW o \in OwnerType
  PROVE  /\ Detached(o) \in OwnerType /\ Carries(Detached(o), o) /\ Detached(o).phase = o.phase
         /\ o.phase # "none" => /\ Detached(o).request = o.request
                                /\ Detached(o).pending = o.pending
<1>1. CASE o.phase # "writing" BY <1>1 DEF Detached, Carries
<1>2. CASE o.phase = "writing"
  <2>1. o \in WritingType BY <1>2, OwnerFields
  <2>2. Detached(o) = [o EXCEPT !.holds = FALSE] BY <1>2 DEF Detached
  <2>3. Detached(o) \in WritingType BY <2>1, <2>2 DEF WritingType
  <2> QED BY <2>1, <2>2, <2>3, <1>2 DEF Carries, WritingType, OwnerType
<1> QED BY <1>1, <1>2

\* A request is taken up at once, or is merged with the one that waits.
LEMMA QueuedIs ==
  ASSUME owner \in OwnerType, NEW request \in RequestType, request.asked,
         CloseOK(close, owner), QueueFileEditorSave(request)
  PROVE  /\ owner' \in OwnerType /\ Carries(owner', owner) /\ owner'.phase # "none"
         /\ owner'.pending.closes => owner'.pending.asked
         /\ owner'.request \in RequestType /\ owner'.pending \in RequestType
         /\ ~request.closes => CloseOK(close, owner')
         /\ request.closes /\ close \notin {"saving", "asked"}
              => CloseOK("saving", owner') /\ CloseOK("asked", owner')
<1>1. CASE owner.phase = "none"
  <2>1. owner' = Due(request) BY <1>1 DEF QueueFileEditorSave
  <2>2. owner'.pending = NoRequest /\ owner'.request = request /\ owner'.phase = "due"
        /\ owner' \in Idle
    BY <2>1, DueIs
  <2> QED BY <2>2, <1>1, IdleIs DEF Carries, CloseOK, NoRequest, RequestType
<1>2. CASE owner.phase # "none"
  <2> DEFINE next == Request(owner.pending.force \/ request.force, owner.pending.closes \/ request.closes)
  <2>1. owner' = [owner EXCEPT !.pending = next] BY <1>2 DEF QueueFileEditorSave
  <2>2. owner.request \in RequestType /\ owner.pending \in RequestType BY <1>2, OwnerFields
  <2>3. next \in RequestType /\ next.asked /\ (next.closes <=> owner.pending.closes \/ request.closes)
    BY <2>2 DEF RequestType, Request
  <2> HIDE DEF next
  <2>4. CASE owner.phase = "writing"
    <3>1. owner \in WritingType BY <2>4, OwnerFields
    <3>2. owner' \in WritingType /\ owner'.pending = next /\ owner'.request = owner.request
          /\ Carries(owner', owner)
      BY <2>1, <2>3, <3>1 DEF WritingType, Carries
    <3>3. owner'.phase = "writing" BY <3>2 DEF WritingType
    <3> QED BY <3>2, <3>3, <2>2, <2>3, <1>2 DEF OwnerType, CloseOK
  <2>5. CASE owner.phase # "writing"
    <3>1. owner \in WaitingType BY <2>5, <1>2, OwnerFields
    <3>2. owner' \in WaitingType /\ owner'.pending = next /\ owner'.request = owner.request
          /\ owner'.phase = owner.phase
      BY <2>1, <2>3, <3>1 DEF WaitingType
    <3>3. Carries(owner', owner) BY <3>2, <2>5 DEF Carries
    <3> QED BY <3>2, <3>3, <2>2, <2>3, <1>2 DEF OwnerType, CloseOK
  <2> QED BY <2>4, <2>5
<1> QED BY <1>1, <1>2

\* The request at work is resolved, and the one that waits is next: the close is not forgotten,
\* and a tab that has closed stays so.
Resolves(n, c) ==
  /\ n \in Idle /\ n \in OwnerType /\ n.phase # "writing" /\ c \in CloseType /\ CloseOK(c, n)
  /\ c = "closed" <=> close = "closed"

\* Resolving a request that the close does not wait for leaves the close.
LEMMA ResolvedIs ==
  ASSUME NEW q \in RequestType, NEW result \in BOOLEAN, close \in CloseType
  PROVE  /\ Resolved(q, result) \in CloseType
         /\ ~q.closes => Resolved(q, result) = close
         /\ q.closes => Resolved(q, result) \in {"confirmed", "asking", "open"}
<1> QED BY DEF Resolved, CloseType, RequestType

\* Without an owner no text is under way.
LEMMA NoOwnerIs == NoOwner \in Idle /\ NoOwner.phase = "none"
<1> QED BY DEF Idle, NoOwner

\* The end of a round of the owner resolves its request.
LEMMA SettlesIs ==
  ASSUME TypesOK, CloseOK(close, owner), owner.phase # "none",
         NEW result \in BOOLEAN, close' = Resolved(owner.request, result),
         owner.pending.asked => owner' = Due(owner.pending),
         ~owner.pending.asked => owner' = NoOwner \/ owner' = Due(Request(FALSE, FALSE))
  PROVE  Resolves(owner', close')
<1>1. /\ close \in CloseType /\ owner \in OwnerType
      /\ owner.request \in RequestType /\ owner.pending \in RequestType
  BY OwnerFields DEF TypesOK
<1>2. /\ close' \in CloseType
      /\ ~owner.request.closes => close' = close
      /\ owner.request.closes => close' \in {"confirmed", "asking", "open"} /\ close # "closed"
      /\ close' = "closed" <=> close = "closed"
  BY <1>1, ResolvedIs DEF CloseOK
<1>3. CASE owner.pending.asked
  <2>1. owner' = Due(owner.pending) BY <1>3
  <2>2. /\ owner' \in Idle /\ owner'.phase = "due" /\ owner'.request = owner.pending
        /\ owner'.pending.closes = FALSE
    BY <2>1, <1>1, DueIs
  <2>3. CloseOK(close', owner')
    <3>1. owner'.phase # "none" /\ ~owner'.pending.closes BY <2>2
    <3>2. owner'.request.closes <=> owner.pending.closes BY <2>2
    <3>3. close' \in {"saving", "asked"} <=> owner.pending.closes BY <1>1, <1>2 DEF CloseOK
    <3> QED BY <3>1, <3>2, <3>3 DEF CloseOK
  <2> QED BY <2>2, <2>3, <1>2, IdleIs DEF Resolves
<1>4. CASE ~owner.pending.asked /\ owner' = Due(Request(FALSE, FALSE))
  <2> DEFINE q == Request(FALSE, FALSE)
  <2>1. owner' = Due(q) BY <1>4
  <2>2. q \in RequestType /\ ~q.closes BY RequestIs
  <2> HIDE DEF q
  <2>3. /\ owner' \in Idle /\ owner'.phase = "due" /\ owner'.request = q /\ owner'.pending.closes = FALSE
    BY <2>1, <2>2, DueIs
  <2>4. CloseOK(close', owner')
    <3>1. owner'.phase # "none" /\ ~owner'.pending.closes BY <2>3
    <3>2. ~owner'.request.closes BY <2>2, <2>3
    <3>3. close' \notin {"saving", "asked"} BY <1>1, <1>2, <1>4 DEF CloseOK
    <3> QED BY <3>1, <3>2, <3>3 DEF CloseOK
  <2> QED BY <2>3, <2>4, <1>2, IdleIs DEF Resolves
<1>5. CASE ~owner.pending.asked /\ owner' = NoOwner
  <2>1. owner' = NoOwner BY <1>5
  <2>2. owner' \in Idle /\ owner'.phase = "none" BY <2>1, NoOwnerIs
  <2>3. close' \notin {"saving", "asked"} BY <1>1, <1>2, <1>5 DEF CloseOK
  <2> QED BY <2>2, <2>3, <1>2, IdleIs DEF Resolves, CloseOK
<1> QED BY <1>3, <1>4, <1>5

\* The end of a conflict resolves the one request that the close waits for.
LEMMA ConflictEndsIs ==
  ASSUME TypesOK, CloseOK(close, owner), owner.phase # "none", NEW result \in BOOLEAN,
         ConflictEnds(result)
  PROVE  Resolves(owner', close')
<1>1. /\ close \in CloseType /\ owner \in OwnerType
      /\ owner.request \in RequestType /\ owner.pending \in RequestType
  BY OwnerFields DEF TypesOK
<1>2. owner' = NoOwner BY DEF ConflictEnds
<1>3. owner' \in Idle /\ owner'.phase = "none" BY <1>2, NoOwnerIs
<1>4. CASE owner.pending.closes
  <2>1. close' = Resolved(owner.pending, FALSE) BY <1>4 DEF ConflictEnds
  <2> QED BY <2>1, <1>1, <1>3, <1>4, ResolvedIs, IdleIs DEF Resolves, CloseOK
<1>5. CASE ~owner.pending.closes
  <2>1. close' = Resolved(owner.request, result) BY <1>5 DEF ConflictEnds
  <2> QED BY <2>1, <1>1, <1>3, <1>5, ResolvedIs, IdleIs DEF Resolves, CloseOK
<1> QED BY <1>4, <1>5

-----------------------------------------------------------------------------
(* Where what was typed is, and the times.                                  *)

\* What was typed is where it was when the save keeps its text.
LEMMA EditCarried ==
  ASSUME NEW u, NEW d, NEW o, NEW c, NEW n, EditOK(u, d, o, c), Carries(n, o)
  PROVE  EditOK(u, d, n, c)
<1> QED BY DEF EditOK, Carries

\* It is in the editor when no save is left.
LEMMA EditIdle ==
  ASSUME NEW u, NEW d, NEW n, NEW c, n.phase # "writing",
         u # Nothing => c # "closed" /\ u = d.content
  PROVE  EditOK(u, d, n, c)
<1> QED BY DEF EditOK

\* Nothing typed is nowhere to be found.
LEMMA NothingToLose == ASSUME NEW d, NEW o, NEW c PROVE EditOK(Nothing, d, o, c)
<1> QED BY DEF EditOK

\* The times are known still when the save keeps its own.
LEMMA TimesCarried ==
  ASSUME NEW k, NEW s, NEW d, NEW o, NEW r, NEW n, TimesOK(k, s, d, o, r), Carries(n, o)
  PROVE  TimesOK(k, s, d, n, r)
<1> QED BY DEF TimesOK, Carries

\* And when no save is left.
LEMMA TimesIdle ==
  ASSUME NEW k, NEW s, NEW d, NEW o, NEW r, NEW n, TimesOK(k, s, d, o, r), n.phase # "writing"
  PROVE  TimesOK(k, s, d, n, r)
<1> QED BY DEF TimesOK

\* A reload that has begun has read nothing.
Begun(n, r) == n \in ReloadType /\ n.stage # "none" /\ (n = r \/ n.stage # "loaded")

\* And when the reload has read nothing new.
LEMMA TimesOfReload ==
  ASSUME NEW k, NEW s, NEW d, NEW o, NEW r, NEW n, TimesOK(k, s, d, o, r),
         n = r \/ n.stage # "loaded"
  PROVE  TimesOK(k, s, d, o, n)
<1> QED BY DEF TimesOK

\* A reload that begins lists or reads, and has found nothing.
LEMMA ReloadingIs ==
  ASSUME NEW entry \in Nat
  PROVE  /\ Reloading(entry, TRUE) \in ReloadType
         /\ Reloading(entry, TRUE).stage \in {"listing", "reading"}
<1>1. NoDocument \in DocType BY DEF NoDocument, Document, DocType, Nothing, NoChange
<1> QED BY <1>1 DEF Reloading, ReloadType, LoadingType

\* replaceOpenFileStateFromDisk begins a reload or joins the one under way.
LEMMA ReloadBegins ==
  ASSUME TypesOK, NEW entry \in Nat, NEW safe, safe = TRUE,
         reload' = IF reload.stage = "none" THEN Reloading(entry, safe) ELSE reload
  PROVE  Begun(reload', reload)
<1>1. reload \in ReloadType BY DEF TypesOK
<1>2. CASE reload.stage = "none"
  <2>1. reload' = Reloading(entry, TRUE) BY <1>2
  <2> QED BY <2>1, ReloadingIs DEF Begun
<1>3. CASE reload.stage # "none" BY <1>1, <1>3 DEF Begun
<1> QED BY <1>2, <1>3

\* There is no poll, or one with all its fields.
LEMMA PollFields ==
  ASSUME NEW p \in PollType
  PROVE  /\ p.stage # "none" => p \in PollingType
         /\ p.stage = "none" => p = NoPoll
<1>1. NoPoll.stage = "none" BY DEF NoPoll
<1>2. p = NoPoll \/ p \in PollingType BY DEF PollType
<1>3. p \in PollingType => p.stage # "none" BY DEF PollingType
<1> QED BY <1>1, <1>2, <1>3

\* A poll keeps its stage when the editor takes another state.
LEMMA ReleasedIs ==
  ASSUME TypesOK
  PROVE  Released(poll) \in PollType /\ Released(poll).stage = poll.stage
<1>1. poll \in PollType /\ doc \in DocType BY DEF TypesOK
<1>2. CASE poll.stage = "none" \/ poll.holds # "current" BY <1>1, <1>2 DEF Released
<1>3. CASE ~(poll.stage = "none" \/ poll.holds # "current")
  <2> DEFINE h == IF owner.phase = "writing" /\ owner.holds THEN "written" ELSE "stale"
  <2>1. Released(poll) = [poll EXCEPT !.frozen = doc, !.holds = h] BY <1>3 DEF Released
  <2>2. h \in {"current", "written", "stale"} OBVIOUS
  <2> HIDE DEF h
  <2>3. poll \in PollingType BY <1>1, <1>3, PollFields
  <2>4. Released(poll) \in PollingType /\ Released(poll).stage = poll.stage
    BY <1>1, <2>1, <2>2, <2>3 DEF PollingType
  <2> QED BY <2>4 DEF PollType
<1> QED BY <1>2, <1>3

-----------------------------------------------------------------------------
(* The file.                                                                *)

\* A time stays known: the next texts of the disk come with later times.
LEMMA LaterTime ==
  ASSUME NEW k \in DiskType, NEW n \in DiskType, NEW s, NEW z, NEW t \in Nat,
         n = k \/ n.mtime > k.mtime \/ (n.mtime = k.mtime /\ ~n.there), s \subseteq z, Known(t, k, s)
  PROVE  Known(t, n, z)
<1> QED BY DEF DiskType, Known

\* The times that are known stay so when the disk goes on.
LEMMA LaterDisk ==
  ASSUME NEW k \in DiskType, NEW n \in DiskType, NEW s, NEW z, NEW d \in DocType,
         NEW o \in OwnerType, NEW r \in ReloadType,
         n = k \/ n.mtime > k.mtime \/ (n.mtime = k.mtime /\ ~n.there), s \subseteq z,
         TimesOK(k, s, d, o, r)
  PROVE  TimesOK(n, z, d, o, r)
<1>1. n.mtime > 0 BY DEF TimesOK, DiskType
<1>2. ASSUME d.kind = "text" PROVE d.mtime > 0 /\ Known(d.mtime, n, z)
  <2>1. d.mtime \in Nat BY DEF DocType
  <2> QED BY <1>2, <2>1, LaterTime DEF TimesOK
<1>3. ASSUME o.phase = "writing" PROVE o.mtime \in Nat /\ o.expected \in Nat
  BY <1>3, OwnerFields DEF WritingType
<1>4. ASSUME o.phase = "writing", o.stage = "sent", ~o.request.force
      PROVE  o.expected > 0 /\ Known(o.expected, n, z)
  BY <1>3, <1>4, LaterTime DEF TimesOK
<1>5. ASSUME o.phase = "writing", o.stage = "written" PROVE o.mtime > 0 /\ Known(o.mtime, n, z)
  BY <1>3, <1>5, LaterTime DEF TimesOK
<1>6. ASSUME r.stage = "loaded", r.found.kind = "text" PROVE r.found.mtime > 0 /\ Found(r.found, n)
  <2>1. r.found.mtime \in Nat
    <3>1. r \in LoadingType BY <1>6 DEF ReloadType, NoReload
    <3> QED BY <3>1 DEF LoadingType, DocType
  <2>2. r.found.mtime > 0 /\ Found(r.found, k) BY <1>6 DEF TimesOK
  <2> QED BY <2>1, <2>2 DEF Found, DiskType
<1> QED BY <1>1, <1>2, <1>4, <1>5, <1>6 DEF TimesOK

\* The parts together.
LEMMA Together ==
  ASSUME TypesOK', PollOK(poll', reload'), CloseOK(close', owner'),
         EditOK(unsaved', doc', owner', close'), TimesOK(disk', shown', doc', owner', reload')
  PROVE  IInv'
<1> QED BY DEF IInv

\* A change of the file, the page and what is typed being as they were.
LEMMA DiskChanges ==
  ASSUME IInv, disk' \in DiskType, texts' \in Nat, UNCHANGED Others,
         disk'.mtime > disk.mtime \/ (disk'.mtime = disk.mtime /\ ~disk'.there)
  PROVE  IInv'
<1>1. TypesOK' BY DEF IInv, TypesOK, Others, pageState
<1>2. /\ disk \in DiskType /\ doc \in DocType /\ owner \in OwnerType /\ reload \in ReloadType
      /\ TimesOK(disk, shown, doc, owner, reload)
  BY DEF IInv, TypesOK
<1>3. TimesOK(disk', shown, doc, owner, reload) BY <1>2, LaterDisk
<1> QED BY <1>1, <1>3 DEF IInv, Others, pageState

\* Others write the file.
LEMMA OthersWrite == IInv /\ ExternalWrite => IInv'
<1> SUFFICES ASSUME IInv, ExternalWrite PROVE IInv' OBVIOUS
<1>1. texts \in Nat /\ disk \in DiskType BY DEF IInv, TypesOK
<1>2. /\ texts' = texts + 1 /\ UNCHANGED Others
      /\ disk' = [there |-> TRUE, text |-> texts + 1, mtime |-> disk.mtime + 1]
  BY DEF ExternalWrite
<1>3. disk' \in DiskType /\ disk'.mtime > disk.mtime BY <1>1, <1>2 DEF DiskType
<1> QED BY <1>1, <1>2, <1>3, DiskChanges

\* Others delete the file.
LEMMA OthersDelete == IInv /\ ExternalDelete => IInv'
<1> SUFFICES ASSUME IInv, ExternalDelete PROVE IInv' OBVIOUS
<1>1. texts \in Nat /\ disk \in DiskType BY DEF IInv, TypesOK
<1>2. /\ texts' = texts /\ UNCHANGED Others
      /\ disk' = [disk EXCEPT !.there = FALSE, !.text = Nothing]
  BY DEF ExternalDelete
<1>3. disk' \in DiskType /\ disk'.mtime = disk.mtime /\ ~disk'.there
  BY <1>1, <1>2 DEF DiskType, Nothing
<1> QED BY <1>1, <1>2, <1>3, DiskChanges

\* A step of the save under way leaves who waits, and takes its text along.
MovedOn(n, o, stage, t, c) ==
  /\ n \in WritingType /\ n \in OwnerType /\ CloseOK(c, n)
  /\ n.phase = "writing" /\ n.stage = stage /\ n.mtime = t /\ n.text = o.text
  /\ n.request = o.request

\* A step of a save is of its type and leaves the close.
LEMMA WritingStep ==
  ASSUME NEW o \in WritingType, NEW stage \in {"sent", "truncated", "refused", "written"},
         NEW t \in Nat, NEW c, CloseOK(c, o)
  PROVE  MovedOn([o EXCEPT !.stage = stage, !.mtime = t], o, stage, t, c)
<1> DEFINE n == [o EXCEPT !.stage = stage, !.mtime = t]
<1>1. /\ n \in WritingType /\ n.phase = "writing" /\ n.stage = stage /\ n.mtime = t
      /\ n.text = o.text /\ n.request = o.request /\ n.pending = o.pending
  BY DEF WritingType
<1>2. o.phase = "writing" BY DEF WritingType
<1> HIDE DEF n
<1>3. n \in OwnerType /\ CloseOK(c, n) BY <1>1, <1>2 DEF CloseOK, OwnerType
<1>4. MovedOn(n, o, stage, t, c) BY <1>1, <1>3 DEF MovedOn
<1> QED BY <1>4 DEF n

\* A write gives the file its text and a later time.
LEMMA TextOfDisk ==
  ASSUME NEW k \in DiskType, NEW t \in Nat
  PROVE  LET n == [k EXCEPT !.text = t, !.mtime = @ + 1] IN
         n \in DiskType /\ n.mtime = k.mtime + 1 /\ n.text = t
<1> DEFINE u == k.mtime + 1
           n == [k EXCEPT !.text = t, !.mtime = u]
<1>1. u \in Nat BY DEF DiskType
<1> HIDE DEF u
<1>2. n \in DiskType /\ n.mtime = u /\ n.text = t BY <1>1 DEF DiskType
<1> QED BY <1>2 DEF u

\* The server compares the time and empties the file, or refuses.
LEMMA SaveChecks == IInv /\ WriteFileChecks => IInv'
<1> SUFFICES ASSUME IInv, WriteFileChecks PROVE IInv' OBVIOUS
<1> DEFINE found == IF disk.there THEN disk
                    ELSE [there |-> TRUE, text |-> Nothing, mtime |-> disk.mtime + 1]
           truncated == [found EXCEPT !.text = Nothing, !.mtime = @ + 1]
<1>1. /\ disk \in DiskType /\ doc \in DocType /\ reload \in ReloadType
      /\ owner \in OwnerType /\ shown \subseteq Nat
  BY DEF IInv, TypesOK
<1>2. /\ owner.phase = "writing" /\ owner.stage = "sent"
      /\ UNCHANGED <<doc, prompt, close, timer, ack, reload, poll, autosave, texts, unsaved, damage>>
  BY DEF WriteFileChecks
<1>3. owner \in WritingType BY <1>1, <1>2, OwnerFields
<1>4. found \in DiskType /\ (found = disk \/ found.mtime > disk.mtime) /\ found.mtime >= disk.mtime
  BY <1>1 DEF DiskType, Nothing
<1>5. truncated \in DiskType /\ truncated.mtime > disk.mtime /\ truncated.text = Nothing
  <2>1. found.mtime \in Nat /\ disk.mtime \in Nat BY <1>1, <1>4 DEF DiskType
  <2> HIDE DEF found
  <2>2. Nothing \in Nat BY DEF Nothing
  <2>3. truncated \in DiskType /\ truncated.mtime = found.mtime + 1 /\ truncated.text = Nothing
    BY <1>4, <2>2, TextOfDisk
  <2> HIDE DEF truncated
  <2> QED BY <1>4, <2>1, <2>3
<1>6. /\ CloseOK(close, owner) /\ EditOK(unsaved, doc, owner, close) /\ PollOK(poll, reload)
      /\ TimesOK(disk, shown, doc, owner, reload)
  BY DEF IInv
<1>7. \/ /\ disk' = truncated /\ owner' = [owner EXCEPT !.stage = "truncated"]
         /\ shown' = shown \cup {Nothing}
      \/ disk' = found /\ owner' = [owner EXCEPT !.stage = "refused"] /\ shown' = shown
  BY DEF WriteFileChecks
<1> HIDE DEF found, truncated
<1>8. \E stage \in {"truncated", "refused"} : owner' = [owner EXCEPT !.stage = stage] BY <1>7
<1>9. PICK stage \in {"truncated", "refused"} : owner' = [owner EXCEPT !.stage = stage] BY <1>8
<1>10. owner' = [owner EXCEPT !.stage = stage, !.mtime = owner.mtime] BY <1>3, <1>9 DEF WritingType
<1>11. owner.mtime \in Nat BY <1>3 DEF WritingType
<1>12. /\ owner' \in OwnerType /\ CloseOK(close, owner') /\ owner'.phase = "writing"
       /\ owner'.stage = stage /\ owner'.text = owner.text
  <2>1. MovedOn(owner', owner, stage, owner.mtime, close)
    BY <1>3, <1>6, <1>10, <1>11, WritingStep
  <2> QED BY <2>1 DEF MovedOn
<1>13. /\ disk' \in DiskType /\ shown \subseteq shown' /\ shown' \subseteq Nat
       /\ disk' = disk \/ disk'.mtime > disk.mtime
  BY <1>1, <1>4, <1>5, <1>7 DEF Nothing
<1>14. TypesOK' BY <1>2, <1>12, <1>13 DEF IInv, TypesOK
<1>15. EditOK(unsaved, doc, owner', close) BY <1>2, <1>6, <1>12 DEF EditOK
<1>16. TimesOK(disk', shown', doc, owner, reload)
  <2>1. CASE disk' = disk /\ shown' = shown BY <2>1, <1>6
  <2>2. CASE disk'.mtime > disk.mtime BY <2>2, <1>1, <1>6, <1>13, LaterDisk
  <2> QED BY <2>1, <2>2, <1>1, <1>4, <1>5, <1>7
<1>17. TimesOK(disk', shown', doc, owner', reload) BY <1>12, <1>16 DEF TimesOK
<1> QED BY <1>2, <1>6, <1>12, <1>14, <1>15, <1>17 DEF IInv

\* The server writes the text: it is on disk, at a time that is known.
LEMMA SaveWrites == IInv /\ WriteFileWrites => IInv'
<1> SUFFICES ASSUME IInv, WriteFileWrites PROVE IInv' OBVIOUS
<1>1. /\ disk \in DiskType /\ doc \in DocType /\ reload \in ReloadType
      /\ owner \in OwnerType /\ shown \subseteq Nat /\ unsaved \in Nat
  BY DEF IInv, TypesOK
<1>2. /\ owner.phase = "writing" /\ owner.stage = "truncated"
      /\ UNCHANGED <<doc, prompt, close, timer, ack, reload, poll, autosave, texts, damage>>
      /\ disk' = [disk EXCEPT !.text = owner.text, !.mtime = @ + 1]
      /\ owner' = [owner EXCEPT !.stage = "written", !.mtime = disk.mtime + 1]
      /\ shown' = shown \cup {owner.text}
      /\ unsaved' = IF unsaved = owner.text THEN Nothing ELSE unsaved
  BY DEF WriteFileWrites
<1>3. owner \in WritingType BY <1>1, <1>2, OwnerFields
<1>4. owner.text \in Nat BY <1>3 DEF WritingType
<1>5. disk' \in DiskType /\ disk'.mtime = disk.mtime + 1 /\ disk'.text = owner.text
  BY <1>1, <1>2, <1>4, TextOfDisk
<1>6. disk.mtime \in Nat /\ disk.mtime + 1 \in Nat BY <1>1 DEF DiskType
<1>7. /\ CloseOK(close, owner) /\ EditOK(unsaved, doc, owner, close) /\ PollOK(poll, reload)
      /\ TimesOK(disk, shown, doc, owner, reload)
  BY DEF IInv
<1>8. /\ owner' \in OwnerType /\ CloseOK(close, owner') /\ owner'.phase = "writing"
      /\ owner'.stage = "written" /\ owner'.text = owner.text /\ owner'.mtime = disk.mtime + 1
  <2>1. MovedOn(owner', owner, "written", disk.mtime + 1, close)
    BY <1>2, <1>3, <1>6, <1>7, WritingStep
  <2> QED BY <2>1 DEF MovedOn
<1>9. shown \subseteq shown' /\ shown' \subseteq Nat /\ unsaved' \in Nat
  BY <1>1, <1>2, <1>4 DEF Nothing
<1>10. TypesOK' BY <1>2, <1>5, <1>8, <1>9 DEF IInv, TypesOK
<1>11. EditOK(unsaved', doc, owner', close) BY <1>2, <1>7, <1>8 DEF EditOK
<1>12. TimesOK(disk', shown', doc, owner, reload)
  <2>1. disk'.mtime > disk.mtime BY <1>5, <1>6
  <2> QED BY <2>1, <1>1, <1>5, <1>7, <1>9, LaterDisk
<1>13. Known(owner'.mtime, disk', shown') BY <1>2, <1>5, <1>6, <1>8 DEF Known
<1>14. TimesOK(disk', shown', doc, owner', reload) BY <1>6, <1>8, <1>12, <1>13 DEF TimesOK
<1> QED BY <1>2, <1>7, <1>8, <1>10, <1>11, <1>14 DEF IInv

-----------------------------------------------------------------------------
(* Editing.                                                                 *)

\* openFileAutosaveReady answers yes or no.
LEMMA ReadyIsBoolean ==
  ASSUME NEW d, NEW a PROVE OpenFileAutosaveReady(d, a) \in BOOLEAN
<1> QED BY DEF OpenFileAutosaveReady

\* The parts of a step of the page that neither reads nor writes the file.
LEMMA PageStep ==
  ASSUME IInv, UNCHANGED <<disk, autosave, shown>>,
         doc' \in DocType, prompt' \in BOOLEAN, timer' \in BOOLEAN, texts' \in Nat, unsaved' \in Nat,
         ack' \in [mtime : Nat, pending : BOOLEAN], damage' \subseteq {"reload", "clean", "close"},
         close' \in CloseType, owner' \in OwnerType, CloseOK(close', owner'),
         Carries(owner', owner) \/ owner'.phase # "writing",
         reload' = reload \/ Begun(reload', reload),
         poll' \in PollType,
         poll'.stage \in {"joined", "reloading"} => poll'.stage = poll.stage \/ reload'.stage # "none",
         EditOK(unsaved', doc', owner', close'),
         doc'.kind = "text" => \/ doc.kind = "text" /\ doc'.mtime = doc.mtime
                               \/ doc'.mtime > 0 /\ Known(doc'.mtime, disk, shown)
  PROVE  IInv'
<1>1. reload' \in ReloadType /\ (reload' = reload \/ reload'.stage # "loaded")
  BY DEF IInv, TypesOK, Begun
<1>2. TypesOK' BY <1>1 DEF IInv, TypesOK
<1>3. PollOK(poll', reload') BY DEF IInv, PollOK, Begun
<1>4. TimesOK(disk, shown, doc, owner, reload) BY DEF IInv
<1>5. TimesOK(disk, shown, doc', owner, reload) BY <1>4 DEF TimesOK
<1>6. TimesOK(disk, shown, doc', owner', reload) BY <1>5, TimesCarried, TimesIdle
<1>7. TimesOK(disk, shown, doc', owner', reload') BY <1>1, <1>6, TimesOfReload
<1> QED BY <1>2, <1>3, <1>7 DEF IInv

\* The parts of a step by which the save, the poll and the disk are as they were.
LEMMA EditorStep ==
  ASSUME IInv, UNCHANGED <<disk, close, ack, poll, autosave, damage, shown>>,
         doc' \in DocType, prompt' \in BOOLEAN, timer' \in BOOLEAN, texts' \in Nat, unsaved' \in Nat,
         owner' \in OwnerType, CloseOK(close, owner'), Carries(owner', owner) \/ owner'.phase # "writing",
         reload' = reload \/ Begun(reload', reload),
         EditOK(unsaved', doc', owner', close),
         doc'.kind = "text" => doc.kind = "text" /\ doc'.mtime = doc.mtime
  PROVE  IInv'
<1>1. /\ close \in CloseType /\ ack \in [mtime : Nat, pending : BOOLEAN]
      /\ damage \subseteq {"reload", "clean", "close"} /\ poll \in PollType
  BY DEF IInv, TypesOK
<1> QED BY <1>1, PageStep

\* A text typed is in the editor, and no save has written it.
LEMMA Types ==
  ASSUME IInv, NEW text \in Nat, Type(text), texts' \in Nat
  PROVE  IInv'
<1> DEFINE asks == doc.changed # NoChange /\ ~doc.prompted /\ ack = NoAck
           dirty == text # doc.original
           asked == doc.prompted \/ (asks /\ dirty)
<1>1. /\ Tab /\ UNCHANGED <<disk, close, ack, owner, poll, autosave, damage, shown>>
      /\ doc' = [doc EXCEPT !.content = text, !.prompted = asked]
      /\ prompt' = (asks /\ dirty) /\ timer' = OpenFileAutosaveReady(doc', ack)
      /\ unsaved' = IF ~IsWritten(text) /\ (dirty \/ Overtaken(text)) THEN text ELSE Nothing
      /\ IF asks /\ ~dirty THEN ReplaceOpenFileStateFromDisk(0, doc') ELSE UNCHANGED reload
  BY DEF Type
<1>2. doc \in DocType /\ owner \in OwnerType /\ CloseOK(close, owner) BY DEF IInv, TypesOK
<1>3. asked \in BOOLEAN /\ prompt' \in BOOLEAN /\ timer' \in BOOLEAN BY <1>1, ReadyIsBoolean
<1>4. dirty <=> text # doc.original OBVIOUS
<1> HIDE DEF asked, asks
<1>5. /\ doc' \in DocType /\ doc'.content = text /\ doc'.kind = doc.kind /\ doc'.mtime = doc.mtime
  BY <1>1, <1>2, <1>3 DEF DocType
<1>6. doc'.original = doc.original BY <1>1, <1>2 DEF DocType
<1>7. reload' = reload \/ Begun(reload', reload)
  <2>1. CASE asks /\ ~dirty
    <3>1. ~Dirty(doc') BY <2>1, <1>5, <1>6 DEF Dirty
    <3>2. Safe(doc') = TRUE BY <3>1 DEF Safe
    <3>3. reload' = IF reload.stage = "none" THEN Reloading(0, Safe(doc')) ELSE reload
      BY <1>1, <2>1 DEF ReplaceOpenFileStateFromDisk
    <3>4. reload' = IF reload.stage = "none" THEN Reloading(0, TRUE) ELSE reload BY <3>2, <3>3
    <3>5. TypesOK BY DEF IInv
    <3> QED BY <3>4, <3>5, ReloadBegins
  <2>2. CASE ~(asks /\ ~dirty) BY <1>1, <2>2
  <2> QED BY <2>1, <2>2
<1>8. unsaved' \in Nat /\ (unsaved' = Nothing \/ (unsaved' = text /\ ~IsWritten(text)))
  BY <1>1 DEF Nothing
<1>9. EditOK(unsaved', doc', owner, close)
  BY <1>1, <1>5, <1>8 DEF EditOK, IsWritten, Tab
<1>10. Carries(owner, owner) BY DEF Carries
<1> QED BY <1>1, <1>2, <1>3, <1>5, <1>7, <1>8, <1>9, <1>10, EditorStep

\* The user types a fresh text or the saved one.
LEMMA Edits == IInv /\ HandleFileEditorContentChanged => IInv'
<1> SUFFICES ASSUME IInv, HandleFileEditorContentChanged PROVE IInv' OBVIOUS
<1>1. texts \in Nat /\ texts + 1 \in Nat /\ doc.original \in Nat BY DEF IInv, TypesOK, DocType
<1>2. CASE Type(texts + 1) /\ texts' = texts + 1 BY <1>1, <1>2, Types
<1>3. CASE Type(doc.original) /\ texts' = texts BY <1>1, <1>3, Types
<1> QED BY <1>2, <1>3 DEF HandleFileEditorContentChanged

\* What a reload that the user asks for leaves: nothing typed, and a reload that has read nothing.
LEMMA GivenUp ==
  ASSUME TypesOK, NEW d, GivesUp, ReplaceOpenFileStateFromDisk(0, d)
  PROVE  unsaved' = Nothing /\ Begun(reload', reload)
<1>1. Safe(d) = TRUE BY DEF Safe
<1>2. reload' = IF reload.stage = "none" THEN Reloading(0, Safe(d)) ELSE reload
  BY DEF ReplaceOpenFileStateFromDisk
<1>3. reload' = IF reload.stage = "none" THEN Reloading(0, TRUE) ELSE reload BY <1>1, <1>2
<1> QED BY <1>3, ReloadBegins DEF GivesUp

\* A step of the dialogs: what was typed stays as it was or is given up.
LEMMA DialogStep ==
  ASSUME IInv, UNCHANGED <<disk, doc, close, timer, ack, owner, poll, autosave, texts, damage, shown>>,
         prompt' \in BOOLEAN,
         \/ UNCHANGED <<unsaved, reload>>
         \/ unsaved' = Nothing /\ Begun(reload', reload)
  PROVE  IInv'
<1>1. /\ doc \in DocType /\ timer \in BOOLEAN /\ texts \in Nat /\ unsaved \in Nat /\ Nothing \in Nat
      /\ owner \in OwnerType /\ CloseOK(close, owner) /\ EditOK(unsaved, doc, owner, close)
  BY DEF IInv, TypesOK, Nothing
<1>2. Carries(owner, owner) BY DEF Carries
<1>3. EditOK(unsaved', doc, owner, close) BY <1>1, NothingToLose
<1> QED BY <1>1, <1>2, <1>3, EditorStep

\* The dialog of an external change is answered.
LEMMA Prompted ==
  ASSUME IInv, NEW choice, PromptExternalChange(choice)
  PROVE  IInv'
<1>1. TypesOK BY DEF IInv
<1>2. \/ UNCHANGED <<unsaved, reload>>
      \/ GivesUp /\ ReplaceOpenFileStateFromDisk(0, doc)
  BY DEF PromptExternalChange
<1>3. \/ UNCHANGED <<unsaved, reload>>
      \/ unsaved' = Nothing /\ Begun(reload', reload)
  BY <1>1, <1>2, GivenUp
<1>4. /\ UNCHANGED <<disk, doc, close, timer, ack, owner, poll, autosave, texts, damage, shown>>
      /\ prompt' \in BOOLEAN
  BY DEF PromptExternalChange
<1> QED BY <1>3, <1>4, DialogStep

\* The reload button gives up what was typed.
LEMMA Reloads == IInv /\ ReloadOpenFileFromDisk => IInv'
<1> SUFFICES ASSUME IInv, ReloadOpenFileFromDisk PROVE IInv' OBVIOUS
<1>1. TypesOK BY DEF IInv
<1>2. GivesUp /\ ReplaceOpenFileStateFromDisk(0, doc) BY DEF ReloadOpenFileFromDisk
<1>3. unsaved' = Nothing /\ Begun(reload', reload) BY <1>1, <1>2, GivenUp
<1>4. /\ UNCHANGED <<disk, doc, close, timer, ack, owner, poll, autosave, texts, damage, shown>>
      /\ prompt' \in BOOLEAN
  BY <1>1 DEF ReloadOpenFileFromDisk, TypesOK
<1> QED BY <1>3, <1>4, DialogStep

-----------------------------------------------------------------------------
(* Saving.                                                                  *)

\* A request to save leaves everything but the owner.
LEMMA SaveAsked ==
  ASSUME IInv, QueueFileEditorSave(Request(FALSE, FALSE)), timer' \in BOOLEAN,
         UNCHANGED <<disk, doc, prompt, close, ack, reload, poll, autosave, historyVars>>
  PROVE  IInv'
<1>1. /\ TypesOK /\ CloseOK(close, owner) /\ EditOK(unsaved, doc, owner, close)
      /\ owner \in OwnerType
  BY DEF IInv, TypesOK
<1> DEFINE q == Request(FALSE, FALSE)
<1>2. q \in RequestType /\ q.asked /\ ~q.closes BY RequestIs
<1>3. QueueFileEditorSave(q) OBVIOUS
<1> HIDE DEF q
<1>4. owner' \in OwnerType /\ Carries(owner', owner) /\ CloseOK(close, owner')
  BY <1>1, <1>2, <1>3, QueuedIs
<1>5. EditOK(unsaved, doc, owner', close) BY <1>1, <1>4, EditCarried
<1> QED BY <1>1, <1>4, <1>5, EditorStep DEF TypesOK, historyVars

\* The user saves.
LEMMA Saves == IInv /\ SaveFileEditor => IInv'
<1> SUFFICES ASSUME IInv, SaveFileEditor PROVE IInv' OBVIOUS
<1>1. /\ QueueFileEditorSave(Request(FALSE, FALSE)) /\ timer' \in BOOLEAN
      /\ UNCHANGED <<disk, doc, prompt, close, ack, reload, poll, autosave, historyVars>>
  BY DEF SaveFileEditor, IInv, TypesOK
<1> QED BY <1>1, SaveAsked

\* The timer saves, if there is something to save.
LEMMA AutoSaves == IInv /\ AutoSaveFileEditor => IInv'
<1> SUFFICES ASSUME IInv, AutoSaveFileEditor PROVE IInv' OBVIOUS
<1>1. /\ timer' \in BOOLEAN
      /\ UNCHANGED <<disk, doc, prompt, close, ack, reload, poll, autosave, historyVars>>
      /\ QueueFileEditorSave(Request(FALSE, FALSE)) \/ owner' = owner
  BY DEF AutoSaveFileEditor
<1>2. CASE owner' = owner
  <2>1. Carries(owner, owner) BY DEF Carries
  <2>2. /\ doc \in DocType /\ prompt \in BOOLEAN /\ texts \in Nat /\ unsaved \in Nat /\ owner \in OwnerType
        /\ CloseOK(close, owner) /\ EditOK(unsaved, doc, owner, close)
    BY DEF IInv, TypesOK
  <2> QED BY <1>1, <1>2, <2>1, <2>2, EditorStep DEF historyVars
<1> QED BY <1>1, <1>2, SaveAsked

\* The owner turns to another phase without a text under way.
Turned(n) == n \in OwnerType /\ n.phase # "writing" /\ CloseOK(close, n)

\* An owner turned to another phase keeps its requests.
LEMMA TurnedIs ==
  ASSUME TypesOK, CloseOK(close, owner), owner.phase # "none",
         NEW phase \in {"asking", "reloading", "keeping"}
  PROVE  /\ Turned([phase |-> phase, request |-> owner.request, pending |-> owner.pending])
         /\ owner.phase # "writing" => Turned([owner EXCEPT !.phase = phase])
<1>1. /\ owner \in OwnerType /\ owner.request \in RequestType /\ owner.pending \in RequestType
  BY OwnerFields DEF TypesOK
<1> DEFINE n == [phase |-> phase, request |-> owner.request, pending |-> owner.pending]
           m == [owner EXCEPT !.phase = phase]
<1>2. /\ n \in WaitingType /\ n.phase = phase /\ n.request = owner.request
      /\ n.pending = owner.pending
  BY <1>1 DEF WaitingType
<1>3. ASSUME owner.phase # "writing" PROVE m = n
  <2>1. owner \in WaitingType BY <1>1, <1>3, OwnerFields
  <2> QED BY <2>1 DEF WaitingType
<1> HIDE DEF n, m
<1>4. Turned(n) BY <1>2 DEF Turned, CloseOK, OwnerType
<1> QED BY <1>3, <1>4 DEF n, m

\* The answer to a save under way is that of a text the editor has, or that has been lost with it.
LEMMA LostIs ==
  ASSUME IInv, LostWithTab
  PROVE  /\ unsaved' \in Nat /\ damage' \subseteq {"reload", "clean", "close"}
         /\ unsaved' # Nothing => close # "closed" /\ unsaved' = doc.content
<1>1. /\ unsaved \in Nat /\ damage \subseteq {"reload", "clean", "close"}
      /\ EditOK(unsaved, doc, owner, close)
  BY DEF IInv, TypesOK
<1>2. CASE ~Tab /\ unsaved # Nothing
  <2>1. unsaved' = Nothing /\ damage' = damage \cup {"close"} BY <1>2 DEF LostWithTab
  <2>2. damage' \subseteq {"reload", "clean", "close"} BY <1>1, <2>1
  <2> QED BY <2>1, <2>2 DEF Nothing
<1>3. CASE Tab \/ unsaved = Nothing
  <2>1. unsaved' \in {unsaved, Nothing} /\ damage' = damage BY <1>3 DEF LostWithTab
  <2> QED BY <1>1, <1>3, <2>1 DEF EditOK, Tab, Nothing
<1> QED BY <1>2, <1>3

\* The conflict dialog opens.
LEMMA ConflictAsked ==
  ASSUME IInv, owner.phase # "none", AsksAboutConflict,
         UNCHANGED <<disk, prompt, reload, autosave, texts, shown>>,
         timer' \in BOOLEAN, ack' \in [mtime : Nat, pending : BOOLEAN],
         poll' \in PollType, poll'.stage \in {"joined", "reloading"} => poll'.stage = poll.stage,
         unsaved' \in Nat, damage' \subseteq {"reload", "clean", "close"},
         unsaved' # Nothing => close # "closed" /\ unsaved' = doc.content
  PROVE  IInv'
<1>1. /\ TypesOK /\ CloseOK(close, owner) /\ doc \in DocType /\ close \in CloseType
      /\ prompt \in BOOLEAN /\ texts \in Nat
  BY DEF IInv, TypesOK
<1>2. Turned(owner') BY <1>1, TurnedIs DEF AsksAboutConflict
<1>3. close' = close BY DEF AsksAboutConflict
<1>4. doc' \in DocType /\ doc'.content = doc.content /\ doc'.kind = doc.kind /\ doc'.mtime = doc.mtime
  BY <1>1 DEF AsksAboutConflict, AtConflict, DocType
<1>5. EditOK(unsaved', doc', owner', close') BY <1>2, <1>3, <1>4, EditIdle DEF Turned
<1> QED BY <1>1, <1>2, <1>3, <1>4, <1>5, PageStep DEF Turned

\* A save or a conflict is over.
LEMMA SaveOver ==
  ASSUME IInv, Resolves(owner', close'),
         UNCHANGED <<disk, prompt, autosave, texts, shown>>,
         reload' = reload \/ Begun(reload', reload),
         timer' \in BOOLEAN, ack' \in [mtime : Nat, pending : BOOLEAN],
         poll' \in PollType, poll'.stage \in {"joined", "reloading"} => poll'.stage = poll.stage,
         unsaved' \in Nat, damage' \subseteq {"reload", "clean", "close"}, doc' \in DocType,
         unsaved' # Nothing => close # "closed" /\ unsaved' = doc'.content,
         doc'.kind = "text" => \/ doc.kind = "text" /\ doc'.mtime = doc.mtime
                               \/ doc'.mtime > 0 /\ Known(doc'.mtime, disk, shown)
  PROVE  IInv'
<1>1. prompt \in BOOLEAN /\ texts \in Nat BY DEF IInv, TypesOK
<1>2. /\ owner' \in OwnerType /\ owner'.phase # "writing" /\ CloseOK(close', owner')
      /\ close' \in CloseType /\ (close' = "closed" <=> close = "closed")
  BY DEF Resolves
<1>3. EditOK(unsaved', doc', owner', close') BY <1>2, EditIdle
<1> QED BY <1>1, <1>2, <1>3, PageStep

\* The same of a round whose state is that of now.
LEMMA Settled ==
  ASSUME TypesOK, CloseOK(close, owner), owner.phase # "none", NEW result \in BOOLEAN,
         NEW STATE d, NEW STATE a, Settles(result, d, a)
  PROVE  Resolves(owner', close')
<1> QED BY SettlesIs DEF Settles

\* What an owner that has no text under way knows of what was typed.
LEMMA TypedWhileIdle ==
  ASSUME IInv, owner.phase # "writing"
  PROVE  unsaved # Nothing => close # "closed" /\ unsaved = doc.content
<1> QED BY DEF IInv, EditOK

\* A round of the owner: nothing to do, a conflict, a reload or a write.
LEMMA Performs == IInv /\ PerformFileEditorSave => IInv'
<1> SUFFICES ASSUME IInv, PerformFileEditorSave PROVE IInv' OBVIOUS
<1>1. /\ TypesOK /\ CloseOK(close, owner) /\ doc \in DocType /\ unsaved \in Nat /\ timer \in BOOLEAN
      /\ ack \in [mtime : Nat, pending : BOOLEAN] /\ damage \subseteq {"reload", "clean", "close"}
      /\ poll \in PollType /\ owner \in OwnerType /\ close \in CloseType /\ reload \in ReloadType
  BY DEF IInv, TypesOK
<1>2. /\ owner.phase = "due" /\ owner.phase # "none" /\ owner.phase # "writing"
      /\ UNCHANGED <<disk, prompt, poll, autosave, texts, unsaved, damage, shown>>
  BY DEF PerformFileEditorSave, historyVars
<1>3. unsaved # Nothing => close # "closed" /\ unsaved = doc.content BY <1>2, TypedWhileIdle
<1>4. \/ PerformNothing(FALSE) \/ PerformNothing(TRUE)
      \/ AsksAboutConflict /\ timer' = FALSE /\ UNCHANGED <<ack, reload>>
      \/ ~Dirty(doc) /\ PerformReload
      \/ doc.kind = "text" /\ PerformWrite
  BY DEF PerformFileEditorSave
<1>5. ASSUME NEW result \in BOOLEAN, PerformNothing(result) PROVE IInv'
  <2>1. Settles(result, doc, ack) /\ UNCHANGED <<doc, timer, ack, reload>>
    BY <1>5 DEF PerformNothing
  <2>2. Resolves(owner', close') BY <1>1, <1>2, <2>1, Settled
  <2> QED BY <1>1, <1>2, <1>3, <2>1, <2>2, SaveOver
<1>6. CASE AsksAboutConflict /\ timer' = FALSE /\ UNCHANGED <<ack, reload>>
  BY <1>1, <1>2, <1>3, <1>6, ConflictAsked
<1>7. CASE ~Dirty(doc) /\ PerformReload
  <2>1. /\ owner' = [owner EXCEPT !.phase = "reloading"]
        /\ UNCHANGED <<doc, close, timer, ack>>
        /\ reload' = IF reload.stage = "none" THEN Reloading(0, Safe(doc)) ELSE reload
    BY <1>7 DEF PerformReload, ReplaceOpenFileStateFromDisk
  <2>2. Safe(doc) = TRUE BY <1>7 DEF Safe
  <2>3. reload' = IF reload.stage = "none" THEN Reloading(0, TRUE) ELSE reload BY <2>1, <2>2
  <2>4. Begun(reload', reload) BY <1>1, <2>3, ReloadBegins
  <2>5. Turned(owner') BY <1>1, <1>2, <2>1, TurnedIs
  <2>6. EditOK(unsaved, doc, owner', close) BY <1>3, <2>5, EditIdle DEF Turned
  <2> QED BY <1>1, <1>2, <2>1, <2>4, <2>5, <2>6, EditorStep DEF Turned, TypesOK
<1>8. CASE doc.kind = "text" /\ PerformWrite
  <2> DEFINE expected == IF owner.request.force THEN AnyTime ELSE doc.mtime
  <2>1. /\ owner' = [phase |-> "writing", request |-> owner.request, pending |-> owner.pending,
                     text |-> doc.content, stage |-> "sent", mtime |-> 0, holds |-> TRUE,
                     expected |-> expected]
        /\ ack' = [mtime |-> doc.mtime, pending |-> TRUE]
        /\ UNCHANGED <<doc, close, timer, reload>>
    BY <1>8 DEF PerformWrite
  <2>2. /\ owner.request \in RequestType /\ owner.pending \in RequestType
        /\ doc.content \in Nat /\ doc.mtime \in Nat
    BY <1>1, <1>2, OwnerFields DEF DocType
  <2>3. expected \in Nat /\ (~owner.request.force => expected = doc.mtime) BY <2>2 DEF AnyTime
  <2> HIDE DEF expected
  <2>4. /\ owner' \in WritingType /\ owner'.phase = "writing" /\ owner'.stage = "sent"
        /\ owner'.text = doc.content /\ owner'.expected = expected
        /\ owner'.request = owner.request /\ owner'.pending = owner.pending
    BY <2>1, <2>2, <2>3 DEF WritingType
  <2>5. ack' \in [mtime : Nat, pending : BOOLEAN] BY <2>1, <2>2
  <2>6. TypesOK' BY <1>1, <1>2, <2>1, <2>4, <2>5 DEF TypesOK, OwnerType
  <2>7. CloseOK(close, owner') BY <1>1, <1>2, <2>4 DEF CloseOK
  <2>8. EditOK(unsaved, doc, owner', close) BY <1>3, <2>4 DEF EditOK
  <2>9. TimesOK(disk, shown, doc, owner', reload)
    <3>1. TimesOK(disk, shown, doc, owner, reload) BY DEF IInv
    <3>2. doc.mtime > 0 /\ Known(doc.mtime, disk, shown) BY <1>8, <3>1 DEF TimesOK
    <3> QED BY <2>3, <2>4, <3>1, <3>2 DEF TimesOK
  <2> QED BY <1>2, <2>1, <2>6, <2>7, <2>8, <2>9 DEF IInv
<1> QED BY <1>4, <1>5, <1>6, <1>7, <1>8

\* The state a save was made of keeps its text and takes the time of the write.
LEMMA SavedIs ==
  ASSUME NEW d \in DocType, owner.mtime \in Nat, owner.text \in Nat
  PROVE  /\ SavedState(d) \in DocType /\ SavedState(d).content = d.content
         /\ SavedState(d).kind = d.kind /\ SavedState(d).mtime = owner.mtime
<1> QED BY DEF SavedState, DocType, NoChange

\* The answer to a save: what was written is no longer typed.
LEMMA Answers == IInv /\ SaveAnswered => IInv'
<1> SUFFICES ASSUME IInv, SaveAnswered PROVE IInv' OBVIOUS
<1>1. /\ TypesOK /\ CloseOK(close, owner) /\ doc \in DocType /\ unsaved \in Nat
      /\ damage \subseteq {"reload", "clean", "close"} /\ poll \in PollType /\ owner \in OwnerType
      /\ EditOK(unsaved, doc, owner, close)
  BY DEF IInv, TypesOK
<1>2. /\ owner.phase = "writing" /\ owner.stage = "written"
      /\ doc' = IF owner.holds THEN SavedState(doc) ELSE doc
      /\ poll' = IF poll.stage = "none" \/ poll.holds # "written" THEN poll
                 ELSE [poll EXCEPT !.holds = "stale", !.frozen = SavedState(poll.frozen)]
      /\ ack' = [mtime |-> owner.mtime, pending |-> FALSE] /\ timer' = FALSE
      /\ UNCHANGED <<disk, prompt, reload, autosave, texts, unsaved, damage, shown>>
  BY DEF SaveAnswered, historyVars
<1>3. owner.mtime \in Nat /\ owner.text \in Nat
  <2>1. owner \in WritingType BY <1>1, <1>2, OwnerFields
  <2> QED BY <2>1 DEF WritingType
<1>4. ack' \in [mtime : Nat, pending : BOOLEAN] /\ timer' \in BOOLEAN BY <1>2, <1>3
<1>5. /\ doc' \in DocType /\ doc'.content = doc.content /\ doc'.kind = doc.kind
      /\ doc'.mtime = doc.mtime \/ doc'.mtime = owner.mtime
  BY <1>1, <1>2, <1>3, SavedIs
<1>6. poll' \in PollType /\ poll'.stage = poll.stage
  <2>1. CASE poll.stage = "none" \/ poll.holds # "written" BY <1>1, <1>2, <2>1
  <2>2. CASE ~(poll.stage = "none" \/ poll.holds # "written")
    <3> DEFINE frozen == SavedState(poll.frozen)
    <3>1. poll' = [poll EXCEPT !.holds = "stale", !.frozen = frozen] BY <1>2, <2>2
    <3>2. poll \in PollingType BY <1>1, <2>2, PollFields
    <3>3. poll.frozen \in DocType BY <3>2 DEF PollingType
    <3>4. frozen \in DocType BY <1>3, <3>3, SavedIs
    <3> HIDE DEF frozen
    <3>5. poll' \in PollingType /\ poll'.stage = poll.stage BY <3>1, <3>2, <3>4 DEF PollingType
    <3> QED BY <3>5 DEF PollType
  <2> QED BY <2>1, <2>2
<1>7. Resolves(owner', close')
  <2>1. Settles(TRUE, doc', ack') BY DEF SaveAnswered
  <2>2. /\ close' = Resolved(owner.request, TRUE)
        /\ owner.pending.asked => owner' = Due(owner.pending)
        /\ ~owner.pending.asked => owner' = NoOwner \/ owner' = Due(Request(FALSE, FALSE))
    BY <2>1 DEF Settles
  <2> QED BY <1>1, <1>2, <2>2, SettlesIs
<1>8. owner.mtime > 0 /\ Known(owner.mtime, disk, shown) BY <1>2 DEF IInv, TimesOK
<1>9. unsaved # Nothing => close # "closed" /\ unsaved = doc.content BY <1>1, <1>2 DEF EditOK
<1> QED BY <1>1, <1>2, <1>4, <1>5, <1>6, <1>7, <1>8, <1>9, SaveOver

\* A poll that holds the state of a save keeps its stage.
LEMMA StaleIs ==
  ASSUME TypesOK PROVE Stale(poll) \in PollType /\ Stale(poll).stage = poll.stage
<1>1. poll \in PollType BY DEF TypesOK
<1>2. CASE poll.stage # "none" /\ poll.holds = "written"
  <2>1. poll \in PollingType BY <1>1, <1>2, PollFields
  <2>2. Stale(poll) = [poll EXCEPT !.holds = "stale"] BY <1>2 DEF Stale
  <2> QED BY <2>1, <2>2 DEF PollType, PollingType
<1>3. CASE ~(poll.stage # "none" /\ poll.holds = "written") BY <1>1, <1>3 DEF Stale
<1> QED BY <1>2, <1>3

\* No acknowledgement is one of its type.
LEMMA NoAckIs == NoAck \in [mtime : Nat, pending : BOOLEAN]
<1> QED BY DEF NoAck

\* A save is refused: the user is asked.
LEMMA Refused == IInv /\ SaveRefused => IInv'
<1> SUFFICES ASSUME IInv, SaveRefused PROVE IInv' OBVIOUS
<1>1. /\ owner.phase # "none" /\ AsksAboutConflict /\ LostWithTab
      /\ ack' = NoAck /\ poll' = Stale(poll)
      /\ UNCHANGED <<disk, prompt, timer, reload, autosave, texts, shown>>
  BY DEF SaveRefused
<1>2. TypesOK /\ timer \in BOOLEAN BY DEF IInv, TypesOK
<1> QED BY <1>1, <1>2, StaleIs, NoAckIs, LostIs, ConflictAsked

\* A save fails.
LEMMA Fails == IInv /\ SaveFails => IInv'
<1> SUFFICES ASSUME IInv, SaveFails PROVE IInv' OBVIOUS
<1>1. /\ owner.phase # "none" /\ Settles(FALSE, doc, NoAck) /\ LostWithTab
      /\ ack' = NoAck /\ poll' = Stale(poll)
      /\ UNCHANGED <<disk, doc, prompt, timer, reload, autosave, texts, shown>>
  BY DEF SaveFails
<1>2. TypesOK /\ timer \in BOOLEAN /\ doc \in DocType /\ CloseOK(close, owner) BY DEF IInv, TypesOK
<1>3. Resolves(owner', close')
  <2>1. /\ close' = Resolved(owner.request, FALSE)
        /\ owner.pending.asked => owner' = Due(owner.pending)
        /\ ~owner.pending.asked => owner' = NoOwner \/ owner' = Due(Request(FALSE, FALSE))
    BY <1>1 DEF Settles
  <2> QED BY <1>1, <1>2, <2>1, SettlesIs
<1> QED BY <1>1, <1>2, <1>3, StaleIs, NoAckIs, LostIs, SaveOver

\* An acknowledgement ends.
LEMMA Expires == IInv /\ AckExpires => IInv'
<1> SUFFICES ASSUME IInv, AckExpires PROVE IInv' OBVIOUS
<1>1. /\ ack' = NoAck
      /\ UNCHANGED <<disk, doc, prompt, close, timer, owner, reload, poll, autosave, historyVars>>
  BY DEF AckExpires
<1> QED BY <1>1, NoAckIs DEF IInv, TypesOK, historyVars

\* The conflict is answered.
LEMMA Conflicts ==
  ASSUME IInv, NEW choice, ResolveConflict(choice)
  PROVE  IInv'
<1>1. /\ TypesOK /\ CloseOK(close, owner) /\ doc \in DocType /\ unsaved \in Nat /\ timer \in BOOLEAN
      /\ ack \in [mtime : Nat, pending : BOOLEAN] /\ damage \subseteq {"reload", "clean", "close"}
      /\ poll \in PollType /\ owner \in OwnerType /\ close \in CloseType /\ reload \in ReloadType
      /\ prompt \in BOOLEAN /\ texts \in Nat /\ Nothing \in Nat
  BY DEF IInv, TypesOK, Nothing
<1>2. /\ owner.phase = "asking" /\ owner.phase # "none" /\ owner.phase # "writing"
      /\ UNCHANGED <<disk, doc, prompt, timer, ack, poll, autosave, texts, damage, shown>>
  BY DEF ResolveConflict
<1>3. unsaved # Nothing => close # "closed" /\ unsaved = doc.content BY <1>2, TypedWhileIdle
<1>4. owner.request \in RequestType /\ owner.pending \in RequestType BY <1>1, <1>2, OwnerFields
<1>5. \/ /\ owner' = Due(Request(TRUE, owner.request.closes \/ owner.pending.closes))
         /\ UNCHANGED <<close, reload, unsaved>>
      \/ /\ owner' = [owner EXCEPT !.phase = "keeping"] /\ UNCHANGED close
         /\ GivesUp /\ ReplaceOpenFileStateFromDisk(0, doc)
      \/ ConflictEnds(FALSE) /\ UNCHANGED <<reload, unsaved>>
  BY DEF ResolveConflict
<1>6. CASE /\ owner' = Due(Request(TRUE, owner.request.closes \/ owner.pending.closes))
           /\ UNCHANGED <<close, reload, unsaved>>
  <2> DEFINE closes == owner.request.closes \/ owner.pending.closes
             q == Request(TRUE, closes)
  <2>1. closes \in BOOLEAN /\ (closes <=> owner.request.closes \/ owner.pending.closes) OBVIOUS
  <2> HIDE DEF closes
  <2>2. q \in RequestType /\ q.closes = closes BY <2>1, RequestIs
  <2> HIDE DEF q
  <2>3. owner' = Due(q) BY <1>6 DEF q, closes
  <2>4. /\ owner' \in Idle /\ owner'.phase = "due" /\ owner'.request = q
        /\ owner'.pending.closes = FALSE
    BY <2>2, <2>3, DueIs
  <2>5. owner' \in OwnerType BY <2>4, IdleIs
  <2>6. CloseOK(close, owner')
    <3>1. close \in {"saving", "asked"} <=> owner.request.closes \/ owner.pending.closes
      BY <1>1, <1>2 DEF CloseOK
    <3> QED BY <3>1, <2>1, <2>2, <2>4 DEF CloseOK
  <2>7. EditOK(unsaved, doc, owner', close) BY <1>3, <2>4, EditIdle
  <2> QED BY <1>1, <1>2, <1>6, <2>4, <2>5, <2>6, <2>7, EditorStep
<1>7. CASE /\ owner' = [owner EXCEPT !.phase = "keeping"] /\ UNCHANGED close
           /\ GivesUp /\ ReplaceOpenFileStateFromDisk(0, doc)
  <2>1. Turned(owner') BY <1>1, <1>2, <1>7, TurnedIs
  <2>2. unsaved' = Nothing /\ Begun(reload', reload) BY <1>1, <1>7, GivenUp
  <2>3. EditOK(unsaved', doc, owner', close) BY <2>2, NothingToLose
  <2> QED BY <1>1, <1>2, <1>7, <2>1, <2>2, <2>3, EditorStep DEF Turned
<1>8. CASE ConflictEnds(FALSE) /\ UNCHANGED <<reload, unsaved>>
  <2>1. Resolves(owner', close') BY <1>1, <1>2, <1>8, ConflictEndsIs
  <2> QED BY <1>1, <1>2, <1>3, <1>8, <2>1, SaveOver
<1> QED BY <1>5, <1>6, <1>7, <1>8

-----------------------------------------------------------------------------
(* Loading.                                                                 *)

\* The states without a text are no text.
LEMMA StatesAre ==
  /\ NoDocument \in DocType /\ ErrorState \in DocType /\ MissingFileState \in DocType
  /\ NoDocument.kind = "none" /\ ErrorState.kind = "error" /\ MissingFileState.kind = "error"
  /\ \A t \in Nat : /\ [ErrorState EXCEPT !.mtime = t] \in DocType
                    /\ [ErrorState EXCEPT !.mtime = t].kind = "error"
<1> QED BY DEF NoDocument, ErrorState, MissingFileState, Document, DocType, Nothing, NoChange

\* A state read is the text and the time it was read with.
LEMMA TextStateIs ==
  ASSUME NEW text \in Nat, NEW t \in Nat
  PROVE  /\ TextState(text, t) \in DocType /\ TextState(text, t).kind = "text"
         /\ TextState(text, t).content = text /\ TextState(text, t).mtime = t
<1> QED BY DEF TextState, Document, DocType, NoChange

\* A reload under way has all its fields.
LEMMA LoadingFields ==
  ASSUME NEW r \in ReloadType, r.stage # "none" PROVE r \in LoadingType
<1> QED BY DEF ReloadType, NoReload

\* A stage of a reload: what has been read is the file's text at the file's time, or no text.
LEMMA LoadStep ==
  ASSUME IInv, reload.stage # "none",
         NEW stage \in {"listing", "reading", "confirming", "loaded"}, NEW entry \in Nat,
         NEW found \in DocType, Loads(stage, entry, found),
         stage = "loaded" /\ found.kind = "text"
           => found.mtime = disk.mtime /\ found.content = disk.text
  PROVE  IInv'
<1>1. /\ reload' = [reload EXCEPT !.stage = stage, !.entry = entry, !.found = found]
      /\ UNCHANGED <<disk, doc, prompt, close, timer, ack, owner, poll, autosave, texts, unsaved,
                     damage, shown>>
  BY DEF Loads, historyVars
<1>2. reload \in ReloadType /\ disk \in DiskType BY DEF IInv, TypesOK
<1>3. reload \in LoadingType BY <1>2, LoadingFields
<1>4. /\ reload' \in LoadingType /\ reload'.stage = stage /\ reload'.found = found
  BY <1>1, <1>3 DEF LoadingType
<1>5. reload' \in ReloadType BY <1>4 DEF ReloadType
<1>6. TypesOK' BY <1>1, <1>5 DEF IInv, TypesOK
<1>7. PollOK(poll, reload') BY <1>4 DEF PollOK
<1>8. TimesOK(disk, shown, doc, owner, reload) BY DEF IInv
<1>9. found.kind = "text" /\ stage = "loaded" => found.mtime > 0 /\ Found(found, disk)
  BY <1>2, <1>8 DEF TimesOK, Found, DiskType
<1>10. TimesOK(disk, shown, doc, owner, reload') BY <1>4, <1>8, <1>9 DEF TimesOK
<1> QED BY <1>1, <1>6, <1>7, <1>10 DEF IInv

\* The directory is listed.
LEMMA Lists == IInv /\ ListDirectory => IInv'
<1> SUFFICES ASSUME IInv, ListDirectory PROVE IInv' OBVIOUS
<1>1. disk.mtime \in Nat BY DEF IInv, TypesOK, DiskType
<1>2. /\ reload.stage # "none"
      /\ Loads("reading", disk.mtime, NoDocument) \/ Loads("confirming", 0, NoDocument)
  BY DEF ListDirectory
<1> QED BY <1>1, <1>2, StatesAre, LoadStep

\* The file is read.
LEMMA Reads == IInv /\ ReadFile => IInv'
<1> SUFFICES ASSUME IInv, ReadFile PROVE IInv' OBVIOUS
<1>1. disk.mtime \in Nat /\ disk.text \in Nat /\ reload \in ReloadType
  BY DEF IInv, TypesOK, DiskType
<1>2. reload.stage # "none" BY DEF ReadFile
<1>3. reload.entry \in Nat BY <1>1, <1>2, LoadingFields DEF LoadingType
<1>4. \/ Loads("loaded", reload.entry, TextState(disk.text, disk.mtime))
      \/ Loads("loaded", reload.entry, [ErrorState EXCEPT !.mtime = reload.entry])
      \/ Loads("loaded", reload.entry, MissingFileState)
  BY DEF ReadFile
<1>5. CASE Loads("loaded", reload.entry, TextState(disk.text, disk.mtime))
  BY <1>1, <1>2, <1>3, <1>5, TextStateIs, LoadStep
<1>6. CASE Loads("loaded", reload.entry, [ErrorState EXCEPT !.mtime = reload.entry])
  <2> DEFINE found == [ErrorState EXCEPT !.mtime = reload.entry]
  <2>1. found \in DocType /\ found.kind = "error" /\ Loads("loaded", reload.entry, found)
    BY <1>3, <1>6, StatesAre
  <2> HIDE DEF found
  <2> QED BY <2>1, <1>2, <1>3, LoadStep
<1>7. CASE Loads("loaded", reload.entry, MissingFileState)
  BY <1>2, <1>3, <1>7, StatesAre, LoadStep
<1> QED BY <1>4, <1>5, <1>6, <1>7

\* A listing or a read fails.
LEMMA ReadsFail == IInv /\ ReadFails => IInv'
<1> SUFFICES ASSUME IInv, ReadFails PROVE IInv' OBVIOUS
<1>1. reload.stage # "none" /\ reload \in ReloadType BY DEF ReadFails, IInv, TypesOK
<1>2. reload.entry \in Nat BY <1>1, LoadingFields DEF LoadingType
<1>3. PICK found \in {NoDocument, ErrorState, [ErrorState EXCEPT !.mtime = reload.entry]} :
        Loads("loaded", reload.entry, found)
  BY DEF ReadFails
<1>4. found \in DocType /\ found.kind # "text"
  <2> DEFINE failed == [ErrorState EXCEPT !.mtime = reload.entry]
  <2>1. failed \in DocType /\ failed.kind = "error" BY <1>2, StatesAre
  <2>2. found \in {NoDocument, ErrorState, failed} OBVIOUS
  <2> HIDE DEF failed
  <2> QED BY <2>1, <2>2, StatesAre
<1> QED BY <1>1, <1>2, <1>3, <1>4, LoadStep

\* e is the state d but for what says how the disk differs.
Retouched(e, d) == e \in DocType /\ e.content = d.content /\ e.kind = d.kind /\ e.mtime = d.mtime

\* What was typed is still there, or is gone and counted.
Stays == /\ unsaved' \in Nat /\ damage' \subseteq {"reload", "clean", "close"}
         /\ unsaved' = Nothing \/ (unsaved' = unsaved /\ (close = "closed" \/ doc'.content = unsaved))

\* The state that takes the editor's place takes what was typed, which is counted, or has it.
LEMMA WayGiven ==
  ASSUME TypesOK, EditOK(unsaved, doc, owner, close), NEW d, doc' = d, GivesWayTo(d)
  PROVE  Stays
<1>1. unsaved \in Nat /\ damage \subseteq {"reload", "clean", "close"} BY DEF TypesOK
<1>2. CASE unsaved # Nothing /\ unsaved = doc.content /\ unsaved # d.content
  <2>1. unsaved' = Nothing /\ damage' \in {damage \cup {"reload"}, damage \cup {"clean"}}
    BY <1>2 DEF GivesWayTo
  <2> QED BY <1>1, <2>1 DEF Stays, Nothing
<1>3. CASE ~(unsaved # Nothing /\ unsaved = doc.content /\ unsaved # d.content)
  <2>1. unsaved' = unsaved /\ damage' = damage BY <1>3 DEF GivesWayTo
  <2>2. unsaved = Nothing \/ close = "closed" \/ unsaved = doc.content BY DEF EditOK
  <2> QED BY <1>1, <1>3, <2>1, <2>2 DEF Stays
<1> QED BY <1>2, <1>3

\* The file was found missing: a dirty text stays in the editor.
LEMMA MissingIs ==
  ASSUME TypesOK, EditOK(unsaved, doc, owner, close), FindsMissing
  PROVE  /\ doc' \in DocType /\ shown' = shown /\ Stays
         /\ doc'.kind = "text" => doc.kind = "text" /\ doc'.mtime = doc.mtime
<1>1. doc \in DocType /\ unsaved \in Nat /\ damage \subseteq {"reload", "clean", "close"}
  BY DEF TypesOK
<1>2. CASE Dirty(doc)
  <2>1. doc' = KeepsMissing /\ UNCHANGED <<shown, unsaved, damage>> BY <1>2 DEF FindsMissing
  <2>2. Retouched(doc', doc) BY <1>1, <2>1 DEF Retouched, KeepsMissing, DocType, NoChange
  <2>3. unsaved = Nothing \/ close = "closed" \/ unsaved = doc.content BY DEF EditOK
  <2> QED BY <1>1, <2>1, <2>2, <2>3 DEF Retouched, Stays
<1>3. CASE ~Dirty(doc)
  <2>1. doc' = MissingFileState /\ GivesWayTo(MissingFileState) /\ UNCHANGED shown
    BY <1>3 DEF FindsMissing
  <2>2. Stays BY <2>1, WayGiven
  <2> QED BY <2>1, <2>2, StatesAre
<1> QED BY <1>2, <1>3

\* What a reload leaves in the editor.
LEMMA Replaced ==
  ASSUME IInv, reload.stage = "loaded", Replaces
  PROVE  /\ doc' \in DocType /\ Stays
         /\ shown \subseteq shown' /\ shown' \subseteq Nat
         /\ doc'.kind = "text" => doc'.mtime > 0 /\ Known(doc'.mtime, disk, shown')
<1>1. /\ reload \in ReloadType /\ shown \subseteq Nat /\ TypesOK
      /\ TimesOK(disk, shown, doc, owner, reload) /\ EditOK(unsaved, doc, owner, close)
  BY DEF IInv, TypesOK
<1>2. reload \in LoadingType BY <1>1, LoadingFields
<1>3. reload.found \in DocType /\ reload.safe = TRUE BY <1>2 DEF LoadingType
<1>4. /\ doc' = reload.found /\ GivesWayTo(reload.found)
      /\ shown' = IF doc'.kind = "text" THEN shown \cup {doc'.content} ELSE shown
  BY <1>3 DEF Replaces
<1>5. Stays BY <1>1, <1>4, WayGiven
<1>7. doc'.content \in Nat BY <1>3, <1>4 DEF DocType
<1>8. shown \subseteq shown' /\ shown' \subseteq Nat BY <1>1, <1>4, <1>7
<1>9. ASSUME doc'.kind = "text" PROVE doc'.mtime > 0 /\ Known(doc'.mtime, disk, shown')
  <2>1. reload.found.mtime > 0 /\ Found(reload.found, disk) BY <1>1, <1>4, <1>9 DEF TimesOK
  <2>2. doc'.content \in shown' BY <1>4, <1>9
  <2> QED BY <1>4, <2>1, <2>2 DEF Found, Known
<1> QED BY <1>3, <1>4, <1>5, <1>8, <1>9

\* What the end of a reload leaves of the save that waited for it.
OwnerLeft ==
  \/ /\ owner' \in OwnerType /\ Carries(owner', owner) /\ close' = close /\ CloseOK(close, owner')
  \/ owner.phase # "writing" /\ Resolves(owner', close')

\* The owner that waited for the reload goes on, any other keeps its text.
LEMMA OwnerGoes ==
  ASSUME TypesOK, CloseOK(close, owner), NEW result \in BOOLEAN, NEW replaced,
         OwnerGoesOn(result, replaced)
  PROVE  OwnerLeft
<1>1. owner \in OwnerType BY DEF TypesOK
<1>2. CASE owner.phase = "reloading"
  <2>1. /\ close' = Resolved(owner.request, result)
        /\ owner.pending.asked => owner' = Due(owner.pending)
        /\ ~owner.pending.asked => owner' = NoOwner \/ owner' = Due(Request(FALSE, FALSE))
    BY <1>2 DEF OwnerGoesOn, Settles
  <2> QED BY <1>2, <2>1, SettlesIs DEF OwnerLeft
<1>3. CASE owner.phase = "keeping"
  <2>1. ConflictEnds(result) BY <1>3 DEF OwnerGoesOn
  <2> QED BY <1>3, <2>1, ConflictEndsIs DEF OwnerLeft
<1>4. CASE owner.phase \notin {"reloading", "keeping"}
  <2>1. owner' \in {owner, Detached(owner)} /\ close' = close BY <1>4 DEF OwnerGoesOn
  <2>2. Carries(owner, owner) BY DEF Carries
  <2>3. CASE owner' = owner BY <1>1, <2>1, <2>2, <2>3 DEF OwnerLeft
  <2>4. CASE owner' = Detached(owner)
    <3>1. /\ owner' \in OwnerType /\ Carries(owner', owner) /\ owner'.phase = owner.phase
          /\ owner.phase # "none" => /\ owner'.request = owner.request
                                     /\ owner'.pending = owner.pending
      BY <1>1, <2>4, DetachedIs
    <3>2. CloseOK(close, owner') BY <3>1 DEF CloseOK
    <3> QED BY <2>1, <3>1, <3>2 DEF OwnerLeft
  <2> QED BY <2>1, <2>3, <2>4
<1> QED BY <1>2, <1>3, <1>4

\* What it leaves of the poll: one that still waits has a reload that has read nothing.
PollLeft ==
  /\ poll' \in PollType /\ reload' \in ReloadType /\ PollOK(poll', reload')
  /\ reload'.stage # "loaded"

\* No poll and no reload are of their types.
LEMMA NothingLeft ==
  /\ NoPoll \in PollType /\ NoPoll.stage = "none"
  /\ NoReload \in ReloadType /\ NoReload.stage = "none"
<1> QED BY DEF NoPoll, PollType, NoReload, ReloadType

\* A poll that learns of a reload keeps its stage.
LEMMA SupersededIs ==
  ASSUME NEW p \in PollingType, NEW result \in BOOLEAN
  PROVE  LET n == [p EXCEPT !.superseded = @ \/ result] IN
         n \in PollType /\ n.stage = p.stage
<1> DEFINE b == p.superseded \/ result
           n == [p EXCEPT !.superseded = b]
<1>1. b \in BOOLEAN OBVIOUS
<1> HIDE DEF b
<1>2. n \in PollingType /\ n.stage = p.stage BY <1>1 DEF PollingType
<1>3. n \in PollType BY <1>2 DEF PollType
<1> QED BY <1>2, <1>3 DEF b

\* The poll that waited for the reload ends, or has it begun anew.
LEMMA PollGoes ==
  ASSUME TypesOK, PollOK(poll, reload), NEW result \in BOOLEAN, NEW replaced,
         PollGoesOn(result, replaced)
  PROVE  PollLeft
<1>1. poll \in PollType BY DEF TypesOK
<1>2. CASE poll.stage = "joined" /\ doc'.mtime # poll.entry.mtime
  <2>1. poll \in PollingType BY <1>1, <1>2, PollFields
  <2>2. poll.entry.mtime \in Nat /\ poll.safe = TRUE BY <2>1 DEF PollingType, DiskType
  <2>3. /\ reload' = Reloading(poll.entry.mtime, poll.safe)
        /\ poll' = [poll EXCEPT !.stage = "reloading"]
    BY <1>2 DEF PollGoesOn
  <2>4. poll' \in PollingType BY <2>1, <2>3 DEF PollingType
  <2>5. reload' \in ReloadType /\ reload'.stage \in {"listing", "reading"}
    BY <2>2, <2>3, ReloadingIs
  <2> QED BY <2>4, <2>5 DEF PollLeft, PollOK, PollType
<1>3. CASE poll.stage = "reloading" \/ (poll.stage = "joined" /\ doc'.mtime = poll.entry.mtime)
  <2>1. reload' = NoReload /\ poll' = NoPoll BY <1>3 DEF PollGoesOn
  <2> QED BY <2>1, NothingLeft DEF PollLeft, PollOK
<1>4. CASE poll.stage \notin {"joined", "reloading"}
  <2>1. /\ reload' = NoReload
        /\ poll' = IF poll.stage = "none" \/ ~replaced THEN poll
                   ELSE [Released(poll) EXCEPT !.superseded = @ \/ result]
    BY <1>4 DEF PollGoesOn
  <2>2. poll' \in PollType /\ poll'.stage = poll.stage
    <3>1. CASE poll.stage = "none" \/ ~replaced BY <1>1, <2>1, <3>1
    <3>2. CASE ~(poll.stage = "none" \/ ~replaced)
      <4> DEFINE p == Released(poll)
      <4>1. p \in PollType /\ p.stage = poll.stage BY ReleasedIs
      <4>2. p \in PollingType BY <3>2, <4>1, PollFields
      <4>3. poll' = [p EXCEPT !.superseded = @ \/ result] BY <2>1, <3>2
      <4> HIDE DEF p
      <4> QED BY <4>1, <4>2, <4>3, SupersededIs
    <3> QED BY <3>1, <3>2
  <2> QED BY <1>4, <2>1, <2>2, NothingLeft DEF PollLeft, PollOK
<1> QED BY <1>2, <1>3, <1>4

\* A reload ends: with the text it replaces goes what was typed, and is counted.
LEMMA Loaded == IInv /\ LoadOpenFileStateFromDisk => IInv'
<1> SUFFICES ASSUME IInv, LoadOpenFileStateFromDisk PROVE IInv' OBVIOUS
<1> DEFINE result == reload.found.kind # "none" /\ ~reload.found.missing
           replaced == result \/ (reload.found.missing /\ ~Dirty(doc))
<1>1. /\ TypesOK /\ PollOK(poll, reload) /\ CloseOK(close, owner) /\ disk \in DiskType
      /\ EditOK(unsaved, doc, owner, close) /\ TimesOK(disk, shown, doc, owner, reload)
      /\ doc \in DocType /\ owner \in OwnerType /\ reload \in ReloadType /\ close \in CloseType
      /\ unsaved \in Nat /\ shown \subseteq Nat /\ damage \subseteq {"reload", "clean", "close"}
  BY DEF IInv, TypesOK
<1>2. /\ reload.stage = "loaded"
      /\ timer' = (timer /\ reload.found.kind = "none")
      /\ UNCHANGED <<disk, prompt, ack, autosave, texts>>
  BY DEF LoadOpenFileStateFromDisk
<1>3. OwnerGoesOn(result, replaced) /\ PollGoesOn(result, replaced) BY DEF LoadOpenFileStateFromDisk
<1>4. Replaces \/ FindsMissing \/ UNCHANGED <<doc, shown, unsaved, damage>>
  BY DEF LoadOpenFileStateFromDisk
<1>5. result \in BOOLEAN OBVIOUS
<1> HIDE DEF result, replaced
<1>6. OwnerLeft BY <1>1, <1>3, <1>5, OwnerGoes
<1>7. PollLeft BY <1>1, <1>3, <1>5, PollGoes
<1>8. /\ doc' \in DocType /\ Stays
      /\ shown \subseteq shown' /\ shown' \subseteq Nat
      /\ doc'.kind = "text" => \/ doc.kind = "text" /\ doc'.mtime = doc.mtime
                               \/ doc'.mtime > 0 /\ Known(doc'.mtime, disk, shown')
  <2>1. CASE Replaces BY <1>2, <2>1, Replaced
  <2>2. CASE FindsMissing BY <1>1, <2>2, MissingIs
  <2>3. CASE UNCHANGED <<doc, shown, unsaved, damage>>
    <3>1. unsaved = Nothing \/ close = "closed" \/ unsaved = doc.content BY <1>1 DEF EditOK
    <3> QED BY <1>1, <2>3, <3>1 DEF Stays
  <2> QED BY <1>4, <2>1, <2>2, <2>3
<1>9. /\ owner' \in OwnerType /\ CloseOK(close', owner') /\ close' \in CloseType
      /\ close' = "closed" <=> close = "closed"
      /\ Carries(owner', owner) \/ (owner.phase # "writing" /\ owner'.phase # "writing")
  BY <1>1, <1>6 DEF OwnerLeft, Resolves
<1>10. TypesOK' BY <1>1, <1>2, <1>7, <1>8, <1>9 DEF TypesOK, PollLeft, Stays
<1>11. EditOK(unsaved', doc', owner', close')
  BY <1>1, <1>8, <1>9 DEF EditOK, Carries, Stays
<1>12. TimesOK(disk, shown', doc, owner, reload) BY <1>1, <1>8, LaterDisk
<1>13. TimesOK(disk, shown', doc', owner, reload) BY <1>8, <1>12 DEF TimesOK
<1>14. TimesOK(disk, shown', doc', owner', reload) BY <1>9, <1>13, TimesCarried, TimesIdle
<1>15. TimesOK(disk, shown', doc', owner', reload') BY <1>7, <1>14, TimesOfReload DEF PollLeft
<1> QED BY <1>2, <1>7, <1>9, <1>10, <1>11, <1>15 DEF IInv, PollLeft

-----------------------------------------------------------------------------
(* The poll.                                                                *)

\* A poll takes the state and what is on disk.
LEMMA PollBegins == IInv /\ RefreshOpenFilesIfChanged => IInv'
<1> SUFFICES ASSUME IInv, RefreshOpenFilesIfChanged PROVE IInv' OBVIOUS
<1>1. disk \in DiskType BY DEF IInv, TypesOK
<1>2. /\ poll' = [stage |-> "listed", entry |-> disk, holds |-> "current", frozen |-> NoDocument,
                  superseded |-> FALSE, safe |-> TRUE]
      /\ UNCHANGED <<disk, doc, prompt, close, timer, ack, owner, reload, autosave, texts, unsaved,
                     damage, shown>>
  BY DEF RefreshOpenFilesIfChanged, historyVars
<1>3. poll' \in PollingType /\ poll'.stage = "listed" BY <1>1, <1>2, StatesAre DEF PollingType
<1>4. poll' \in PollType BY <1>3 DEF PollType
<1>5. TypesOK' BY <1>2, <1>4 DEF IInv, TypesOK
<1>6. PollOK(poll', reload') BY <1>3 DEF PollOK
<1> QED BY <1>2, <1>5, <1>6 DEF IInv

\* The parts of a step of the poll: the text in the editor, the save and the dialogs stay.
LEMMA PollStep ==
  ASSUME IInv, UNCHANGED <<disk, prompt, close, ack, owner, autosave, texts, shown, damage, unsaved>>,
         timer' \in BOOLEAN, doc' = doc \/ Retouched(doc', doc),
         poll' \in PollType, reload' = reload \/ Begun(reload', reload),
         poll'.stage \in {"joined", "reloading"} => reload'.stage # "none"
  PROVE  IInv'
<1>1. /\ prompt \in BOOLEAN /\ texts \in Nat /\ unsaved \in Nat /\ doc \in DocType /\ owner \in OwnerType
      /\ ack \in [mtime : Nat, pending : BOOLEAN] /\ damage \subseteq {"reload", "clean", "close"}
      /\ close \in CloseType /\ CloseOK(close, owner) /\ EditOK(unsaved, doc, owner, close)
  BY DEF IInv, TypesOK
<1>2. /\ doc' \in DocType /\ doc'.content = doc.content /\ doc'.kind = doc.kind
      /\ doc'.mtime = doc.mtime
  BY <1>1 DEF Retouched
<1>3. EditOK(unsaved, doc', owner, close) BY <1>1, <1>2 DEF EditOK
<1>4. Carries(owner, owner) BY DEF Carries
<1> QED BY <1>1, <1>2, <1>3, <1>4, PageStep

\* What a poll writes into the state it has taken reaches the editor if that is its state still.
LEMMA PolledIs ==
  ASSUME NEW STATE d, NEW STATE e, doc \in DocType, poll.holds = "current" => d = doc,
         Retouched(e, d), Polled(e)
  PROVE  doc' = doc \/ Retouched(doc', doc)
<1> QED BY DEF Polled

\* The poll judges what it has listed: what is typed stays.
LEMMA PollHandles == IInv /\ RefreshOpenFileFromFetchedStatus => IInv'
<1> SUFFICES ASSUME IInv, RefreshOpenFileFromFetchedStatus PROVE IInv' OBVIOUS
<1> DEFINE d == IF poll.holds = "current" THEN doc ELSE poll.frozen
<1>1. /\ TypesOK /\ poll \in PollType /\ doc \in DocType /\ timer \in BOOLEAN
      /\ reload \in ReloadType
  BY DEF IInv, TypesOK
<1>2. /\ poll.stage = "listed"
      /\ UNCHANGED <<disk, prompt, close, ack, owner, autosave, texts, shown, damage, unsaved>>
  BY DEF RefreshOpenFileFromFetchedStatus, PollLeaves
<1>3. poll \in PollingType BY <1>1, <1>2, PollFields
<1>4. /\ poll.frozen \in DocType /\ poll.entry.mtime \in Nat /\ poll.safe = TRUE
  BY <1>3 DEF PollingType, DiskType
<1>5. d \in DocType /\ (poll.holds = "current" => d = doc) BY <1>1, <1>4
<1>6. \/ PollEntryMissing(d) \/ (poll' = NoPoll /\ UNCHANGED <<doc, timer, reload>>)
      \/ PollUnchanged(d) \/ PollDirty(d) \/ PollDefers(d) \/ (~Dirty(d) /\ PollReloads(d))
  BY DEF RefreshOpenFileFromFetchedStatus
<1> HIDE DEF d
<1>7. CASE PollEntryMissing(d)
  <2>1. /\ UNCHANGED <<doc, timer, reload>>
        /\ \/ poll' = NoPoll
           \/ poll' = [poll EXCEPT !.stage = "confirming", !.superseded = FALSE]
    BY <1>7 DEF PollEntryMissing
  <2>2. poll' \in PollType /\ poll'.stage \in {"none", "confirming"}
    BY <1>3, <2>1, NothingLeft DEF PollType, PollingType
  <2> QED BY <1>1, <1>2, <2>1, <2>2, PollStep
<1>8. CASE poll' = NoPoll /\ UNCHANGED <<doc, timer, reload>>
  BY <1>1, <1>2, <1>8, NothingLeft, PollStep
<1>9. CASE PollUnchanged(d)
  <2> DEFINE changed == IF Dirty(d) THEN d.changed ELSE NoChange
             prompted == d.prompted /\ Dirty(d)
             e == [d EXCEPT !.missing = FALSE, !.error = FALSE, !.changed = changed,
                            !.prompted = prompted]
  <2>1. changed \in Nat /\ prompted \in BOOLEAN BY <1>5 DEF DocType, NoChange
  <2>2. Polled(IF Marked(d) THEN e ELSE d) /\ poll' = NoPoll /\ UNCHANGED reload
    BY <1>9 DEF PollUnchanged
  <2>3. timer' \in BOOLEAN BY <1>1, <1>9, ReadyIsBoolean DEF PollUnchanged
  <2> HIDE DEF changed, prompted
  <2>4. Retouched(e, d) BY <1>5, <2>1 DEF Retouched, DocType
  <2>5. Retouched(d, d) BY <1>5 DEF Retouched
  <2> HIDE DEF e
  <2>6. doc' = doc \/ Retouched(doc', doc)
    BY <1>1, <1>5, <2>2, <2>4, <2>5 DEF Polled
  <2> QED BY <1>2, <2>2, <2>3, <2>6, NothingLeft, PollStep
<1>10. Retouched(Noted(d), d) BY <1>4, <1>5 DEF Retouched, Noted, DocType
<1>11. CASE PollDirty(d)
  <2>1. /\ UNCHANGED reload /\ poll' = NoPoll
        /\ \/ UNCHANGED <<doc, timer>>
           \/ Polled(Noted(d)) /\ timer' = FALSE
    BY <1>11 DEF PollDirty
  <2>2. doc' = doc \/ Retouched(doc', doc) BY <1>5, <1>10, <2>1 DEF Polled
  <2> QED BY <1>1, <1>2, <2>1, <2>2, NothingLeft, PollStep
<1>12. CASE PollDefers(d)
  <2>1. Polled(Noted(d)) /\ poll' = NoPoll /\ UNCHANGED <<timer, reload>>
    BY <1>12 DEF PollDefers
  <2>2. doc' = doc \/ Retouched(doc', doc) BY <1>5, <1>10, <2>1 DEF Polled
  <2> QED BY <1>1, <1>2, <2>1, <2>2, NothingLeft, PollStep
<1>13. CASE ~Dirty(d) /\ PollReloads(d)
  <2>1. Safe(d) = TRUE BY <1>13 DEF Safe
  <2>2. /\ reload' = IF reload.stage = "none" THEN Reloading(poll.entry.mtime, Safe(d)) ELSE reload
        /\ poll' = [poll EXCEPT !.stage = IF reload.stage = "none" THEN "reloading" ELSE "joined",
                                !.safe = Safe(d)]
        /\ UNCHANGED <<doc, timer>>
    BY <1>13 DEF PollReloads, ReplaceOpenFileStateFromDisk
  <2>3. reload' = IF reload.stage = "none" THEN Reloading(poll.entry.mtime, TRUE) ELSE reload
    BY <2>1, <2>2
  <2>4. Begun(reload', reload) BY <1>1, <1>4, <2>3, ReloadBegins
  <2> DEFINE stage == IF reload.stage = "none" THEN "reloading" ELSE "joined"
  <2>5. poll' = [poll EXCEPT !.stage = stage, !.safe = TRUE] BY <2>1, <2>2
  <2>6. stage \in {"joined", "reloading"} OBVIOUS
  <2> HIDE DEF stage
  <2>7. poll' \in PollingType BY <1>3, <2>5, <2>6 DEF PollingType
  <2>8. poll' \in PollType BY <2>7 DEF PollType
  <2>9. reload'.stage # "none" BY <2>4 DEF Begun
  <2> QED BY <1>1, <1>2, <2>2, <2>4, <2>8, <2>9, PollStep
<1> QED BY <1>6, <1>7, <1>8, <1>9, <1>11, <1>12, <1>13

\* The poll confirms that the file is missing.
LEMMA MissingResolved == IInv /\ ResolveOpenFileMissingVerdict => IInv'
<1> SUFFICES ASSUME IInv, ResolveOpenFileMissingVerdict PROVE IInv' OBVIOUS
<1>1. /\ TypesOK /\ CloseOK(close, owner) /\ EditOK(unsaved, doc, owner, close)
      /\ doc \in DocType /\ owner \in OwnerType /\ close \in CloseType /\ unsaved \in Nat
      /\ damage \subseteq {"reload", "clean", "close"} /\ timer \in BOOLEAN /\ prompt \in BOOLEAN
      /\ ack \in [mtime : Nat, pending : BOOLEAN] /\ texts \in Nat /\ Nothing \in Nat
  BY DEF IInv, TypesOK, Nothing
<1>2. /\ poll' = NoPoll
      /\ UNCHANGED <<disk, prompt, close, ack, reload, autosave, texts>>
      /\ \/ UNCHANGED <<doc, timer, owner, shown, unsaved, damage>>
         \/ FindsMissing /\ timer' = FALSE /\ owner' \in {owner, Detached(owner)}
  BY DEF ResolveOpenFileMissingVerdict
<1>3. CASE UNCHANGED <<doc, timer, owner, shown, unsaved, damage>>
  BY <1>1, <1>2, <1>3, NothingLeft, PollStep
<1>4. CASE FindsMissing /\ timer' = FALSE /\ owner' \in {owner, Detached(owner)}
  <2>1. /\ doc' \in DocType /\ shown' = shown /\ Stays
        /\ doc'.kind = "text" => doc.kind = "text" /\ doc'.mtime = doc.mtime
    BY <1>1, <1>4, MissingIs
  <2>2. /\ owner' \in OwnerType /\ Carries(owner', owner) /\ owner'.phase = owner.phase
        /\ owner.phase # "none" => /\ owner'.request = owner.request
                                   /\ owner'.pending = owner.pending
    <3>1. Carries(owner, owner) BY DEF Carries
    <3> QED BY <1>1, <1>4, <3>1, DetachedIs
  <2>3. CloseOK(close, owner') BY <1>1, <2>2 DEF CloseOK
  <2>4. EditOK(unsaved', doc', owner', close) BY <1>1, <2>1, <2>2 DEF EditOK, Carries, Stays
  <2>5. unsaved' \in Nat /\ damage' \subseteq {"reload", "clean", "close"} BY <2>1 DEF Stays
  <2> QED BY <1>1, <1>2, <1>4, <2>1, <2>2, <2>3, <2>4, <2>5, NothingLeft, PageStep
<1> QED BY <1>2, <1>3, <1>4

\* The listing of the poll fails.
LEMMA PollsFail == IInv /\ PollFails => IInv'
<1> SUFFICES ASSUME IInv, PollFails PROVE IInv' OBVIOUS
<1>1. doc \in DocType BY DEF IInv, TypesOK
<1>2. /\ poll' = NoPoll /\ timer' = FALSE
      /\ doc' = IF doc.kind = "none" THEN doc ELSE [doc EXCEPT !.error = TRUE]
      /\ UNCHANGED <<disk, prompt, close, ack, owner, autosave, texts, shown, damage, unsaved, reload>>
  BY DEF PollFails, PollLeaves
<1>3. doc' = doc \/ Retouched(doc', doc) BY <1>1, <1>2 DEF Retouched, DocType
<1> QED BY <1>2, <1>3, NothingLeft, PollStep

\* The command palette finds the file again.
LEMMA Recovers == IInv /\ RecoverOpenFileAfterMissing => IInv'
<1> SUFFICES ASSUME IInv, RecoverOpenFileAfterMissing PROVE IInv' OBVIOUS
<1>1. /\ TypesOK /\ doc \in DocType /\ poll \in PollType /\ PollOK(poll, reload)
      /\ reload \in ReloadType /\ disk.mtime \in Nat
  BY DEF IInv, TypesOK, DiskType
<1>2. /\ timer' = FALSE
      /\ UNCHANGED <<disk, prompt, close, ack, owner, autosave, texts, shown, damage, poll, unsaved>>
  BY DEF RecoverOpenFileAfterMissing, PollLeaves
<1>3. CASE Dirty(doc)
  <2>1. /\ doc' = [doc EXCEPT !.changed = disk.mtime, !.missing = FALSE, !.error = FALSE,
                              !.prompted = FALSE]
        /\ UNCHANGED reload
    BY <1>3 DEF RecoverOpenFileAfterMissing
  <2>2. Retouched(doc', doc) BY <1>1, <2>1 DEF Retouched, DocType
  <2> QED BY <1>1, <1>2, <2>1, <2>2, PollStep DEF PollOK
<1>4. CASE ~Dirty(doc)
  <2>1. /\ doc' = doc
        /\ reload' = IF reload.stage = "none" THEN Reloading(disk.mtime, Safe(doc)) ELSE reload
    BY <1>4 DEF RecoverOpenFileAfterMissing, ReplaceOpenFileStateFromDisk
  <2>2. Safe(doc) = TRUE BY <1>4 DEF Safe
  <2>3. reload' = IF reload.stage = "none" THEN Reloading(disk.mtime, TRUE) ELSE reload
    BY <2>1, <2>2
  <2>4. Begun(reload', reload) BY <1>1, <2>3, ReloadBegins
  <2>5. reload'.stage # "none" BY <2>4 DEF Begun
  <2> QED BY <1>1, <1>2, <2>1, <2>4, <2>5, PollStep
<1> QED BY <1>3, <1>4

-----------------------------------------------------------------------------
(* Closing.                                                                 *)

\* The tab goes only when no save is waited for, and what it takes along is counted.
LEMMA CloseStep ==
  ASSUME IInv, Closes, close = "confirmed" \/ (close = "open" /\ ~Dirty(doc))
  PROVE  IInv'
<1>1. /\ TypesOK /\ CloseOK(close, owner) /\ EditOK(unsaved, doc, owner, close)
      /\ PollOK(poll, reload) /\ owner \in OwnerType /\ unsaved \in Nat
      /\ damage \subseteq {"reload", "clean", "close"} /\ prompt \in BOOLEAN /\ texts \in Nat
      /\ ack \in [mtime : Nat, pending : BOOLEAN]
  BY DEF IInv, TypesOK
<1>2. /\ close' = "closed" /\ doc' = NoDocument /\ timer' = FALSE /\ owner' = Detached(owner)
      /\ poll' = Released(poll)
      /\ UNCHANGED <<disk, prompt, ack, reload, autosave, texts, shown>>
      /\ \/ unsaved' = Nothing /\ damage' = damage \cup {"close"}
         \/ /\ unsaved' = unsaved /\ damage' = damage
            /\ unsaved # Nothing => owner.phase = "writing" /\ owner.text = unsaved
  BY DEF Closes
<1>3. /\ owner' \in OwnerType /\ Carries(owner', owner) /\ owner'.phase = owner.phase
      /\ owner.phase # "none" => /\ owner'.request = owner.request
                                 /\ owner'.pending = owner.pending
  BY <1>1, <1>2, DetachedIs
<1>4. CloseOK(close', owner') BY <1>1, <1>2, <1>3 DEF CloseOK
<1>5. poll' \in PollType /\ poll'.stage = poll.stage BY <1>1, <1>2, ReleasedIs
<1>6. damage' \subseteq {"reload", "clean", "close"} /\ unsaved' \in Nat
  <2>1. damage' \in {damage, damage \cup {"close"}} /\ unsaved' \in {unsaved, Nothing}
    BY <1>2
  <2>2. damage' \subseteq {"reload", "clean", "close"} BY <1>1, <2>1
  <2>3. unsaved' \in Nat BY <1>1, <2>1 DEF Nothing
  <2> QED BY <2>2, <2>3
<1>7. EditOK(unsaved', doc', owner', close') BY <1>1, <1>2, <1>3 DEF EditOK, Carries
<1>8. doc' \in DocType /\ doc'.kind # "text" BY <1>2, StatesAre
<1>9. close' \in CloseType BY <1>2 DEF CloseType
<1> QED BY <1>1, <1>2, <1>3, <1>4, <1>5, <1>6, <1>7, <1>8, <1>9, PageStep

\* The dialog of a close and what it is answered leave everything but the owner and what is given up.
LEMMA CloseAsked ==
  ASSUME IInv, UNCHANGED <<disk, doc, prompt, timer, ack, reload, poll, autosave, texts, damage, shown>>,
         close # "closed", close' \in CloseType \ {"closed"}, unsaved' \in {unsaved, Nothing},
         owner' \in OwnerType, Carries(owner', owner), CloseOK(close', owner')
  PROVE  IInv'
<1>1. /\ TypesOK /\ PollOK(poll, reload) /\ EditOK(unsaved, doc, owner, close)
      /\ TimesOK(disk, shown, doc, owner, reload) /\ unsaved \in Nat
  BY DEF IInv, TypesOK
<1>2. unsaved' \in Nat BY <1>1 DEF Nothing
<1>3. TypesOK' BY <1>1, <1>2 DEF TypesOK
<1>4. EditOK(unsaved', doc, owner', close') BY <1>1 DEF EditOK, Carries
<1>5. TimesOK(disk, shown, doc, owner', reload) BY <1>1, TimesCarried
<1> QED BY <1>1, <1>3, <1>4, <1>5 DEF IInv

\* A request that the close waits for.
LEMMA CloseSaves ==
  ASSUME TypesOK, CloseOK(close, owner), close \notin {"saving", "asked"},
         QueueFileEditorSave(Request(FALSE, TRUE))
  PROVE  /\ owner' \in OwnerType /\ Carries(owner', owner)
         /\ CloseOK("saving", owner') /\ CloseOK("asked", owner')
<1> DEFINE q == Request(FALSE, TRUE)
<1>1. q \in RequestType /\ q.asked /\ q.closes BY RequestIs
<1>2. QueueFileEditorSave(q) /\ owner \in OwnerType BY DEF TypesOK
<1> HIDE DEF q
<1> QED BY <1>1, <1>2, QueuedIs

\* The close of a dirty file saves or asks.
LEMMA Confirms == IInv /\ ConfirmDirtyFileClose => IInv'
<1> SUFFICES ASSUME IInv, ConfirmDirtyFileClose PROVE IInv' OBVIOUS
<1>1. TypesOK /\ CloseOK(close, owner) /\ owner \in OwnerType BY DEF IInv, TypesOK
<1>2. /\ close = "open"
      /\ UNCHANGED <<disk, doc, prompt, timer, ack, reload, poll, autosave, texts, unsaved, damage,
                     shown>>
      /\ \/ close' = "saving" /\ QueueFileEditorSave(Request(FALSE, TRUE))
         \/ close' = "asking" /\ owner' = owner
  BY DEF ConfirmDirtyFileClose, historyVars
<1>3. /\ owner' \in OwnerType /\ Carries(owner', owner) /\ CloseOK(close', owner')
      /\ close' \in {"saving", "asking"}
  <2>1. CASE close' = "saving" /\ QueueFileEditorSave(Request(FALSE, TRUE))
    BY <1>1, <1>2, <2>1, CloseSaves
  <2>2. CASE close' = "asking" /\ owner' = owner BY <1>1, <1>2, <2>2 DEF Carries, CloseOK
  <2> QED BY <1>2, <2>1, <2>2
<1>4. close' \in CloseType \ {"closed"} /\ close # "closed" BY <1>2, <1>3 DEF CloseType
<1> QED BY <1>2, <1>3, <1>4, CloseAsked

\* The dialog of the close is answered.
LEMMA AnswersClose ==
  ASSUME IInv, NEW choice, AnswerClose(choice)
  PROVE  IInv'
<1>1. TypesOK /\ CloseOK(close, owner) /\ owner \in OwnerType BY DEF IInv, TypesOK
<1>2. /\ close = "asking"
      /\ UNCHANGED <<disk, doc, prompt, timer, ack, reload, poll, autosave, texts, damage, shown>>
      /\ \/ close' = "asked" /\ QueueFileEditorSave(Request(FALSE, TRUE)) /\ unsaved' = unsaved
         \/ close' = "confirmed" /\ unsaved' = Nothing /\ owner' = owner
         \/ close' = "open" /\ owner' = owner /\ unsaved' = unsaved
  BY DEF AnswerClose, GivesUp
<1>3. /\ owner' \in OwnerType /\ Carries(owner', owner) /\ CloseOK(close', owner')
      /\ close' \in {"asked", "confirmed", "open"}
  <2>1. CASE close' = "asked" /\ QueueFileEditorSave(Request(FALSE, TRUE))
    BY <1>1, <1>2, <2>1, CloseSaves
  <2>2. CASE close' \in {"confirmed", "open"} /\ owner' = owner
    BY <1>1, <1>2, <2>2 DEF Carries, CloseOK
  <2> QED BY <1>2, <2>1, <2>2
<1>4. close' \in CloseType \ {"closed"} /\ close # "closed" BY <1>2, <1>3 DEF CloseType
<1>5. unsaved' \in {unsaved, Nothing} BY <1>2
<1> QED BY <1>2, <1>3, <1>4, <1>5, CloseAsked

\* A clean tab is closed.
LEMMA Removes == IInv /\ RemoveOpenFile => IInv'
<1> QED BY CloseStep DEF RemoveOpenFile

\* A confirmed close takes place.
LEMMA Finishes == IInv /\ FinishClose => IInv'
<1> QED BY CloseStep DEF FinishClose

-----------------------------------------------------------------------------
(* The theorems.                                                            *)

\* The parts hold at first.
LEMMA Begins == FileInit => IInv
<1> SUFFICES ASSUME FileInit PROVE IInv OBVIOUS
<1>1. /\ disk = [there |-> TRUE, text |-> 1, mtime |-> 2] /\ doc = TextState(1, 2)
      /\ prompt = FALSE /\ close = "open" /\ timer = FALSE /\ ack = NoAck /\ owner = NoOwner
      /\ reload = NoReload /\ poll = NoPoll /\ autosave \in BOOLEAN /\ texts = 1
      /\ unsaved = Nothing /\ damage = {} /\ shown = {1}
  BY DEF FileInit, FirstTime
<1>2. /\ doc \in DocType /\ doc.kind = "text" /\ doc.mtime = 2 BY <1>1, TextStateIs
<1>3. disk \in DiskType BY <1>1 DEF DiskType
<1>4. /\ owner \in OwnerType /\ owner.phase = "none" BY <1>1, NoOwnerIs, IdleIs
<1>5. reload.stage = "none" /\ poll.stage = "none" /\ reload \in ReloadType /\ poll \in PollType
  BY <1>1, NothingLeft
<1>6. TypesOK
  <2>1. prompt \in BOOLEAN /\ timer \in BOOLEAN /\ autosave \in BOOLEAN /\ close \in CloseType
    BY <1>1 DEF CloseType
  <2>2. ack \in [mtime : Nat, pending : BOOLEAN] BY <1>1, NoAckIs
  <2>3. texts \in Nat /\ unsaved \in Nat /\ damage \subseteq {"reload", "clean", "close"} /\ shown \subseteq Nat
    BY <1>1 DEF Nothing
  <2> QED BY <1>2, <1>3, <1>4, <1>5, <2>1, <2>2, <2>3 DEF TypesOK
<1>7. PollOK(poll, reload) BY <1>5 DEF PollOK
<1>8. CloseOK(close, owner) BY <1>1, <1>4 DEF CloseOK
<1>9. EditOK(unsaved, doc, owner, close) BY <1>1 DEF EditOK
<1>10. TimesOK(disk, shown, doc, owner, reload) BY <1>1, <1>2, <1>4, <1>5 DEF TimesOK, Known
<1> QED BY <1>6, <1>7, <1>8, <1>9, <1>10 DEF IInv

\* Every step keeps the parts.
LEMMA Steps == IInv /\ [FileNext]_fileVars => IInv'
<1> SUFFICES ASSUME IInv, [FileNext]_fileVars PROVE IInv' OBVIOUS
<1>1. CASE UNCHANGED fileVars
  BY <1>1 DEF fileVars, pageState, historyVars, IInv, TypesOK
<1>2. CASE ExternalWrite \/ ExternalDelete \/ WriteFileChecks \/ WriteFileWrites
  BY <1>2, OthersWrite, OthersDelete, SaveChecks, SaveWrites
<1>3. CASE HandleFileEditorContentChanged \/ ReloadOpenFileFromDisk \/ SaveFileEditor
           \/ AutoSaveFileEditor \/ PerformFileEditorSave
  BY <1>3, Edits, Reloads, Saves, AutoSaves, Performs
<1>4. CASE SaveAnswered \/ SaveRefused \/ SaveFails \/ AckExpires
  BY <1>4, Answers, Refused, Fails, Expires
<1>5. CASE ListDirectory \/ ReadFile \/ ReadFails \/ LoadOpenFileStateFromDisk
  BY <1>5, Lists, Reads, ReadsFail, Loaded
<1>6. CASE \/ RefreshOpenFilesIfChanged \/ RefreshOpenFileFromFetchedStatus
           \/ ResolveOpenFileMissingVerdict \/ PollFails \/ RecoverOpenFileAfterMissing
  BY <1>6, PollBegins, PollHandles, MissingResolved, PollsFail, Recovers
<1>7. CASE RemoveOpenFile \/ ConfirmDirtyFileClose \/ FinishClose
  BY <1>7, Removes, Confirms, Finishes
<1>8. CASE \E choice \in {"reload", "dismiss"} : PromptExternalChange(choice) BY <1>8, Prompted
<1>9. CASE \E choice \in {"overwrite", "reload", "cancel"} : ResolveConflict(choice)
  BY <1>9, Conflicts
<1>10. CASE \E choice \in {"save", "discard", "cancel"} : AnswerClose(choice) BY <1>10, AnswersClose
<1> QED BY <1>1, <1>2, <1>3, <1>4, <1>5, <1>6, <1>7, <1>8, <1>9, <1>10 DEF FileNext

\* The parts hold in every reachable state of the specification.
THEOREM Invariance == FileSpec => []IInv
<1> QED BY Begins, Steps, PTL DEF FileSpec

\* The variables keep to their values, and a poll that waits for a reload has one to wait for.
THEOREM PollHasItsReload == FileSpec => []FileTypeOK
<1>1. IInv => FileTypeOK
  <2> SUFFICES ASSUME IInv PROVE FileTypeOK OBVIOUS
  <2>1. TypesOK /\ PollOK(poll, reload) BY DEF IInv
  <2>2. owner.phase \in {"none", "due", "writing", "asking", "reloading", "keeping"}
    BY <2>1, OwnerFields DEF TypesOK
  <2>3. reload.stage \in {"none", "listing", "reading", "confirming", "loaded"}
    <3>1. reload = NoReload \/ reload \in LoadingType BY <2>1 DEF TypesOK, ReloadType
    <3> QED BY <3>1, NothingLeft DEF LoadingType
  <2>4. poll.stage \in {"none", "listed", "confirming", "joined", "reloading"}
    <3>1. poll = NoPoll \/ poll \in PollingType BY <2>1 DEF TypesOK, PollType
    <3> QED BY <3>1, NothingLeft DEF PollingType
  <2> QED BY <2>1, <2>2, <2>3, <2>4 DEF TypesOK, PollOK, FileTypeOK, DiskType, DocType, CloseType
<1> QED BY <1>1, Invariance, PTL

\* What was typed last is in the editor, in a save under way, on disk or given up, but for the three
\* losses that damage names.
THEOREM EditIsKept == FileSpec => []NoEditLost
<1>1. IInv => NoEditLost BY DEF IInv, EditOK, NoEditLost
<1> QED BY <1>1, Invariance, PTL

\* A close that has been told to save is known to a request.
THEOREM CloseIsResolved == FileSpec => []CloseIsAwaited
<1>1. IInv => CloseIsAwaited BY DEF IInv, CloseOK, CloseIsAwaited
<1> QED BY <1>1, Invariance, PTL

\* Only the check of the server turns a save that was sent into one that has emptied the file.
LEMMA OnlyTheCheck ==
  ASSUME IInv, [FileNext]_fileVars, Truncates
  PROVE  WriteFileChecks
<1>1. /\ owner.phase = "writing" /\ owner.stage = "sent"
      /\ owner'.phase = "writing" /\ owner'.stage = "truncated"
  BY DEF Truncates
<1>2. /\ TypesOK /\ CloseOK(close, owner) /\ owner \in OwnerType /\ PollOK(poll, reload)
      /\ owner # owner' /\ ~Carries(owner', owner) /\ ~Resolves(owner', close')
  BY <1>1 DEF IInv, TypesOK, Carries, Resolves
<1>3. CASE UNCHANGED fileVars BY <1>2, <1>3 DEF fileVars, pageState
<1>4. CASE \/ ExternalWrite \/ ExternalDelete \/ HandleFileEditorContentChanged
           \/ ReloadOpenFileFromDisk
           \/ \E choice \in {"reload", "dismiss"} : PromptExternalChange(choice)
  BY <1>2, <1>4 DEF ExternalWrite, ExternalDelete, Others, pageState,
     HandleFileEditorContentChanged, Type, ReloadOpenFileFromDisk, PromptExternalChange
<1>5. CASE \/ AckExpires \/ ListDirectory \/ ReadFile \/ ReadFails \/ RefreshOpenFilesIfChanged
           \/ RefreshOpenFileFromFetchedStatus \/ PollFails \/ RecoverOpenFileAfterMissing
  BY <1>2, <1>5 DEF AckExpires, ListDirectory, ReadFile, ReadFails, Loads,
     RefreshOpenFilesIfChanged, RefreshOpenFileFromFetchedStatus, PollFails,
     RecoverOpenFileAfterMissing, PollLeaves
<1>6. CASE \/ WriteFileWrites \/ PerformFileEditorSave \/ SaveAnswered \/ SaveRefused
           \/ \E choice \in {"overwrite", "reload", "cancel"} : ResolveConflict(choice)
  BY <1>1, <1>6 DEF WriteFileWrites, PerformFileEditorSave, SaveAnswered, SaveRefused,
     ResolveConflict
<1>7. \A closes \in BOOLEAN : ~QueueFileEditorSave(Request(FALSE, closes))
  <2> SUFFICES ASSUME NEW closes \in BOOLEAN, QueueFileEditorSave(Request(FALSE, closes))
               PROVE  FALSE
    OBVIOUS
  <2> DEFINE q == Request(FALSE, closes)
  <2>1. q \in RequestType /\ q.asked /\ QueueFileEditorSave(q) BY RequestIs
  <2> HIDE DEF q
  <2> QED BY <1>2, <2>1, QueuedIs
<1>8. CASE \/ SaveFileEditor \/ AutoSaveFileEditor \/ ConfirmDirtyFileClose
           \/ \E choice \in {"save", "discard", "cancel"} : AnswerClose(choice)
  BY <1>2, <1>7, <1>8 DEF SaveFileEditor, AutoSaveFileEditor, ConfirmDirtyFileClose, AnswerClose
<1>9. CASE SaveFails
  <2>1. /\ close' = Resolved(owner.request, FALSE)
        /\ owner.pending.asked => owner' = Due(owner.pending)
        /\ ~owner.pending.asked => owner' = NoOwner \/ owner' = Due(Request(FALSE, FALSE))
    BY <1>9 DEF SaveFails, Settles
  <2> QED BY <1>1, <1>2, <2>1, SettlesIs
<1>10. CASE LoadOpenFileStateFromDisk
  <2> DEFINE result == reload.found.kind # "none" /\ ~reload.found.missing
             replaced == result \/ (reload.found.missing /\ ~Dirty(doc))
  <2>1. OwnerGoesOn(result, replaced) BY <1>10 DEF LoadOpenFileStateFromDisk
  <2>2. result \in BOOLEAN OBVIOUS
  <2> HIDE DEF result, replaced
  <2>3. OwnerLeft BY <1>2, <2>1, <2>2, OwnerGoes
  <2> QED BY <1>1, <1>2, <2>3 DEF OwnerLeft
<1>11. CASE ResolveOpenFileMissingVerdict \/ RemoveOpenFile \/ FinishClose
  <2>1. owner' = owner \/ owner' = Detached(owner)
    BY <1>11 DEF ResolveOpenFileMissingVerdict, RemoveOpenFile, FinishClose, Closes
  <2> QED BY <1>2, <2>1, DetachedIs
<1> QED BY <1>3, <1>4, <1>5, <1>6, <1>8, <1>9, <1>10, <1>11 DEF FileNext

\* A save overwrites only what the page has seen, unless the user chose to overwrite.
THEOREM SeenBeforeOverwritten == FileSpec => OverwritesOnlyTheSeen
<1>1. IInv /\ [FileNext]_fileVars
        => [Truncates => ~disk.there \/ disk.text \in shown \/ owner.request.force]_fileVars
  <2> SUFFICES ASSUME IInv, [FileNext]_fileVars, Truncates, disk.there, ~owner.request.force
               PROVE  disk.text \in shown
    OBVIOUS
  <2>1. WriteFileChecks BY OnlyTheCheck
  <2>2. /\ owner.phase = "writing" /\ owner.stage = "sent" /\ owner'.stage = "truncated"
    BY DEF Truncates
  <2>3. TimesOK(disk, shown, doc, owner, reload) /\ owner \in OwnerType BY DEF IInv, TypesOK
  <2>4. owner.expected > 0 /\ Known(owner.expected, disk, shown) BY <2>2, <2>3 DEF TimesOK
  <2>5. owner \in WritingType BY <2>2, <2>3, OwnerFields
  <2>6. owner.expected \in {AnyTime, disk.mtime}
    <3>1. ASSUME owner.expected \notin {AnyTime, disk.mtime} PROVE FALSE
      <4>1. owner' = [owner EXCEPT !.stage = "refused"] BY <2>1, <3>1 DEF WriteFileChecks
      <4>2. owner'.stage = "refused" BY <2>5, <4>1 DEF WritingType
      <4> QED BY <2>2, <4>2
    <3> QED BY <3>1
  <2> QED BY <2>4, <2>6 DEF AnyTime, Known
<1> QED BY <1>1, Invariance, PTL DEF FileSpec, OverwritesOnlyTheSeen
=============================================================================
