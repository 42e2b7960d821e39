------------------------- MODULE ClientEventsProofs -------------------------
(***************************************************************************)
(* What ClientEvents guarantees for any windows, demands and number of     *)
(* faults, restarts and turns.                                             *)
(*                                                                         *)
(* That the page's copy is as new as its revision says needs more than     *)
(* the base check: what a stream still holds belongs to the server process *)
(* that wrote it and is read from its ready on; a repair is of the process *)
(* the page has adopted and its read is as new as what it repairs; and no  *)
(* copy is unspoiled beside a revision that counts nothing, so that the    *)
(* first patch of a process never meets a copy the process has not made.   *)
(*                                                                         *)
(* The parts are said of a stream and of a record of the page's copy, and  *)
(* proved to be kept by each function of the module; the actions are then  *)
(* put together from those lemmas.                                         *)
(***************************************************************************)
EXTENDS ClientEvents, SequenceTheorems, TLAPS

Streaming == {"active", "candidate"}
CopyType == [windows : Signals]
EventType == [epoch : 1 .. MaxEpochs, rev : Nat, stale : BOOLEAN]
RepairType == [epoch : 1 .. MaxEpochs, target : Nat, repairing : Nat, read : ReadType]
Spoils == {"overwritten", "undone", "unrepaired", "carried", "stray"}
PageType ==
  [epoch : 0 .. MaxEpochs, rev : Nat, state : {NoCopy} \cup CopyType,
   event : {NoEvent} \cup EventType, repair : {NoRepair} \cup RepairType,
   stray : ReadType, spoiled : SUBSET Spoils]
BudgetType == [changes : {b.changes : b \in Budgets}, faults : Nat, turns : Nat]

AtLeast(c, d) == \A w \in Window : c[w] >= d[w]

-----------------------------------------------------------------------------
(* The server: the windows only get newer, and the payloads are of the past. *)

ServerOK ==
  /\ windows \in Signals /\ epoch \in 1 .. MaxEpochs
  /\ payloads \in [1 .. MaxEpochs -> Seq(Signals)]
  /\ \A e \in 1 .. MaxEpochs : \A i \in DOMAIN payloads[e] : AtLeast(windows, payloads[e][i])
  /\ left \in BudgetType

-----------------------------------------------------------------------------
(* A stream s, with the payloads P and the process E of the server.         *)

Counted(P, e) == 1 .. (Len(P[e]) - 1)

MessageOK(m, P, E) ==
  /\ m.rev \in Counted(P, m.epoch) \/ (m.type = "ready" /\ m.rev = 0)
  /\ m.epoch \in 1 .. E
\* What is written is of one process, from its ready on.
WireOK(w, P, E) ==
  \A i \in DOMAIN w : /\ MessageOK(w[i], P, E)
                      /\ w[i].type = "ready" => i = 1
                      /\ w[i].epoch = w[1].epoch
StreamOK(s, P, E) ==
  s # NoStream =>
    /\ WireOK(s.wire, P, E)
    /\ ~s.fenced => s.wire = <<>>
    /\ s.link = "connecting" => ~s.fenced /\ s.pending = 0
    /\ s.link = "open" => /\ s.wire # <<>> => s.wire[1].epoch = E
                          /\ s.pending = 0 \/ s.pending \in Counted(P, E)
FirstReady(s) == s.wire # <<>> /\ s.wire[1].type = "ready"
\* Of a candidate nothing is read.  The active stream is of the process that the page has
\* adopted, or its ready is still to be read.
Unread(s) == s # NoStream /\ s.fenced => FirstReady(s)
OfEpoch(s, e, E) ==
  s # NoStream /\ s.fenced =>
    \/ FirstReady(s)
    \/ /\ s.wire # <<>> => s.wire[1].epoch = e
       /\ s.link = "open" => e = E

StreamsOK(str, e, P, E) ==
  /\ str \in [Streaming -> {NoStream} \cup StreamType]
  /\ \A n \in Streaming : StreamOK(str[n], P, E)
  /\ Unread(str["candidate"]) /\ OfEpoch(str["active"], e, E)

\* A candidate is beside an active stream, and the newest of them is for what was last applied.
DemandOK ==
  /\ demand \in Demand /\ demandSignature \in Demand /\ {demandTimer, connected} \subseteq BOOLEAN
  /\ Has("candidate") => Has("active") /\ stream["candidate"].demand = demandSignature
  /\ Has("active") /\ ~Has("candidate") => stream["active"].demand = demandSignature
  /\ ~demandTimer => demandSignature = demand

-----------------------------------------------------------------------------
(* A record p of the page's copy.                                           *)

Fresh(p) == p.event # NoEvent /\ ~p.event.stale
\* The repair is of the adopted process, and its read is as new as what it repairs.
RepairOK(p, P) ==
  p.repair # NoRepair =>
    /\ p.repair.epoch = p.epoch
    /\ p.repair.target \in Counted(P, p.epoch) /\ p.repair.repairing \in Counted(P, p.epoch)
    /\ p.repair.read.phase = "answered" =>
         AtLeast(p.repair.read.windows, P[p.epoch][p.repair.repairing + 1])
\* What is queued and not stale is the patch that was accepted last.
QueueOK(p, P) ==
  Fresh(p) => /\ p.event.epoch = p.epoch /\ p.event.rev \in Counted(P, p.epoch)
              /\ p.spoiled = {} => p.event.rev = p.rev
\* The copy has what is accepted, or all but the patch that is queued.
HonestOK(p, P) ==
  p.state # NoCopy /\ p.spoiled = {} /\ p.repair = NoRepair =>
    /\ p.rev # 0
    /\ AtLeast(p.state.windows, P[p.epoch][IF Fresh(p) THEN p.rev ELSE p.rev + 1])
PageOK(p, P, E) ==
  /\ p \in PageType
  /\ p.rev = 0 \/ (p.epoch # NoEpoch /\ p.rev \in Counted(P, p.epoch))
  /\ p.epoch <= E
  /\ RepairOK(p, P) /\ QueueOK(p, P) /\ HonestOK(p, P)

IInv ==
  /\ ServerOK
  /\ StreamsOK(stream, resourceEpoch, payloads, epoch)
  /\ DemandOK
  /\ PageOK(Page, payloads, epoch)

-----------------------------------------------------------------------------
(* The copy: what each function of its record keeps.                        *)

\* The payloads, as they are.
PayloadsOK == payloads \in [1 .. MaxEpochs -> Seq(Signals)]

\* A counted revision has a payload, and so has the one before it.
LEMMA CountedHas ==
  ASSUME PayloadsOK, NEW e \in 1 .. MaxEpochs, NEW r \in Counted(payloads, e)
  PROVE  /\ r \in Nat \ {0} /\ payloads[e] # <<>> /\ Len(payloads[e]) > 1
         /\ r \in DOMAIN payloads[e] /\ r + 1 \in DOMAIN payloads[e]
         /\ payloads[e][r] \in Signals /\ payloads[e][r + 1] \in Signals
<1>1. payloads[e] \in Seq(Signals) BY DEF PayloadsOK
<1>2. DOMAIN payloads[e] = 1 .. Len(payloads[e]) /\ Len(payloads[e]) \in Nat BY <1>1
<1>3. r \in Nat \ {0} /\ Len(payloads[e]) > 1 /\ r \in 1 .. Len(payloads[e]) /\ r + 1 \in 1 .. Len(payloads[e])
  BY <1>2 DEF Counted
<1>4. payloads[e][r] \in Signals /\ payloads[e][r + 1] \in Signals
  BY <1>1, <1>3, ElementOfSeq
<1>5. payloads[e] # <<>> BY <1>3
<1> QED BY <1>2, <1>3, <1>4, <1>5

\* The types of the fields.
LEMMA PageFields ==
  ASSUME NEW p \in PageType
  PROVE  /\ p.epoch \in 0 .. MaxEpochs /\ p.rev \in Nat /\ p.state \in {NoCopy} \cup CopyType
         /\ p.event \in {NoEvent} \cup EventType /\ p.repair \in {NoRepair} \cup RepairType
         /\ p.stray \in ReadType /\ p.spoiled \in SUBSET Spoils
BY DEF PageType

\* A step that sets the repair alone.
LEMMA RepairSet ==
  ASSUME NEW p \in PageType, NEW x \in {NoRepair} \cup RepairType
  PROVE  LET q == [p EXCEPT !.repair = x]
         IN  /\ q \in PageType /\ q.repair = x
             /\ q.epoch = p.epoch /\ q.rev = p.rev /\ q.state = p.state
             /\ q.event = p.event /\ q.stray = p.stray /\ q.spoiled = p.spoiled
BY DEF PageType

\* repairClientEventPatchResource, to a revision of the adopted process.
LEMMA Repairing ==
  ASSUME PayloadsOK, NEW p, NEW E, PageOK(p, payloads, E), NEW r,
         p.epoch # NoEpoch, r = 0 \/ r \in Counted(payloads, p.epoch)
  PROVE  LET q == RepairClientEventPatchResource(p, p.epoch, r)
         IN  PageOK(q, payloads, E) /\ q.epoch = p.epoch
<1> DEFINE q == RepairClientEventPatchResource(p, p.epoch, r)
<1>1. p \in PageType /\ p.epoch \in 1 .. MaxEpochs
  <2>1. p \in PageType BY DEF PageOK
  <2> QED BY <2>1, PageFields, EventConstants DEF NoEpoch
<1>2. CASE r = 0 BY <1>2 DEF RepairClientEventPatchResource
<1>3. CASE r # 0
  <2>1. r \in Counted(payloads, p.epoch) /\ r \in Nat \ {0} BY <1>1, <1>3, CountedHas
  <2>2. CASE p.repair = NoRepair
    <3> DEFINE x == [epoch |-> p.epoch, target |-> r, repairing |-> r, read |-> Asked]
    <3>1. x \in RepairType BY <1>1, <2>1 DEF RepairType, ReadType
    <3>2. q = [p EXCEPT !.repair = x] BY <1>3, <2>2 DEF RepairClientEventPatchResource
    <3>3. x.epoch = p.epoch /\ x.target = r /\ x.repairing = r /\ x.read.phase = "asked"
      BY DEF Asked
    <3>4. x # NoRepair BY <2>1 DEF NoRepair
    <3> HIDE DEF x, q
    <3>5. /\ q \in PageType /\ q.repair = x
          /\ q.epoch = p.epoch /\ q.rev = p.rev /\ q.state = p.state
          /\ q.event = p.event /\ q.stray = p.stray /\ q.spoiled = p.spoiled
      BY <1>1, <3>1, <3>2, RepairSet
    <3>6. RepairOK(q, payloads) BY <2>1, <3>3, <3>5 DEF RepairOK
    <3>7. QueueOK(q, payloads) BY <3>5 DEF PageOK, QueueOK, Fresh
    <3>8. HonestOK(q, payloads) BY <3>4, <3>5 DEF HonestOK
    <3> QED BY <3>5, <3>6, <3>7, <3>8 DEF PageOK, q
  <2>3. CASE p.repair # NoRepair
    <3>1. /\ p.repair \in RepairType /\ p.repair.epoch = p.epoch
          /\ p.repair.target \in Counted(payloads, p.epoch)
      BY <1>1, <2>3, PageFields DEF PageOK, RepairOK
    <3> DEFINE t == IF r > p.repair.target THEN r ELSE p.repair.target
               x == [p.repair EXCEPT !.target = t]
    <3>2. t \in Counted(payloads, p.epoch) BY <2>1, <3>1
    <3>3. t \in Nat \ {0} BY <1>1, <3>2, CountedHas
    <3>4. q = [p EXCEPT !.repair = x]
      BY <1>1, <1>3, <2>3, <3>1 DEF RepairClientEventPatchResource, PageType
    <3> HIDE DEF t
    <3>5. /\ x \in RepairType /\ x.target = t /\ x.epoch = p.repair.epoch
          /\ x.repairing = p.repair.repairing /\ x.read = p.repair.read
      BY <3>1, <3>3 DEF RepairType
    <3>6. x # NoRepair BY <3>3, <3>5 DEF NoRepair
    <3> HIDE DEF x, q
    <3>7. /\ q \in PageType /\ q.repair = x
          /\ q.epoch = p.epoch /\ q.rev = p.rev /\ q.state = p.state
          /\ q.event = p.event /\ q.stray = p.stray /\ q.spoiled = p.spoiled
      BY <1>1, <3>4, <3>5, RepairSet
    <3>8. RepairOK(q, payloads) BY <2>3, <3>2, <3>5, <3>7 DEF PageOK, RepairOK
    <3>9. QueueOK(q, payloads) BY <3>7 DEF PageOK, QueueOK, Fresh
    <3>10. HonestOK(q, payloads) BY <3>6, <3>7 DEF HonestOK
    <3> QED BY <3>7, <3>8, <3>9, <3>10 DEF PageOK, q
  <2> QED BY <2>2, <2>3
<1> QED BY <1>2, <1>3

\* adoptServerEpoch: what it sets.
LEMMA AdoptedIs ==
  ASSUME NEW p \in PageType, NEW e \in 1 .. MaxEpochs, p.epoch # e
  PROVE  LET q == AdoptServerEpoch(p, e)
         IN  /\ q \in PageType /\ q.epoch = e /\ q.rev = 0 /\ q.repair = NoRepair
             /\ q.state = p.state /\ ~Fresh(q)
             /\ q.state # NoCopy => q.spoiled # {}
<1> DEFINE q == AdoptServerEpoch(p, e)
           v == IF p.event = NoEvent THEN NoEvent ELSE [p.event EXCEPT !.stale = TRUE]
           y == IF p.repair = NoRepair THEN p.stray ELSE p.repair.read
           u == IF p.state = NoCopy THEN p.spoiled ELSE p.spoiled \cup {"carried"}
<1>1. v \in {NoEvent} \cup EventType
  <2>1. p.event \in {NoEvent} \cup EventType BY PageFields
  <2> QED BY <2>1 DEF EventType
<1>2. v = NoEvent \/ v.stale = TRUE
  <2>1. p.event \in {NoEvent} \cup EventType BY PageFields
  <2> QED BY <2>1 DEF EventType
<1>3. y \in ReadType
  <2>1. p.repair \in {NoRepair} \cup RepairType /\ p.stray \in ReadType BY PageFields
  <2> QED BY <2>1 DEF RepairType
<1>4. u \in SUBSET Spoils /\ (p.state # NoCopy => u # {})
  <2>1. p.spoiled \in SUBSET Spoils BY PageFields
  <2> QED BY <2>1 DEF Spoils
<1>5. q = [p EXCEPT !.epoch = e, !.rev = 0, !.repair = NoRepair, !.event = v, !.stray = y, !.spoiled = u]
  BY DEF AdoptServerEpoch, PageType
<1> HIDE DEF v, y, u, q
<1>6. /\ q \in PageType /\ q.epoch = e /\ q.rev = 0 /\ q.repair = NoRepair
      /\ q.state = p.state /\ q.spoiled = u /\ q.event = v
  <2>1. e \in 0 .. MaxEpochs BY EventConstants
  <2> QED BY <1>1, <1>3, <1>4, <1>5, <2>1 DEF PageType
<1>7. ~Fresh(q) BY <1>2, <1>6 DEF Fresh
<1> QED BY <1>4, <1>6, <1>7 DEF q

\* adoptServerEpoch: nothing of the copy is vouched for in a process that is new to the page.
LEMMA AdoptKeeps ==
  ASSUME PayloadsOK, NEW p, NEW E \in 1 .. MaxEpochs, PageOK(p, payloads, E),
         NEW e \in 1 .. MaxEpochs, e <= E
  PROVE  LET a == AdoptServerEpoch(p, e)
         IN  PageOK(a, payloads, E) /\ a.epoch = e
<1> DEFINE a == AdoptServerEpoch(p, e)
<1>1. p \in PageType BY DEF PageOK
<1>2. CASE p.epoch = e BY <1>2 DEF AdoptServerEpoch
<1>3. CASE p.epoch # e
  <2>1. /\ a \in PageType /\ a.epoch = e /\ a.rev = 0 /\ a.repair = NoRepair
        /\ ~Fresh(a) /\ (a.state # NoCopy => a.spoiled # {})
    BY <1>1, <1>3, AdoptedIs
  <2> HIDE DEF a
  <2>2. RepairOK(a, payloads) /\ QueueOK(a, payloads) BY <2>1 DEF RepairOK, QueueOK
  <2>3. HonestOK(a, payloads) BY <2>1 DEF HonestOK
  <2> QED BY <2>1, <2>2, <2>3 DEF PageOK, a
<1> QED BY <1>2, <1>3

\* The ready listener.
LEMMA ReadyKeeps ==
  ASSUME PayloadsOK, NEW p, NEW E \in 1 .. MaxEpochs, PageOK(p, payloads, E),
         NEW m \in MessageType, MessageOK(m, payloads, E)
  PROVE  LET q == HandleReady(p, m)
         IN  PageOK(q, payloads, E) /\ q.epoch = m.epoch
<1> DEFINE e == m.epoch  r == m.rev  a == AdoptServerEpoch(p, e)  q == HandleReady(p, m)
<1>1. e \in 1 .. MaxEpochs /\ e <= E /\ (r = 0 \/ r \in Counted(payloads, e)) /\ e # NoEpoch
  BY EventConstants DEF MessageOK, MessageType, NoEpoch
<1>2. PageOK(a, payloads, E) /\ a.epoch = e BY <1>1, AdoptKeeps
<1>3. q = IF r > a.rev \/ p.epoch # e THEN RepairClientEventPatchResource(a, a.epoch, r) ELSE a
  BY <1>2 DEF HandleReady
<1> HIDE DEF a, q
<1>4. LET b == RepairClientEventPatchResource(a, a.epoch, r)
      IN  PageOK(b, payloads, E) /\ b.epoch = a.epoch
  BY <1>1, <1>2, Repairing
<1> QED BY <1>2, <1>3, <1>4 DEF q

\* applyClientEventKeyedPatch, of the patch m of the revision r over the copy c.
LEMMA PatchIs ==
  ASSUME PayloadsOK, NEW c \in CopyType, c # NoCopy, NEW m, m.epoch \in 1 .. MaxEpochs,
         m.rev \in Counted(payloads, m.epoch)
  PROVE  LET d == ApplyClientEventKeyedPatch(c, m)
         IN  /\ d \in CopyType
             /\ \A w \in Window : \/ d.windows[w] = payloads[m.epoch][m.rev + 1][w]
                                  \/ /\ d.windows[w] = c.windows[w]
                                     /\ payloads[m.epoch][m.rev + 1][w] = payloads[m.epoch][m.rev][w]
<1> DEFINE e == m.epoch  r == m.rev  d == ApplyClientEventKeyedPatch(c, m)
           v == [w \in Window |-> IF w \in Changed(e, r) THEN Payload(e, r)[w] ELSE c.windows[w]]
<1>1. r \in Nat \ {0} /\ payloads[e][r] \in Signals /\ payloads[e][r + 1] \in Signals
  BY CountedHas
<1>2. c.windows \in Signals BY DEF CopyType
<1>3. d = [c EXCEPT !.windows = v] BY DEF ApplyClientEventKeyedPatch, CopyType
<1>4. Payload(e, r) = payloads[e][r + 1] /\ Payload(e, r - 1) = payloads[e][r]
  BY <1>1 DEF Payload
<1>5. v \in Signals BY <1>1, <1>2, <1>4 DEF Signals
<1>6. \A w \in Window : \/ v[w] = payloads[e][r + 1][w]
                        \/ v[w] = c.windows[w] /\ payloads[e][r + 1][w] = payloads[e][r][w]
  BY <1>4 DEF Changed
<1> HIDE DEF v, d
<1>7. d \in CopyType /\ d.windows = v BY <1>3, <1>5 DEF CopyType
<1> QED BY <1>6, <1>7 DEF d

\* flushQueuedClientPushEvents: the copy has what was accepted then.
LEMMA FlushKeeps ==
  ASSUME PayloadsOK, NEW p, NEW E, PageOK(p, payloads, E), p.event # NoEvent
  PROVE  LET q == FlushQueuedClientPushEvents(p)
         IN  PageOK(q, payloads, E) /\ q.epoch = p.epoch
<1> DEFINE q == FlushQueuedClientPushEvents(p)  c == p.state
           d == IF p.event.stale THEN c ELSE ApplyClientEventKeyedPatch(c, p.event)
<1>1. p \in PageType BY DEF PageOK
<1>2. /\ p.epoch \in 0 .. MaxEpochs /\ p.rev \in Nat /\ c \in {NoCopy} \cup CopyType
      /\ p.event \in EventType
  BY <1>1, PageFields
<1>3. q = [p EXCEPT !.event = NoEvent, !.state = d]
  BY <1>1 DEF FlushQueuedClientPushEvents, PageType
<1>4. ASSUME d \in {NoCopy} \cup CopyType
      PROVE  /\ q \in PageType /\ q.event = NoEvent /\ q.state = d /\ ~Fresh(q)
             /\ q.epoch = p.epoch /\ q.rev = p.rev /\ q.repair = p.repair /\ q.spoiled = p.spoiled
  <2> HIDE DEF d, q
  <2>1. /\ q \in PageType /\ q.event = NoEvent /\ q.state = d
        /\ q.epoch = p.epoch /\ q.rev = p.rev /\ q.repair = p.repair /\ q.spoiled = p.spoiled
    BY <1>1, <1>3, <1>4 DEF PageType
  <2> QED BY <2>1 DEF Fresh
<1> HIDE DEF q
<1>5. CASE p.event.stale \/ c = NoCopy
  <2>1. d = c BY <1>5 DEF ApplyClientEventKeyedPatch
  <2>2. d \in {NoCopy} \cup CopyType BY <1>2, <2>1
  <2> HIDE DEF d
  <2>3. RepairOK(q, payloads) BY <1>4, <2>2 DEF PageOK, RepairOK
  <2>4. QueueOK(q, payloads) BY <1>4, <2>2 DEF QueueOK
  <2>5. HonestOK(q, payloads) BY <1>4, <1>5, <2>1, <2>2 DEF PageOK, HonestOK, Fresh
  <2> QED BY <1>4, <2>2, <2>3, <2>4, <2>5 DEF PageOK, q
<1>6. CASE ~p.event.stale /\ c # NoCopy
  <2> DEFINE e == p.event.epoch  r == p.event.rev
  <2>1. Fresh(p) BY <1>6 DEF Fresh
  <2>2. /\ e = p.epoch /\ e \in 1 .. MaxEpochs /\ r \in Counted(payloads, e)
        /\ p.spoiled = {} => r = p.rev
    BY <1>2, <2>1 DEF PageOK, QueueOK, EventType
  <2>3. /\ r \in Nat \ {0} /\ payloads[e][r + 1] \in Signals /\ payloads[e][r] \in Signals
        /\ c \in CopyType /\ c.windows \in Signals
    BY <1>2, <1>6, <2>2, CountedHas DEF CopyType
  <2>4. /\ d \in CopyType
        /\ \A w \in Window : \/ d.windows[w] = payloads[e][r + 1][w]
                             \/ /\ d.windows[w] = c.windows[w]
                                /\ payloads[e][r + 1][w] = payloads[e][r][w]
    BY <1>6, <2>2, <2>3, PatchIs
  <2> HIDE DEF d, c, e, r
  <2>5. RepairOK(q, payloads) BY <1>4, <2>4 DEF PageOK, RepairOK
  <2>6. QueueOK(q, payloads) BY <1>4, <2>4 DEF QueueOK
  <2>7. HonestOK(q, payloads)
    <3> SUFFICES ASSUME p.spoiled = {}, p.repair = NoRepair
                 PROVE  p.rev # 0 /\ AtLeast(d.windows, payloads[p.epoch][p.rev + 1])
      BY <1>4, <2>4 DEF HonestOK
    <3>1. p.rev # 0 /\ AtLeast(c.windows, payloads[p.epoch][p.rev])
      BY <1>6, <2>1 DEF PageOK, HonestOK, c
    <3>2. p.rev = r /\ p.epoch = e BY <2>2
    <3> QED BY <2>3, <2>4, <3>1, <3>2 DEF AtLeast, Signals
  <2> QED BY <1>4, <2>4, <2>5, <2>6, <2>7 DEF PageOK, q
<1> QED BY <1>5, <1>6

\* queueClientPushEvent, of the patch on the base that the page counts.
LEMMA QueueKeeps ==
  ASSUME PayloadsOK, NEW p, NEW E, PageOK(p, payloads, E), NEW m,
         p.epoch # NoEpoch, m.epoch = p.epoch, m.rev = p.rev + 1, m.rev \in Counted(payloads, p.epoch)
  PROVE  LET q == QueueClientPushEvent([p EXCEPT !.rev = m.rev], m)
         IN  PageOK(q, payloads, E) /\ q.epoch = p.epoch
<1> DEFINE x == [epoch |-> m.epoch, rev |-> m.rev, stale |-> FALSE]
           u == IF p.event # NoEvent /\ ~p.event.stale THEN p.spoiled \cup {"overwritten"} ELSE p.spoiled
           n == [p EXCEPT !.rev = m.rev, !.event = x, !.spoiled = u]
<1>1. p \in PageType /\ p.epoch \in 1 .. MaxEpochs
  <2>1. p \in PageType BY DEF PageOK
  <2> QED BY <2>1, PageFields, EventConstants DEF NoEpoch
<1>2. m.rev \in Nat \ {0} /\ p.rev \in Nat BY <1>1, CountedHas, PageFields
<1>3. x \in EventType /\ x.epoch = p.epoch /\ x.rev = m.rev /\ x.stale = FALSE
  BY <1>1, <1>2 DEF EventType
<1>4. x # NoEvent BY <1>2, <1>3 DEF NoEvent
<1>5. u \in SUBSET Spoils /\ p.spoiled \subseteq u /\ (Fresh(p) => u # {})
  BY <1>1, PageFields DEF Spoils, Fresh
<1>6. QueueClientPushEvent([p EXCEPT !.rev = m.rev], m)
        = IF Visible(demand) THEN n ELSE FlushQueuedClientPushEvents(n)
  BY <1>1 DEF QueueClientPushEvent, PageType
<1> HIDE DEF x, u
<1>7. /\ n \in PageType /\ n.epoch = p.epoch /\ n.rev = m.rev /\ n.state = p.state
      /\ n.event = x /\ n.repair = p.repair /\ n.spoiled = u
  BY <1>1, <1>2, <1>3, <1>5 DEF PageType
<1> HIDE DEF n
<1>8. Fresh(n) BY <1>3, <1>4, <1>7 DEF Fresh
<1>9. RepairOK(n, payloads) BY <1>7 DEF PageOK, RepairOK
<1>10. QueueOK(n, payloads) BY <1>3, <1>7 DEF QueueOK
<1>11. HonestOK(n, payloads)
  <2>1. u = {} => p.spoiled = {} /\ ~Fresh(p) BY <1>5
  <2> QED BY <1>2, <1>7, <1>8, <2>1 DEF PageOK, HonestOK
<1>12. PageOK(n, payloads, E)
  BY <1>1, <1>7, <1>9, <1>10, <1>11 DEF PageOK
<1>13. PageOK(FlushQueuedClientPushEvents(n), payloads, E) /\ FlushQueuedClientPushEvents(n).epoch = n.epoch
  BY <1>4, <1>7, <1>12, FlushKeeps
<1> QED BY <1>6, <1>7, <1>12, <1>13

\* handleClientPushEvent, of a patch of the adopted process.
LEMMA PushKeeps ==
  ASSUME PayloadsOK, NEW p, NEW E, PageOK(p, payloads, E), NEW m,
         p.epoch # NoEpoch, m.epoch = p.epoch, m.rev \in Counted(payloads, p.epoch)
  PROVE  LET q == HandleClientPushEvent(p, m)
         IN  PageOK(q, payloads, E) /\ q.epoch = p.epoch
<1>1. HandleClientPushEvent(p, m)
        = IF m.owed THEN RepairClientEventPatchResource(p, p.epoch, m.rev)
          ELSE IF m.rev <= p.rev THEN p
          ELSE IF m.rev # p.rev + 1 THEN RepairClientEventPatchResource(p, p.epoch, m.rev)
          ELSE QueueClientPushEvent([p EXCEPT !.rev = m.rev], m)
  BY DEF HandleClientPushEvent, AdoptServerEpoch, OnBase
<1>2. LET q == RepairClientEventPatchResource(p, p.epoch, m.rev)
      IN  PageOK(q, payloads, E) /\ q.epoch = p.epoch
  BY Repairing
<1>3. ASSUME m.rev = p.rev + 1
      PROVE  LET q == QueueClientPushEvent([p EXCEPT !.rev = m.rev], m)
             IN  PageOK(q, payloads, E) /\ q.epoch = p.epoch
  BY <1>3, QueueKeeps
<1> QED BY <1>1, <1>2, <1>3

-----------------------------------------------------------------------------
(* The wire.                                                                *)

\* What is written goes behind what is there.
LEMMA Behind ==
  ASSUME NEW S, NEW w \in Seq(S), NEW m \in S
  PROVE  /\ Append(w, m) \in Seq(S) /\ Append(w, m) # <<>>
         /\ Append(w, m)[1] = IF w = <<>> THEN m ELSE w[1]
         /\ \A i \in DOMAIN Append(w, m) :
              \/ i \in DOMAIN w /\ Append(w, m)[i] = w[i]
              \/ Append(w, m)[i] = m /\ (i = 1 <=> w = <<>>)
<1>1. Append(w, m) \in Seq(S) /\ Len(Append(w, m)) = Len(w) + 1
  BY AppendProperties
<1>2. DOMAIN w = 1 .. Len(w) /\ Len(w) \in Nat /\ DOMAIN Append(w, m) = 1 .. Len(w) + 1
  BY <1>1
<1>3. Append(w, m)[Len(w) + 1] = m /\ \A i \in 1 .. Len(w) : Append(w, m)[i] = w[i]
  BY AppendProperties
<1>4. w = <<>> <=> Len(w) = 0 BY EmptySeq
<1>5. Append(w, m) # <<>> BY <1>1, <1>2, EmptySeq
<1> QED BY <1>1, <1>2, <1>3, <1>4, <1>5

\* What is read is the first of it.
LEMMA Rest ==
  ASSUME NEW S, NEW w \in Seq(S), w # <<>>
  PROVE  /\ Tail(w) \in Seq(S) /\ Head(w) = w[1] /\ 1 \in DOMAIN w /\ w[1] \in S
         /\ \A i \in DOMAIN Tail(w) : /\ i \in Nat /\ i + 1 \in DOMAIN w /\ i + 1 # 1
                                      /\ Tail(w)[i] = w[i + 1]
         /\ Tail(w) # <<>> => 1 \in DOMAIN Tail(w)
<1>1. Tail(w) \in Seq(S) /\ Head(w) = w[1] /\ w[1] \in S /\ Len(w) \in Nat \ {0}
  BY HeadTailProperties, EmptySeq
<1>2. Len(Tail(w)) = Len(w) - 1 /\ \A i \in 1 .. Len(Tail(w)) : Tail(w)[i] = w[i + 1]
  BY HeadTailProperties
<1>3. DOMAIN w = 1 .. Len(w) /\ DOMAIN Tail(w) = 1 .. Len(w) - 1 BY <1>1, <1>2
<1>4. Tail(w) # <<>> => Len(Tail(w)) # 0 BY <1>1, EmptySeq
<1> QED BY <1>1, <1>2, <1>3, <1>4

\* A message of the process that wrote the others, behind them; a ready goes first.
Grown(w, m, v, P, E) ==
  /\ v \in Seq(MessageType) /\ v # <<>> /\ WireOK(v, P, E)
  /\ v[1] = IF w = <<>> THEN m ELSE w[1]

\* Append keeps a wire of one process, from its ready on.
LEMMA WireGrows ==
  ASSUME NEW P, NEW E, NEW w \in Seq(MessageType), WireOK(w, P, E), NEW m \in MessageType,
         MessageOK(m, P, E), w # <<>> => w[1].epoch = m.epoch, m.type = "ready" => w = <<>>
  PROVE  Grown(w, m, Append(w, m), P, E)
<1> DEFINE v == Append(w, m)
<1>1. /\ v \in Seq(MessageType) /\ v # <<>> /\ v[1] = (IF w = <<>> THEN m ELSE w[1])
      /\ \A i \in DOMAIN v : \/ i \in DOMAIN w /\ v[i] = w[i]
                             \/ v[i] = m /\ (i = 1 <=> w = <<>>)
  BY Behind
<1> HIDE DEF v
<1>2. ASSUME NEW i \in DOMAIN v
      PROVE  /\ MessageOK(v[i], P, E)
             /\ v[i].type = "ready" => i = 1
             /\ v[i].epoch = v[1].epoch
  <2>1. CASE i \in DOMAIN w /\ v[i] = w[i]
    <3>1. w # <<>> BY <2>1
    <3> QED BY <1>1, <2>1, <3>1 DEF WireOK
  <2>2. CASE v[i] = m /\ (i = 1 <=> w = <<>>) BY <1>1, <2>2
  <2> QED BY <1>1, <1>2, <2>1, <2>2
<1>3. WireOK(v, P, E) BY <1>2 DEF WireOK
<1>4. Grown(w, m, v, P, E) BY <1>1, <1>3 DEF Grown
<1> QED BY <1>4 DEF v

\* What is left when the first message is read has no ready and is of its process.
LeftOf(w, v, P, E) ==
  /\ v \in Seq(MessageType) /\ WireOK(v, P, E)
  /\ Head(w) = w[1] /\ w[1] \in MessageType /\ MessageOK(w[1], P, E)
  /\ v # <<>> => v[1].epoch = w[1].epoch /\ v[1].type # "ready"

\* Tail leaves a wire without a ready, of the same process.
LEMMA WireReads ==
  ASSUME NEW P, NEW E, NEW w \in Seq(MessageType), WireOK(w, P, E), w # <<>>
  PROVE  LeftOf(w, Tail(w), P, E)
<1> DEFINE v == Tail(w)
<1>1. /\ v \in Seq(MessageType) /\ Head(w) = w[1] /\ 1 \in DOMAIN w /\ w[1] \in MessageType
      /\ \A i \in DOMAIN v : /\ i \in Nat /\ i + 1 \in DOMAIN w /\ i + 1 # 1 /\ v[i] = w[i + 1]
      /\ v # <<>> => 1 \in DOMAIN v
  BY Rest
<1> HIDE DEF v
<1>2. \A i \in DOMAIN v : MessageOK(v[i], P, E) /\ v[i].type # "ready" /\ v[i].epoch = w[1].epoch
  BY <1>1 DEF WireOK
<1>3. v # <<>> => v[1].epoch = w[1].epoch /\ v[1].type # "ready" BY <1>1, <1>2
<1>4. WireOK(v, P, E) BY <1>1, <1>2, <1>3 DEF WireOK
<1>5. MessageOK(w[1], P, E) BY <1>1 DEF WireOK
<1>6. LeftOf(w, v, P, E) BY <1>1, <1>3, <1>4, <1>5 DEF LeftOf
<1> QED BY <1>6 DEF v

-----------------------------------------------------------------------------
(* The streams.                                                             *)

\* The types of the fields.
LEMMA StreamFields ==
  ASSUME NEW s \in StreamType
  PROVE  /\ s # NoStream /\ s.link \in {"connecting", "open", "lost"} /\ s.demand \in Demand
         /\ s.pending \in Nat /\ s.owed \in BOOLEAN /\ s.fenced \in BOOLEAN
         /\ s.wire \in Seq(MessageType) /\ s.attempts \in Nat
BY DEF StreamType, NoStream

\* What may be said of the streams may be said of them with one that is replaced.
LEMMA OneStream ==
  ASSUME NEW str, NEW e, NEW P, NEW E, StreamsOK(str, e, P, E), NEW n \in Streaming,
         NEW s \in {NoStream} \cup StreamType, StreamOK(s, P, E),
         n = "candidate" => Unread(s), n = "active" => OfEpoch(s, e, E)
  PROVE  LET t == [str EXCEPT ![n] = s]
         IN  /\ StreamsOK(t, e, P, E) /\ t[n] = s
             /\ \A k \in Streaming : k # n => t[k] = str[k]
<1> DEFINE t == [str EXCEPT ![n] = s]
<1>1. str \in [Streaming -> {NoStream} \cup StreamType] BY DEF StreamsOK
<1>2. /\ t \in [Streaming -> {NoStream} \cup StreamType] /\ t[n] = s
      /\ \A k \in Streaming : k # n => t[k] = str[k]
  BY <1>1
<1> HIDE DEF t
<1>3. \A k \in Streaming : StreamOK(t[k], P, E) BY <1>2 DEF StreamsOK
<1>4. "active" \in Streaming /\ "candidate" \in Streaming BY DEF Streaming
<1>5. Unread(t["candidate"]) /\ OfEpoch(t["active"], e, E) BY <1>2, <1>4 DEF StreamsOK
<1> QED BY <1>2, <1>3, <1>5 DEF StreamsOK, t

\* A stream of which nothing was sent.
LEMMA NothingSent ==
  ASSUME NEW s \in StreamType, s.link = "connecting", s.pending = 0, s.fenced = FALSE, s.wire = <<>>
  PROVE  /\ s # NoStream /\ \A P, E : StreamOK(s, P, E)
         /\ Unread(s) /\ \A e, E : OfEpoch(s, e, E)
<1>1. s # NoStream BY StreamFields
<1>2. \A P, E : WireOK(s.wire, P, E) BY DEF WireOK
<1>3. \A P, E : StreamOK(s, P, E) BY <1>2 DEF StreamOK
<1>4. Unread(s) /\ \A e, E : OfEpoch(s, e, E) BY DEF Unread, OfEpoch
<1> QED BY <1>1, <1>3, <1>4

\* An EventSource as it is constructed, and as it connects again.
LEMMA OpenedIs ==
  ASSUME NEW d \in Demand
  PROVE  LET s == Opened(d)
         IN  /\ s \in StreamType /\ s # NoStream /\ s.demand = d
             /\ \A P, E : StreamOK(s, P, E)
             /\ Unread(s) /\ \A e, E : OfEpoch(s, e, E)
<1> DEFINE s == Opened(d)
<1>1. <<>> \in Seq(MessageType) OBVIOUS
<1>2. /\ s \in StreamType /\ s.demand = d /\ s.link = "connecting" /\ s.pending = 0
      /\ s.fenced = FALSE /\ s.wire = <<>>
  BY <1>1 DEF Opened, StreamType
<1> HIDE DEF s
<1> QED BY <1>2, NothingSent DEF s

\* The same stream as it connects again, with the errors it has counted.
LEMMA ReopenedIs ==
  ASSUME NEW d \in Demand, NEW a \in Nat
  PROVE  LET s == [Opened(d) EXCEPT !.attempts = a]
         IN  /\ s \in StreamType /\ s # NoStream /\ s.demand = d
             /\ \A P, E : StreamOK(s, P, E)
             /\ Unread(s) /\ \A e, E : OfEpoch(s, e, E)
<1> DEFINE s == [Opened(d) EXCEPT !.attempts = a]
<1>1. <<>> \in Seq(MessageType) OBVIOUS
<1>2. /\ s \in StreamType /\ s.demand = d /\ s.link = "connecting" /\ s.pending = 0
      /\ s.fenced = FALSE /\ s.wire = <<>>
  BY <1>1 DEF Opened, StreamType
<1> HIDE DEF s
<1> QED BY <1>2, NothingSent DEF s

\* No stream.
LEMMA Closed ==
  /\ \A P, E : StreamOK(NoStream, P, E)
  /\ Unread(NoStream) /\ \A e, E : OfEpoch(NoStream, e, E)
BY DEF StreamOK, Unread, OfEpoch

\* A stream that is as it was but for what a reader of its wire does not see.
LEMMA SameWire ==
  ASSUME NEW P, NEW e, NEW E, NEW s \in StreamType, NEW t \in StreamType,
         t.wire = s.wire, t.fenced = s.fenced, StreamOK(s, P, E),
         t.link \in {s.link, "lost"} \/ (s.link = "connecting" /\ t.link = "open"),
         t.link # "lost" => t.pending = s.pending \/ (t.link = "open" /\ t.pending \in {0} \cup Counted(P, E))
  PROVE  /\ StreamOK(t, P, E)
         /\ Unread(s) => Unread(t)
         /\ OfEpoch(s, e, E) => OfEpoch(t, e, E)
<1>1. s # NoStream /\ t # NoStream BY StreamFields
<1>2. Unread(s) => Unread(t) BY <1>1 DEF FirstReady, Unread
<1>3. OfEpoch(s, e, E) => OfEpoch(t, e, E) BY <1>1 DEF OfEpoch, FirstReady, StreamOK
<1>4. StreamOK(t, P, E) BY <1>1 DEF StreamOK
<1> QED BY <1>2, <1>3, <1>4

-----------------------------------------------------------------------------
(* The page's record, and the parts of the invariant that a step leaves.    *)

\* The variables of the copy are those of the record that is set.
LEMMA SetPageIs ==
  ASSUME NEW q \in PageType, SetPage(q)
  PROVE  Page' = q /\ resourceEpoch' = q.epoch
BY DEF SetPage, Page, PageType

\* A step that leaves the variables of the copy leaves the record.
LEMMA SamePage ==
  ASSUME UNCHANGED copyVars
  PROVE  Page' = Page /\ resourceEpoch' = resourceEpoch
BY DEF copyVars, Page

\* What the invariant says, unfolded.
LEMMA Facts ==
  ASSUME IInv
  PROVE  /\ PayloadsOK /\ Page.epoch = resourceEpoch /\ epoch \in 1 .. MaxEpochs /\ epoch \in Nat
         /\ StreamsOK(stream, resourceEpoch, payloads, epoch)
         /\ PageOK(Page, payloads, epoch)
         /\ stream \in [Streaming -> {NoStream} \cup StreamType]
         /\ resourceEpoch \in 0 .. MaxEpochs /\ resourceEpoch <= epoch
         /\ \A n \in Streaming : /\ StreamOK(stream[n], payloads, epoch)
                                 /\ stream[n] # NoStream => stream[n] \in StreamType
         /\ "active" \in Streaming /\ "candidate" \in Streaming
         /\ Unread(stream["candidate"]) /\ OfEpoch(stream["active"], resourceEpoch, epoch)
<1>1. PayloadsOK BY DEF IInv, ServerOK, PayloadsOK
<1>2. epoch \in 1 .. MaxEpochs /\ epoch \in Nat BY EventConstants DEF IInv, ServerOK
<1>3. Page.epoch = resourceEpoch BY DEF Page
<1>4. StreamsOK(stream, resourceEpoch, payloads, epoch) /\ PageOK(Page, payloads, epoch)
  BY DEF IInv
<1>5. resourceEpoch \in 0 .. MaxEpochs /\ resourceEpoch <= epoch
  BY <1>3, <1>4, PageFields DEF PageOK
<1>6. /\ stream \in [Streaming -> {NoStream} \cup StreamType]
      /\ Unread(stream["candidate"]) /\ OfEpoch(stream["active"], resourceEpoch, epoch)
      /\ \A n \in Streaming : StreamOK(stream[n], payloads, epoch)
  BY <1>4 DEF StreamsOK
<1> QED BY <1>1, <1>2, <1>3, <1>4, <1>5, <1>6 DEF Streaming

\* A step of the streams alone, seen from the copy.
LEMMA StreamStep ==
  ASSUME IInv, UNCHANGED <<serverVars, copyVars>>, left' \in BudgetType,
         StreamsOK(stream', resourceEpoch, payloads, epoch), DemandOK'
  PROVE  IInv'
<1>1. UNCHANGED <<windows, epoch, payloads>> /\ UNCHANGED copyVars BY DEF serverVars
<1>2. Page' = Page /\ resourceEpoch' = resourceEpoch BY <1>1, SamePage
<1>3. PageOK(Page, payloads, epoch) BY Facts
<1>4. PageOK(Page', payloads', epoch') /\ StreamsOK(stream', resourceEpoch', payloads', epoch')
  BY <1>1, <1>2, <1>3
<1>5. ServerOK' BY <1>1 DEF IInv, ServerOK
<1> QED BY <1>4, <1>5 DEF IInv

\* A fault or a turn takes from the budget.
LEMMA Spent ==
  ASSUME left \in BudgetType, Fault \/ Turn
  PROVE  left' \in BudgetType
BY DEF Fault, Turn, BudgetType

\* The demand is as it was where the streams keep theirs.
LEMMA SameDemand ==
  ASSUME IInv, UNCHANGED demandVars, connected' \in BOOLEAN,
         stream' \in [Streaming -> {NoStream} \cup StreamType],
         \A n \in Streaming : /\ stream'[n] = NoStream <=> stream[n] = NoStream
                              /\ stream[n] # NoStream => stream'[n].demand = stream[n].demand
  PROVE  DemandOK'
<1>1. DemandOK BY DEF IInv
<1>2. UNCHANGED <<demand, demandSignature, demandTimer>> BY DEF demandVars
<1>3. \A n \in Streaming : /\ Has(n)' <=> Has(n)
                           /\ Has(n) => stream'[n].demand = stream[n].demand
  BY DEF Has
<1>4. (/\ Has("candidate") => Has("active") /\ stream["candidate"].demand = demandSignature
       /\ Has("active") /\ ~Has("candidate") => stream["active"].demand = demandSignature)'
  <2>1. "active" \in Streaming /\ "candidate" \in Streaming BY DEF Streaming
  <2> QED BY <1>1, <1>2, <1>3, <2>1 DEF DemandOK
<1> QED BY <1>1, <1>2, <1>4 DEF DemandOK

\* A step that replaces one stream by another for the same demand.
LEMMA OneStreamStep ==
  ASSUME IInv, NEW n \in Streaming, Has(n), NEW s \in StreamType, stream' = [stream EXCEPT ![n] = s],
         StreamOK(s, payloads, epoch), s.demand = stream[n].demand,
         n = "candidate" => Unread(s), n = "active" => OfEpoch(s, resourceEpoch, epoch),
         UNCHANGED <<serverVars, demandVars, copyVars>>, connected' \in BOOLEAN, left' \in BudgetType
  PROVE  IInv'
<1>1. /\ StreamsOK(stream', resourceEpoch, payloads, epoch)
      /\ stream'[n] = s /\ \A k \in Streaming : k # n => stream'[k] = stream[k]
  BY Facts, OneStream
<1>3. stream' \in [Streaming -> {NoStream} \cup StreamType] BY <1>1 DEF StreamsOK
<1>4. DemandOK'
  <2>1. s # NoStream BY StreamFields
  <2>2. \A k \in Streaming : /\ stream'[k] = NoStream <=> stream[k] = NoStream
                             /\ stream[k] # NoStream => stream'[k].demand = stream[k].demand
    BY <1>1, <2>1 DEF Has
  <2> QED BY <1>3, <2>2, SameDemand
<1> QED BY <1>1, <1>4, StreamStep

-----------------------------------------------------------------------------
(* The server's steps on a stream.                                          *)

\* A step on a stream whose wire it leaves.
LEMMA SameWireStep ==
  ASSUME IInv, NEW n \in Streaming, Has(n), NEW t \in StreamType, stream' = [stream EXCEPT ![n] = t],
         t.wire = stream[n].wire, t.fenced = stream[n].fenced, t.demand = stream[n].demand,
         t.link \in {stream[n].link, "lost"} \/ (stream[n].link = "connecting" /\ t.link = "open"),
         t.link # "lost" =>
           t.pending = stream[n].pending \/ (t.link = "open" /\ t.pending \in {0} \cup Counted(payloads, epoch)),
         UNCHANGED <<serverVars, demandVars, copyVars>>, connected' = connected, left' \in BudgetType
  PROVE  IInv'
<1>1. stream[n] \in StreamType /\ StreamOK(stream[n], payloads, epoch) BY Facts DEF Has
<1>2. /\ StreamOK(t, payloads, epoch)
      /\ Unread(stream[n]) => Unread(t)
      /\ OfEpoch(stream[n], resourceEpoch, epoch) => OfEpoch(t, resourceEpoch, epoch)
  BY <1>1, SameWire
<1>3. /\ n = "candidate" => Unread(t)
      /\ n = "active" => OfEpoch(t, resourceEpoch, epoch)
  BY <1>2, Facts
<1>4. connected' \in BOOLEAN BY DEF IInv, DemandOK
<1> QED BY <1>2, <1>3, <1>4, OneStreamStep

\* A full queue drops what was pending: nothing that was written.
LEMMA Overflowing ==
  ASSUME IInv, NEW n \in Streaming, Overflow(n)
  PROVE  IInv'
<1>1. left' \in BudgetType BY Spent DEF IInv, ServerOK, Overflow
<1>2. Has(n) /\ stream[n].link = "open" BY DEF Overflow, Linked
<1>3. stream[n] \in StreamType /\ stream \in [Streaming -> {NoStream} \cup StreamType] BY <1>2, Facts DEF Has
<1>4. PICK o \in BOOLEAN : stream' = [stream EXCEPT ![n].pending = 0, ![n].owed = o] BY DEF Overflow
<1> DEFINE t == [stream[n] EXCEPT !.pending = 0, !.owed = o]
<1>5. stream' = [stream EXCEPT ![n] = t] BY <1>3, <1>4
<1>6. /\ t \in StreamType /\ t.wire = stream[n].wire /\ t.fenced = stream[n].fenced
      /\ t.demand = stream[n].demand /\ t.link = "open" /\ t.pending = 0
  BY <1>2, <1>3 DEF StreamType
<1> HIDE DEF t
<1>7. UNCHANGED <<serverVars, demandVars, copyVars>> /\ connected' = connected BY DEF Overflow
<1> QED BY <1>1, <1>2, <1>5, <1>6, <1>7, SameWireStep

\* A connection that opens has nothing pending and nothing written.
LEMMA Subscribing ==
  ASSUME IInv, NEW n \in Streaming, Subscribe(n)
  PROVE  IInv'
<1>1. left' \in BudgetType BY DEF IInv, ServerOK, Subscribe
<1>2. Has(n) /\ stream[n].link = "connecting" BY DEF Subscribe, Linked
<1>3. stream[n] \in StreamType /\ stream \in [Streaming -> {NoStream} \cup StreamType] BY <1>2, Facts DEF Has
<1> DEFINE t == [stream[n] EXCEPT !.link = "open"]
<1>5. stream' = [stream EXCEPT ![n] = t] BY <1>3 DEF Subscribe
<1>6. /\ t \in StreamType /\ t.wire = stream[n].wire /\ t.fenced = stream[n].fenced
      /\ t.demand = stream[n].demand /\ t.link = "open" /\ t.pending = stream[n].pending
  BY <1>2, <1>3 DEF StreamType
<1> HIDE DEF t
<1>7. UNCHANGED <<serverVars, demandVars, copyVars>> /\ connected' = connected BY DEF Subscribe
<1> QED BY <1>1, <1>2, <1>5, <1>6, <1>7, SameWireStep

\* A stream that is lost keeps what was written, and nothing is pending.
LEMMA LostIs ==
  ASSUME NEW s \in StreamType
  PROVE  /\ Lost(s) \in StreamType /\ Lost(s).wire = s.wire /\ Lost(s).fenced = s.fenced
         /\ Lost(s).demand = s.demand /\ Lost(s).link # "open" /\ Lost(s).link \in {s.link, "lost"}
         /\ Lost(s).link # "lost" => Lost(s).pending = s.pending
<1>1. s # NoStream BY StreamFields
<1>2. CASE s.link = "open"
  <2> DEFINE t == [s EXCEPT !.link = "lost", !.pending = 0, !.owed = FALSE]
  <2>1. Lost(s) = t BY <1>1, <1>2 DEF Lost, Subscribed
  <2>2. t \in StreamType /\ t.wire = s.wire /\ t.fenced = s.fenced /\ t.demand = s.demand /\ t.link = "lost"
    BY DEF StreamType
  <2> QED BY <2>1, <2>2
<1>3. CASE s.link # "open"
  <2>1. Lost(s) = s BY <1>3 DEF Lost, Subscribed
  <2> QED BY <1>3, <2>1
<1> QED BY <1>2, <1>3

\* A connection that is lost keeps what was written.
LEMMA Breaking ==
  ASSUME IInv, NEW n \in Streaming, Breaks(n)
  PROVE  IInv'
<1>1. left' \in BudgetType BY Spent DEF IInv, ServerOK, Breaks
<1>2. Has(n) /\ stream[n].link = "open" BY DEF Breaks, Linked
<1>3. stream[n] \in StreamType BY <1>2, Facts DEF Has
<1> DEFINE t == Lost(stream[n])
<1>5. stream' = [stream EXCEPT ![n] = t] BY DEF Breaks
<1>6. /\ t \in StreamType /\ t.wire = stream[n].wire /\ t.fenced = stream[n].fenced
      /\ t.demand = stream[n].demand /\ t.link \in {stream[n].link, "lost"}
      /\ t.link # "lost" => t.pending = stream[n].pending
  BY <1>3, LostIs
<1> HIDE DEF t
<1>7. UNCHANGED <<serverVars, demandVars, copyVars>> /\ connected' = connected BY DEF Breaks
<1> QED BY <1>1, <1>2, <1>5, <1>6, <1>7, SameWireStep

\* What the server counts of its process.
LEMMA CurrentIs ==
  ASSUME PayloadsOK, NEW e \in 1 .. MaxEpochs
  PROVE  /\ Len(payloads[e]) \in Nat /\ Current(e) \in Nat
         /\ Current(e) = 0 \/ Current(e) \in Counted(payloads, e)
         /\ Current(e) = 0 => ~(Len(payloads[e]) > 1)
         /\ payloads[e] # <<>> => Current(e) = Len(payloads[e]) - 1 /\ Len(payloads[e]) \in Nat \ {0}
<1> DEFINE k == Len(payloads[e])
<1>1. payloads[e] \in Seq(Signals) BY DEF PayloadsOK
<1>2. k \in Nat /\ (payloads[e] = <<>> <=> k = 0) BY <1>1, EmptySeq
<1>3. Current(e) = IF k = 0 THEN 0 ELSE k - 1 BY <1>2 DEF Current
<1>4. Counted(payloads, e) = 1 .. (k - 1) BY DEF Counted
<1> HIDE DEF k
<1>5. /\ k \in Nat /\ Current(e) \in Nat
      /\ Current(e) = 0 \/ Current(e) \in Counted(payloads, e)
      /\ Current(e) = 0 => ~(k > 1)
      /\ payloads[e] # <<>> => Current(e) = k - 1 /\ k \in Nat \ {0}
  BY <1>2, <1>3, <1>4
<1> QED BY <1>5 DEF k

\* A stream that sends is fenced, and what it sends is of the process that runs.
LEMMA NextEventSent ==
  ASSUME IInv, NEW n \in Streaming, NextEvent(n)
  PROVE  IInv'
<1> DEFINE s == stream[n]
           m == [epoch |-> epoch, rev |-> s.pending, owed |-> s.owed, type |-> "patch"]
           w == Append(s.wire, m)
           t == [s EXCEPT !.wire = w, !.pending = 0, !.owed = FALSE]
<1>1. left' \in BudgetType /\ connected' \in BOOLEAN BY DEF IInv, ServerOK, DemandOK, NextEvent
<1>2. Has(n) /\ s.link = "open" /\ s.fenced /\ s.pending # 0 BY DEF NextEvent, Linked
<1>3. s \in StreamType /\ stream \in [Streaming -> {NoStream} \cup StreamType] BY <1>2, Facts DEF Has
<1>4. /\ s # NoStream /\ s.wire \in Seq(MessageType) /\ s.pending \in Nat /\ s.owed \in BOOLEAN
      /\ s.demand \in Demand
  BY <1>3, StreamFields
<1>5. epoch \in 1 .. MaxEpochs /\ epoch \in Nat BY Facts
<1>6. /\ WireOK(s.wire, payloads, epoch) /\ s.pending \in Counted(payloads, epoch)
      /\ s.wire # <<>> => s.wire[1].epoch = epoch
  BY <1>2, <1>4, Facts DEF StreamOK
<1>7. m \in MessageType /\ m.epoch = epoch /\ m.rev = s.pending /\ m.type = "patch"
  BY <1>4, <1>5 DEF MessageType
<1>8. stream' = [stream EXCEPT ![n] = t] BY <1>3 DEF NextEvent, Send
<1> HIDE DEF m
<1>9. MessageOK(m, payloads, epoch) BY <1>5, <1>6, <1>7 DEF MessageOK
<1>10. /\ w \in Seq(MessageType) /\ w # <<>> /\ WireOK(w, payloads, epoch)
       /\ w[1] = IF s.wire = <<>> THEN m ELSE s.wire[1]
  <2> DEFINE v == s.wire
  <2>1. /\ v \in Seq(MessageType) /\ WireOK(v, payloads, epoch) /\ m.type # "ready"
        /\ v # <<>> => v[1].epoch = m.epoch
    BY <1>4, <1>6, <1>7
  <2>2. w = Append(v, m) OBVIOUS
  <2> HIDE DEF v, w
  <2>3. Grown(v, m, Append(v, m), payloads, epoch) BY <1>7, <1>9, <2>1, WireGrows
  <2> QED BY <2>2, <2>3 DEF v, Grown
<1> HIDE DEF w
<1>11. /\ t \in StreamType /\ t.wire = w /\ t.fenced = s.fenced /\ t.demand = s.demand
       /\ t.link = "open" /\ t.pending = 0
  BY <1>2, <1>3, <1>10 DEF StreamType
<1> HIDE DEF t, s
<1>12. t # NoStream BY <1>11, StreamFields
<1>13. StreamOK(t, payloads, epoch)
  <2>1. w[1].epoch = epoch BY <1>6, <1>7, <1>10
  <2> QED BY <1>2, <1>10, <1>11, <2>1 DEF StreamOK
<1>14. FirstReady(s) => FirstReady(t) /\ t.wire[1] = s.wire[1] BY <1>10, <1>11 DEF FirstReady
<1>16. n = "candidate" => Unread(t)
  <2>1. n = "candidate" => FirstReady(s) BY <1>2, <1>4, Facts DEF Unread, s
  <2> QED BY <1>14, <2>1 DEF Unread
<1>17. n = "active" => OfEpoch(t, resourceEpoch, epoch)
  <2> SUFFICES ASSUME n = "active" PROVE OfEpoch(t, resourceEpoch, epoch) OBVIOUS
  <2>1. \/ FirstReady(s)
        \/ resourceEpoch = epoch
    BY <1>2, <1>4, Facts DEF OfEpoch, s
  <2>2. w[1].epoch = epoch BY <1>6, <1>7, <1>10
  <2> QED BY <1>11, <1>14, <2>1, <2>2 DEF OfEpoch
<1>18. UNCHANGED <<serverVars, demandVars, copyVars>> BY DEF NextEvent
<1> QED BY <1>1, <1>2, <1>8, <1>11, <1>13, <1>16, <1>17, <1>18, OneStreamStep DEF s

\* The ready goes first, and is of the process that writes it.
LEMMA ReadySent ==
  ASSUME IInv, NEW n \in Streaming, SendReady(n)
  PROVE  IInv'
<1> DEFINE s == stream[n]
           m == [epoch |-> epoch, rev |-> Current(epoch), owed |-> FALSE, type |-> "ready"]
           w == Append(s.wire, m)
           t == [s EXCEPT !.wire = w, !.fenced = TRUE]
<1>1. left' \in BudgetType /\ connected' \in BOOLEAN BY DEF IInv, ServerOK, DemandOK, SendReady
<1>2. Has(n) /\ s.link = "open" /\ ~s.fenced BY DEF SendReady, Linked
<1>3. s \in StreamType /\ stream \in [Streaming -> {NoStream} \cup StreamType] BY <1>2, Facts DEF Has
<1>4. /\ s # NoStream /\ s.wire \in Seq(MessageType) /\ s.pending \in Nat BY <1>3, StreamFields
<1>5. epoch \in 1 .. MaxEpochs /\ epoch \in Nat /\ resourceEpoch <= epoch BY Facts
<1>6. /\ s.wire = <<>> /\ s.pending \in {0} \cup Counted(payloads, epoch) /\ WireOK(s.wire, payloads, epoch)
  BY <1>2, <1>4, Facts DEF StreamOK
<1>7. Current(epoch) = 0 \/ Current(epoch) \in Counted(payloads, epoch) BY <1>5, Facts, CurrentIs
<1>8. Current(epoch) \in Nat BY <1>5, Facts, CurrentIs
<1>9. m \in MessageType /\ m.epoch = epoch /\ m.rev = Current(epoch) /\ m.type = "ready"
  BY <1>5, <1>8 DEF MessageType
<1>10. stream' = [stream EXCEPT ![n] = t] BY <1>3 DEF SendReady, Send
<1> HIDE DEF m
<1>11. MessageOK(m, payloads, epoch) BY <1>5, <1>7, <1>9 DEF MessageOK
<1>12. /\ w \in Seq(MessageType) /\ w # <<>> /\ WireOK(w, payloads, epoch) /\ w[1] = m
  <2> DEFINE v == s.wire
  <2>1. v \in Seq(MessageType) /\ WireOK(v, payloads, epoch) /\ v = <<>> BY <1>4, <1>6
  <2>2. w = Append(v, m) OBVIOUS
  <2> HIDE DEF v, w
  <2>3. Grown(v, m, Append(v, m), payloads, epoch) BY <1>9, <1>11, <2>1, WireGrows
  <2> QED BY <2>1, <2>2, <2>3 DEF Grown
<1> HIDE DEF w
<1>13. /\ t \in StreamType /\ t.wire = w /\ t.fenced = TRUE /\ t.demand = s.demand
       /\ t.link = "open" /\ t.pending = s.pending
  BY <1>2, <1>3, <1>12 DEF StreamType
<1> HIDE DEF t, s
<1>14. t # NoStream BY <1>13, StreamFields
<1>15. StreamOK(t, payloads, epoch) BY <1>6, <1>9, <1>12, <1>13 DEF StreamOK
<1>16. FirstReady(t) BY <1>9, <1>12, <1>13 DEF FirstReady
<1>17. Unread(t) /\ OfEpoch(t, resourceEpoch, epoch) BY <1>5, <1>9, <1>12, <1>13, <1>16 DEF Unread, OfEpoch
<1>18. UNCHANGED <<serverVars, demandVars, copyVars>> BY DEF SendReady
<1> QED BY <1>1, <1>2, <1>10, <1>13, <1>15, <1>17, <1>18, OneStreamStep DEF s

-----------------------------------------------------------------------------
(* The page's demand, and what it opens and closes.                         *)

\* applyClientEventDemand, over streams whose newest is for the signature that is given,
\* where that signature is the demand.
LEMMA Applied ==
  ASSUME IInv, NEW d \in Demand, NEW str, NEW signature, NEW on \in BOOLEAN,
         StreamsOK(str, resourceEpoch, payloads, epoch),
         str["candidate"] # NoStream => str["active"] # NoStream,
         d = signature /\ str["candidate"] # NoStream => str["candidate"].demand = signature,
         d = signature /\ str["active"] # NoStream /\ str["candidate"] = NoStream =>
           str["active"].demand = signature,
         demand' = d, ApplyClientEventDemand(d, str, signature, on)
  PROVE  DemandOK' /\ StreamsOK(stream', resourceEpoch, payloads, epoch)
<1>1. "active" \in Streaming /\ "candidate" \in Streaming
      /\ \A n \in Streaming : n = "active" \/ n = "candidate"
  BY DEF Streaming
<1>2. str \in [Streaming -> {NoStream} \cup StreamType] BY DEF StreamsOK
<1>3. demandTimer' = FALSE /\ demandSignature' = d BY DEF ApplyClientEventDemand
<1>4. CASE /\ d = signature
           /\ stream' = str
           /\ connected' = on
  <2>1. DemandOK' BY <1>3, <1>4 DEF DemandOK, Has
  <2> QED BY <1>4, <2>1
<1>5. CASE stream' = [n \in DOMAIN str |-> NoStream] /\ connected' = FALSE
  <2>1. /\ stream' \in [Streaming -> {NoStream} \cup StreamType]
        /\ stream'["active"] = NoStream /\ stream'["candidate"] = NoStream
    BY <1>1, <1>2, <1>5
  <2>2. \A n \in Streaming : stream'[n] = NoStream BY <1>1, <2>1
  <2>3. DemandOK' BY <1>3, <1>5, <2>1 DEF DemandOK, Has
  <2>4. StreamsOK(stream', resourceEpoch, payloads, epoch) BY <2>1, <2>2, Closed DEF StreamsOK
  <2> QED BY <2>3, <2>4
<1>6. CASE /\ d # signature /\ str["active"] # NoStream
           /\ stream' = [str EXCEPT !["candidate"] = Opened(d)] /\ connected' = on
  <2> DEFINE s == Opened(d)
  <2>1. /\ s \in StreamType /\ s # NoStream /\ s.demand = d
        /\ StreamOK(s, payloads, epoch) /\ Unread(s)
    BY OpenedIs
  <2> HIDE DEF s
  <2>2. stream' = [str EXCEPT !["candidate"] = s] BY <1>6 DEF s
  <2>3. /\ StreamsOK(stream', resourceEpoch, payloads, epoch)
        /\ stream'["candidate"] = s /\ stream'["active"] = str["active"]
    <3>1. stream'["candidate"] = s /\ stream'["active"] = str["active"] BY <1>1, <1>2, <2>2
    <3> DEFINE n == "candidate"
    <3>2. /\ n \in Streaming /\ n # "active" /\ stream' = [str EXCEPT ![n] = s] /\ s \in {NoStream} \cup StreamType
      BY <1>1, <2>1, <2>2
    <3> HIDE DEF n
    <3>3. /\ n = "candidate" => Unread(s)
          /\ n = "active" => OfEpoch(s, resourceEpoch, epoch)
      BY <2>1, <3>2
    <3>4. StreamsOK(stream', resourceEpoch, payloads, epoch) BY <2>1, <3>2, <3>3, OneStream
    <3> QED BY <3>1, <3>4
  <2>4. DemandOK' BY <1>3, <1>6, <2>1, <2>3 DEF DemandOK, Has
  <2> QED BY <2>3, <2>4
<1>7. CASE /\ str["active"] = NoStream
           /\ stream' = [str EXCEPT !["active"] = Opened(d)] /\ connected' = on
  <2> DEFINE s == Opened(d)
  <2>1. /\ s \in StreamType /\ s # NoStream /\ s.demand = d
        /\ StreamOK(s, payloads, epoch) /\ OfEpoch(s, resourceEpoch, epoch)
    BY OpenedIs
  <2> HIDE DEF s
  <2>2. stream' = [str EXCEPT !["active"] = s] BY <1>7 DEF s
  <2>3. /\ StreamsOK(stream', resourceEpoch, payloads, epoch)
        /\ stream'["active"] = s /\ stream'["candidate"] = str["candidate"]
    <3>1. stream'["active"] = s /\ stream'["candidate"] = str["candidate"] BY <1>1, <1>2, <2>2
    <3> DEFINE n == "active"
    <3>2. /\ n \in Streaming /\ n # "candidate" /\ stream' = [str EXCEPT ![n] = s] /\ s \in {NoStream} \cup StreamType
      BY <1>1, <2>1, <2>2
    <3> HIDE DEF n
    <3>3. /\ n = "candidate" => Unread(s)
          /\ n = "active" => OfEpoch(s, resourceEpoch, epoch)
      BY <2>1, <3>2
    <3>4. StreamsOK(stream', resourceEpoch, payloads, epoch) BY <2>1, <3>2, <3>3, OneStream
    <3> QED BY <3>1, <3>4
  <2>4. DemandOK' BY <1>3, <1>7, <2>1, <2>3 DEF DemandOK, Has
  <2> QED BY <2>3, <2>4
<1>8. \/ d = signature /\ stream' = str /\ connected' = on
      \/ stream' = [n \in DOMAIN str |-> NoStream] /\ connected' = FALSE
      \/ /\ d # signature /\ str["active"] # NoStream
         /\ stream' = [str EXCEPT !["candidate"] = Opened(d)] /\ connected' = on
      \/ /\ str["active"] = NoStream
         /\ stream' = [str EXCEPT !["active"] = Opened(d)] /\ connected' = on
  <2> HIDE DEF Opened
  <2> QED BY DEF ApplyClientEventDemand
<1> QED BY <1>4, <1>5, <1>6, <1>7, <1>8

\* The same, over the streams as they are.
LEMMA AppliedHere ==
  ASSUME IInv, NEW d \in Demand, demand' = d,
         ApplyClientEventDemand(d, stream, demandSignature, connected),
         UNCHANGED <<serverVars, copyVars>>, left' \in BudgetType
  PROVE  IInv'
<1>1. DemandOK BY DEF IInv
<1>2. connected \in BOOLEAN BY <1>1 DEF DemandOK
<1>3. /\ stream["candidate"] # NoStream => stream["active"] # NoStream
      /\ d = demandSignature /\ stream["candidate"] # NoStream =>
           stream["candidate"].demand = demandSignature
      /\ d = demandSignature /\ stream["active"] # NoStream /\ stream["candidate"] = NoStream =>
           stream["active"].demand = demandSignature
  BY <1>1 DEF DemandOK, Has
<1>4. DemandOK' /\ StreamsOK(stream', resourceEpoch, payloads, epoch)
  BY <1>2, <1>3, Facts, Applied
<1> QED BY <1>4, StreamStep

\* The user turns to other panes: the change waits for its debounce.
LEMMA PanesChanged ==
  ASSUME IInv, NEW d \in Demand, ChangePanes(d)
  PROVE  IInv'
<1>1. left' \in BudgetType BY Spent DEF IInv, ServerOK, ChangePanes
<1>2. /\ demand' = d /\ demandTimer' = TRUE
      /\ UNCHANGED <<serverVars, stream, demandSignature, connected, copyVars>>
  BY DEF ChangePanes
<1>3. DemandOK' BY <1>2 DEF IInv, DemandOK, Has
<1>4. StreamsOK(stream', resourceEpoch, payloads, epoch)
  BY <1>2, Facts
<1> QED BY <1>1, <1>2, <1>3, <1>4, StreamStep

\* The debounce is over, and the demand is applied.
LEMMA TimerFired ==
  ASSUME IInv, DemandTimer
  PROVE  IInv'
<1>1. left' \in BudgetType /\ demand \in Demand BY DEF IInv, ServerOK, DemandOK, DemandTimer
<1>2. /\ demand' = demand /\ UNCHANGED <<serverVars, copyVars>>
      /\ ApplyClientEventDemand(demand, stream, demandSignature, connected)
  BY DEF DemandTimer
<1> QED BY <1>1, <1>2, AppliedHere

\* The page changes between foreground and background: applied at once.
LEMMA VisibilityChanged ==
  ASSUME IInv, NEW d \in Demand, VisibilityChange(d)
  PROVE  IInv'
<1>1. left' \in BudgetType BY Spent DEF IInv, ServerOK, VisibilityChange
<1>2. /\ demand' = d /\ UNCHANGED <<serverVars, copyVars>>
      /\ ApplyClientEventDemand(d, stream, demandSignature, connected)
  BY DEF VisibilityChange
<1> QED BY <1>1, <1>2, AppliedHere

\* The candidate is closed.
LEMMA WithoutCandidate ==
  ASSUME IInv
  PROVE  LET str == [stream EXCEPT !["candidate"] = NoStream]
         IN  /\ StreamsOK(str, resourceEpoch, payloads, epoch)
             /\ str["candidate"] = NoStream /\ str["active"] = stream["active"]
<1> DEFINE str == [stream EXCEPT !["candidate"] = NoStream]  s == NoStream
<1>1. /\ StreamOK(s, payloads, epoch) /\ Unread(s)
      /\ s \in {NoStream} \cup StreamType
  BY Closed
<1> HIDE DEF s
<1>2. str = [stream EXCEPT !["candidate"] = s] BY DEF s
<1>3. "active" \in Streaming /\ "candidate" \in Streaming BY DEF Streaming
<1> HIDE DEF str
<1>4. /\ StreamsOK(str, resourceEpoch, payloads, epoch)
      /\ str["candidate"] = s /\ str["active"] = stream["active"]
  BY <1>1, <1>2, <1>3, Facts, OneStream
<1> QED BY <1>4 DEF str, s

\* A candidate is dropped or given up: applied where the signature is not the demand.
LEMMA CandidateGone ==
  ASSUME IInv, NEW signature, signature # demand, NEW on \in BOOLEAN, demand' = demand,
         ApplyClientEventDemand(demand, [stream EXCEPT !["candidate"] = NoStream], signature, on),
         UNCHANGED <<serverVars, copyVars>>, left' = left
  PROVE  IInv'
<1> DEFINE str == [stream EXCEPT !["candidate"] = NoStream]
<1>1. /\ StreamsOK(str, resourceEpoch, payloads, epoch)
      /\ str["candidate"] = NoStream
  BY WithoutCandidate
<1>2. ApplyClientEventDemand(demand, str, signature, on) OBVIOUS
<1> HIDE DEF str
<1>3. demand \in Demand /\ left' \in BudgetType BY DEF IInv, DemandOK, ServerOK
<1>4. DemandOK' /\ StreamsOK(stream', resourceEpoch, payloads, epoch)
  BY <1>1, <1>2, <1>3, Applied
<1> QED BY <1>3, <1>4, StreamStep

\* A stream that connects again.
LEMMA Reopening ==
  ASSUME IInv, NEW n \in Streaming, Has(n), NEW a \in Nat,
         stream' = [stream EXCEPT ![n] = [Opened(stream[n].demand) EXCEPT !.attempts = a]],
         UNCHANGED <<serverVars, demandVars, copyVars>>, connected' \in BOOLEAN, left' = left
  PROVE  IInv'
<1> DEFINE s == [Opened(stream[n].demand) EXCEPT !.attempts = a]
<1>1. stream[n].demand \in Demand BY Facts, StreamFields DEF Has
<1>2. /\ s \in StreamType /\ s.demand = stream[n].demand
      /\ StreamOK(s, payloads, epoch) /\ Unread(s) /\ OfEpoch(s, resourceEpoch, epoch)
  BY <1>1, ReopenedIs
<1>3. stream' = [stream EXCEPT ![n] = s] OBVIOUS
<1> HIDE DEF s
<1>4. left' \in BudgetType BY DEF IInv, ServerOK
<1> QED BY <1>2, <1>3, <1>4, OneStreamStep

\* The active stream connects again for the same demand.
LEMMA ActiveErrs ==
  ASSUME IInv, ActiveError
  PROVE  IInv'
<1>1. Has("active") /\ "active" \in Streaming BY DEF ActiveError, Errs, Linked, Streaming
<1>2. stream["active"] \in StreamType BY <1>1, Facts DEF Has
<1>3. stream["active"].attempts \in Nat BY <1>2, StreamFields
<1>4. stream \in [Streaming -> {NoStream} \cup StreamType] BY Facts
<1>5. /\ stream' = [stream EXCEPT !["active"] =
                      [Opened(stream["active"].demand) EXCEPT !.attempts = stream["active"].attempts]]
      /\ UNCHANGED <<serverVars, demandVars, copyVars>> /\ connected' \in BOOLEAN /\ left' = left
  <2> HIDE DEF Opened
  <2> QED BY <1>1, <1>4 DEF ActiveError, Reconnecting
<1> QED BY <1>1, <1>3, <1>5, Reopening

\* The candidate connects again, or is given up and the demand applied anew.
LEMMA CandidateErrs ==
  ASSUME IInv, CandidateError
  PROVE  IInv'
<1>1. Has("candidate") /\ "candidate" \in Streaming BY DEF CandidateError, Errs, Linked, Streaming
<1>2. UNCHANGED <<serverVars, demand, copyVars, left>> BY DEF CandidateError
<1>3. connected \in BOOLEAN /\ demand \in Demand BY DEF IInv, DemandOK
<1> DEFINE s == stream["candidate"]
<1>4. s \in StreamType BY <1>1, Facts DEF Has
<1>5. s.attempts \in Nat BY <1>4, StreamFields
<1>6. CASE /\ stream' = [stream EXCEPT !["candidate"] = [Reconnecting(@) EXCEPT !.attempts = stream["candidate"].attempts + 1]]
           /\ UNCHANGED <<demandSignature, demandTimer, connected>>
  <2> DEFINE x == [Reconnecting(s) EXCEPT !.attempts = s.attempts + 1]
             y == [Opened(s.demand) EXCEPT !.attempts = s.attempts + 1]
  <2>1. x = y BY DEF Reconnecting, Opened
  <2>2. stream \in [Streaming -> {NoStream} \cup StreamType] BY Facts
  <2>3. stream' = [stream EXCEPT !["candidate"] = y]
    <3> HIDE DEF y
    <3>1. stream' = [stream EXCEPT !["candidate"] = x] BY <1>1, <1>6, <2>2
    <3> QED BY <2>1, <3>1
  <2>4. UNCHANGED demandVars BY <1>2, <1>6 DEF demandVars
  <2>5. connected' \in BOOLEAN BY <1>3, <1>6
  <2>6. s.attempts + 1 \in Nat BY <1>5
  <2>7. UNCHANGED <<serverVars, demandVars, copyVars>> /\ left' = left BY <1>2, <2>4
  <2> QED BY <1>1, <2>3, <2>5, <2>6, <2>7, Reopening
<1>7. CASE AbandonCandidate
  <2>1. Unapplied # demand BY <1>3, EventConstants DEF Demand, Unapplied
  <2>2. ApplyClientEventDemand(demand, [stream EXCEPT !["candidate"] = NoStream], Unapplied, FALSE)
    BY <1>7 DEF AbandonCandidate
  <2> QED BY <1>2, <2>1, <2>2, CandidateGone
<1> QED BY <1>6, <1>7 DEF CandidateError

-----------------------------------------------------------------------------
(* What the page receives.                                                  *)

\* The first message of a stream, and what is left of the stream.
ReadOf(s, r, P, e, E) ==
  LET m == s.wire[1]
  IN  /\ Head(s.wire) = m /\ m \in MessageType /\ MessageOK(m, P, E) /\ s.fenced
      /\ r \in StreamType /\ r # NoStream /\ r.demand = s.demand /\ r.fenced /\ ~FirstReady(r)
      /\ StreamOK(r, P, E)
      /\ r.wire # <<>> => r.wire[1].epoch = m.epoch
      /\ r.link = "open" => m.epoch = E

\* The first message is of the wire, and what is left begins with no ready.
LEMMA Reading ==
  ASSUME NEW s \in StreamType, NEW P, NEW e, NEW E, StreamOK(s, P, E), s.wire # <<>>
  PROVE  ReadOf(s, Received(s), P, e, E)
<1> DEFINE w == s.wire  v == Tail(w)  r == Received(s)  m == w[1]
<1>1. /\ s # NoStream /\ w \in Seq(MessageType) /\ s.fenced \in BOOLEAN BY StreamFields
<1>2. /\ WireOK(w, P, E) /\ s.fenced
      /\ s.link = "connecting" => ~s.fenced
      /\ s.link = "open" => /\ m.epoch = E
                            /\ s.pending = 0 \/ s.pending \in Counted(P, E)
  BY <1>1 DEF StreamOK
<1>3. /\ v \in Seq(MessageType) /\ WireOK(v, P, E)
      /\ Head(w) = m /\ m \in MessageType /\ MessageOK(m, P, E)
      /\ v # <<>> => v[1].epoch = m.epoch /\ v[1].type # "ready"
  <2> HIDE DEF w
  <2>1. w # <<>> BY DEF w
  <2>2. LeftOf(w, Tail(w), P, E) BY <1>1, <1>2, <2>1, WireReads
  <2> QED BY <2>2 DEF LeftOf
<1>4. r = [s EXCEPT !.wire = v] BY DEF Received
<1> HIDE DEF v
<1>5. /\ r \in StreamType /\ r.wire = v /\ r.demand = s.demand /\ r.fenced = s.fenced
      /\ r.link = s.link /\ r.pending = s.pending
  BY <1>3, <1>4 DEF StreamType
<1> HIDE DEF r, m, w
<1>6. r # NoStream BY <1>5, StreamFields
<1>7. ~FirstReady(r) BY <1>3, <1>5 DEF FirstReady
<1>8. r.wire # <<>> => r.wire[1].epoch = m.epoch BY <1>3, <1>5
<1>9. StreamOK(r, P, E) BY <1>2, <1>3, <1>5, <1>8 DEF StreamOK
<1> QED BY <1>2, <1>3, <1>5, <1>6, <1>7, <1>8, <1>9 DEF ReadOf, r, m, w

\* A stream whose ready is read is of the process of that ready.
LEMMA ReadIsOfEpoch ==
  ASSUME NEW s, NEW r, NEW P, NEW e, NEW E, ReadOf(s, r, P, e, E)
  PROVE  OfEpoch(r, s.wire[1].epoch, E)
BY DEF ReadOf, OfEpoch

\* A candidate that is ready takes the active stream's place: it is all that is left.
LEMMA Promoted ==
  ASSUME IInv, Has("candidate"), stream["candidate"].wire # <<>>, PromoteCandidate,
         UNCHANGED <<serverVars, demand, left>>
  PROVE  IInv'
<1> DEFINE s == stream["candidate"]  r == Received(s)  m == s.wire[1]  q == HandleReady(Page, m)
<1>1. /\ s \in StreamType /\ StreamOK(s, payloads, epoch) /\ Unread(s) /\ s # NoStream BY Facts DEF Has
<1>2. ReadOf(s, r, payloads, resourceEpoch, epoch) BY <1>1, Reading
<1>3. /\ stream' = [active |-> r, candidate |-> NoStream] /\ connected' = TRUE
      /\ SetPage(HandleReady(Page, Head(s.wire))) /\ s.demand = demand
      /\ UNCHANGED <<demandSignature, demandTimer>>
  BY DEF PromoteCandidate
<1> HIDE DEF r, s
<1>6. /\ stream' \in [Streaming -> {NoStream} \cup StreamType]
      /\ stream'["active"] = r /\ stream'["candidate"] = NoStream
  BY <1>2, <1>3 DEF ReadOf, Streaming
<1>8. m \in MessageType /\ MessageOK(m, payloads, epoch) BY <1>2 DEF ReadOf
<1>9. PageOK(q, payloads, epoch) /\ q.epoch = m.epoch
  <2> HIDE DEF m, Page
  <2> QED BY <1>8, Facts, ReadyKeeps
<1>10. SetPage(q) BY <1>2, <1>3 DEF ReadOf
<1> HIDE DEF q
<1>11. Page' = q /\ resourceEpoch' = q.epoch
  <2>1. q \in PageType BY <1>9 DEF PageOK
  <2> QED BY <1>10, <2>1, SetPageIs
<1>12. StreamsOK(stream', q.epoch, payloads, epoch)
  <2>1. OfEpoch(r, q.epoch, epoch) BY <1>2, <1>9, ReadIsOfEpoch
  <2>2. StreamOK(r, payloads, epoch) BY <1>2 DEF ReadOf
  <2>3. StreamOK(NoStream, payloads, epoch) /\ Unread(NoStream) BY Closed
  <2>4. \A n \in Streaming : stream'[n] = r \/ stream'[n] = NoStream BY <1>6 DEF Streaming
  <2>5. \A n \in Streaming : StreamOK(stream'[n], payloads, epoch) BY <2>2, <2>3, <2>4
  <2>6. Unread(stream'["candidate"]) /\ OfEpoch(stream'["active"], q.epoch, epoch) BY <1>6, <2>1, <2>3
  <2> QED BY <1>6, <2>5, <2>6 DEF StreamsOK
<1>13. DemandOK'
  <2>1. r.demand = s.demand /\ r # NoStream BY <1>2 DEF ReadOf
  <2>2. s.demand = demandSignature BY DEF IInv, DemandOK, s
  <2>3. DemandOK /\ demand' = demand BY DEF IInv
  <2> QED BY <1>3, <1>6, <2>1, <2>2, <2>3 DEF DemandOK, Has
<1>14. UNCHANGED <<windows, epoch, payloads, left>> BY DEF serverVars
<1>15. ServerOK' BY <1>14 DEF IInv, ServerOK
<1>16. PageOK(Page', payloads', epoch') /\ StreamsOK(stream', resourceEpoch', payloads', epoch')
  BY <1>9, <1>11, <1>12, <1>14
<1> QED BY <1>13, <1>15, <1>16 DEF IInv

\* The ready of a candidate promotes or drops it.
LEMMA ReceivingOnCandidate ==
  ASSUME IInv, ReceiveOnCandidate
  PROVE  IInv'
<1>1. /\ Has("candidate") /\ stream["candidate"].wire # <<>> /\ UNCHANGED <<serverVars, demand, left>>
      /\ DropCandidate \/ PromoteCandidate
  BY DEF ReceiveOnCandidate
<1>2. CASE DropCandidate
  <2>1. demandSignature # demand BY <1>1, <1>2 DEF DropCandidate, IInv, DemandOK
  <2>2. connected \in BOOLEAN BY DEF IInv, DemandOK
  <2>3. /\ ApplyClientEventDemand(demand, [stream EXCEPT !["candidate"] = NoStream], demandSignature, connected)
        /\ UNCHANGED copyVars
    BY <1>2 DEF DropCandidate
  <2> QED BY <1>1, <2>1, <2>2, <2>3, CandidateGone
<1> QED BY <1>1, <1>2, Promoted

\* The active stream's message is of the adopted process, or a ready.
LEMMA Receiving ==
  ASSUME IInv, Receive
  PROVE  IInv'
<1> DEFINE s == stream["active"]  r == Received(s)  m == s.wire[1]
           q == IF m.type = "ready" THEN HandleReady(Page, m) ELSE HandleClientPushEvent(Page, m)
<1>1. Has("active") /\ s.wire # <<>> BY DEF Receive
<1>2. /\ s \in StreamType /\ StreamOK(s, payloads, epoch) /\ OfEpoch(s, resourceEpoch, epoch) /\ s # NoStream
  BY <1>1, Facts DEF Has
<1>3. ReadOf(s, r, payloads, resourceEpoch, epoch) BY <1>1, <1>2, Reading
<1>4. /\ stream' = [stream EXCEPT !["active"] = r] /\ connected' = TRUE
      /\ UNCHANGED <<serverVars, demandVars, left>>
  BY DEF Receive
<1>5. SetPage(q) BY <1>3 DEF Receive, ReadOf
<1> HIDE DEF r
<1>6. /\ r \in StreamType /\ r # NoStream /\ r.demand = s.demand /\ r.fenced /\ ~FirstReady(r)
      /\ StreamOK(r, payloads, epoch) /\ s.fenced
      /\ m \in MessageType /\ MessageOK(m, payloads, epoch)
  BY <1>3 DEF ReadOf
<1>8. PageOK(Page, payloads, epoch) /\ Page.epoch = resourceEpoch /\ PayloadsOK
      /\ epoch \in 1 .. MaxEpochs
  BY Facts
<1>9. m.epoch \in 1 .. MaxEpochs /\ m.epoch \in Nat BY <1>6, EventConstants DEF MessageType
<1>10. PageOK(q, payloads, epoch) /\ q.epoch = m.epoch
  <2>1. CASE m.type = "ready"
    <3> HIDE DEF m, Page
    <3>1. LET k == HandleReady(Page, m) IN PageOK(k, payloads, epoch) /\ k.epoch = m.epoch
      BY <1>6, <1>8, ReadyKeeps
    <3> QED BY <2>1, <3>1
  <2>2. CASE m.type # "ready"
    <3>1. ~FirstReady(s) BY <2>2 DEF FirstReady
    <3>2. m.epoch = Page.epoch BY <1>1, <1>2, <1>6, <1>8, <3>1 DEF OfEpoch
    <3>3. m.rev \in Counted(payloads, Page.epoch) BY <1>6, <2>2, <3>2 DEF MessageOK
    <3>4. Page.epoch # NoEpoch BY <1>9, <3>2 DEF NoEpoch
    <3> HIDE DEF m, Page
    <3>6. LET k == HandleClientPushEvent(Page, m) IN PageOK(k, payloads, epoch) /\ k.epoch = Page.epoch
      BY <1>8, <3>2, <3>3, <3>4, PushKeeps
    <3> QED BY <2>2, <3>2, <3>6
  <2> QED BY <2>1, <2>2
<1> HIDE DEF q, s
<1>11. Page' = q /\ resourceEpoch' = q.epoch
  <2>1. q \in PageType BY <1>10 DEF PageOK
  <2> QED BY <1>5, <2>1, SetPageIs
<1>12. stream' \in [Streaming -> {NoStream} \cup StreamType] /\ stream'["active"] = r
       /\ stream'["candidate"] = stream["candidate"]
       /\ \A n \in Streaming : stream'[n] = r \/ stream'[n] = stream[n]
  BY <1>4, <1>6, Facts DEF Streaming
<1>13. StreamsOK(stream', q.epoch, payloads, epoch)
  <2>1. OfEpoch(r, q.epoch, epoch) BY <1>3, <1>10, ReadIsOfEpoch
  <2>2. \A n \in Streaming : StreamOK(stream'[n], payloads, epoch) BY <1>6, <1>12, Facts
  <2>3. Unread(stream'["candidate"]) BY <1>12, Facts
  <2> QED BY <1>12, <2>1, <2>2, <2>3 DEF StreamsOK
<1>14. DemandOK'
  <2>1. \A k \in Streaming : /\ stream'[k] = NoStream <=> stream[k] = NoStream
                             /\ stream[k] # NoStream => stream'[k].demand = stream[k].demand
    <3>1. \A k \in Streaming : k = "active" \/ k = "candidate" BY DEF Streaming
    <3> QED BY <1>2, <1>6, <1>12, <3>1 DEF s
  <2> QED BY <1>4, <1>12, <2>1, SameDemand
<1>15. UNCHANGED <<windows, epoch, payloads, left>> BY <1>4 DEF serverVars
<1>16. ServerOK' BY <1>15 DEF IInv, ServerOK
<1>17. PageOK(Page', payloads', epoch') /\ StreamsOK(stream', resourceEpoch', payloads', epoch')
  BY <1>10, <1>11, <1>13, <1>15
<1> QED BY <1>14, <1>16, <1>17 DEF IInv

-----------------------------------------------------------------------------
(* The page's copy: frames, reads and repairs.                              *)

\* A step of the copy alone, that stays with the process it has adopted.
LEMMA CopyStep ==
  ASSUME IInv, UNCHANGED <<serverVars, stream, demandVars, connected, left>>,
         NEW q, Page' = q, q.epoch = Page.epoch, PageOK(q, payloads, epoch)
  PROVE  IInv'
<1>1. /\ UNCHANGED <<windows, epoch, payloads>> /\ UNCHANGED <<demand, demandSignature, demandTimer>>
      /\ UNCHANGED <<stream, connected, left>>
  BY DEF serverVars, demandVars
<1>2. ServerOK' BY <1>1 DEF IInv, ServerOK
<1>3. DemandOK' BY <1>1 DEF IInv, DemandOK, Has
<1>4. resourceEpoch' = resourceEpoch
  <2>1. Page'.epoch = resourceEpoch' /\ Page.epoch = resourceEpoch BY DEF Page
  <2> QED BY <2>1
<1>5. PageOK(Page', payloads', epoch') /\ StreamsOK(stream', resourceEpoch', payloads', epoch')
  BY <1>1, <1>4, Facts
<1> QED BY <1>2, <1>3, <1>5 DEF IInv

\* What is queued is applied.
LEMMA FrameShown ==
  ASSUME IInv, Frame
  PROVE  IInv'
<1> DEFINE q == FlushQueuedClientPushEvents(Page)
<1>1. queued # NoEvent /\ SetPage(q) /\ UNCHANGED <<serverVars, stream, demandVars, connected, left>>
  BY DEF Frame
<1>2. Page.event # NoEvent BY <1>1 DEF Page
<1>3. PageOK(q, payloads, epoch) /\ q.epoch = Page.epoch
  <2> HIDE DEF Page
  <2> QED BY <1>2, Facts, FlushKeeps
<1> HIDE DEF q
<1>4. Page' = q
  <2>1. q \in PageType BY <1>3 DEF PageOK
  <2> QED BY <1>1, <2>1, SetPageIs
<1> QED BY <1>1, <1>3, <1>4, CopyStep

\* The variables of the copy, named by the record's fields.
LEMMA PageIs ==
  /\ Page.epoch = resourceEpoch /\ Page.rev = revision /\ Page.state = tmuxSignalState
  /\ Page.event = queued /\ Page.repair = repair /\ Page.stray = stray /\ Page.spoiled = spoiled
BY DEF Page

\* A read is as new as the server's payloads, and so as what it repairs.
LEMMA ServingRead ==
  ASSUME IInv, ServeRead
  PROVE  IInv'
<1>1. /\ repair # NoRepair
      /\ \E x \in {Answered(windows), Failed} : repair' = [repair EXCEPT !.read = x]
      /\ UNCHANGED <<serverVars, stream, demandVars, connected, left>>
      /\ UNCHANGED <<resourceEpoch, revision, tmuxSignalState, queued, stray, spoiled>>
  BY DEF ServeRead
<1>2. PICK x \in {Answered(windows), Failed} : repair' = [repair EXCEPT !.read = x] BY <1>1
<1> DEFINE y == [repair EXCEPT !.read = x]  q == [Page EXCEPT !.repair = y]
<1>3. PageOK(Page, payloads, epoch) /\ PayloadsOK BY Facts
<1>4. Page \in PageType BY <1>3 DEF PageOK
<1>5. repair \in RepairType
  <2>1. Page.repair \in {NoRepair} \cup RepairType BY <1>4, PageFields
  <2> QED BY <1>1, <2>1, PageIs
<1>6. windows \in Signals BY DEF IInv, ServerOK
<1>7. x \in ReadType /\ (x.phase = "answered" => x.windows = windows)
  BY <1>6 DEF Answered, Failed, ReadType
<1>8. /\ y \in RepairType /\ y.epoch = repair.epoch /\ y.target = repair.target
      /\ y.repairing = repair.repairing /\ y.read = x
  BY <1>5, <1>7 DEF RepairType
<1>9. Page' = q BY <1>1, <1>2 DEF Page
<1> HIDE DEF y, q
<1>10. /\ q \in PageType /\ q.repair = y
       /\ q.epoch = Page.epoch /\ q.rev = Page.rev /\ q.state = Page.state
       /\ q.event = Page.event /\ q.stray = Page.stray /\ q.spoiled = Page.spoiled
  <2>1. q = [Page EXCEPT !.repair = y] BY DEF q
  <2> HIDE DEF Page
  <2> QED BY <1>4, <1>8, <2>1, RepairSet
<1>11. Page.repair = repair /\ Page.epoch = resourceEpoch BY PageIs
<1> HIDE DEF Page
<1>12. /\ repair.epoch = Page.epoch
       /\ repair.target \in Counted(payloads, Page.epoch) /\ repair.repairing \in Counted(payloads, Page.epoch)
  BY <1>1, <1>3, <1>11 DEF PageOK, RepairOK
<1>13. y # NoRepair
  <2>1. repair.epoch \in 1 .. MaxEpochs BY <1>5 DEF RepairType
  <2>2. repair.target \in Nat \ {0} BY <1>3, <1>12, <2>1, CountedHas
  <2> QED BY <1>8, <2>2 DEF NoRepair
<1>14. RepairOK(q, payloads)
  <2>1. repair.epoch \in 1 .. MaxEpochs BY <1>5 DEF RepairType
  <2>2. repair.repairing + 1 \in DOMAIN payloads[repair.epoch] BY <1>3, <1>12, <2>1, CountedHas
  <2>3. AtLeast(windows, payloads[repair.epoch][repair.repairing + 1])
    BY <2>1, <2>2 DEF IInv, ServerOK
  <2> QED BY <1>7, <1>8, <1>10, <1>12, <2>3 DEF RepairOK
<1>15. QueueOK(q, payloads) BY <1>3, <1>10 DEF PageOK, QueueOK, Fresh
<1>16. HonestOK(q, payloads) BY <1>10, <1>13 DEF HonestOK
<1>17. PageOK(q, payloads, epoch)
  BY <1>3, <1>10, <1>14, <1>15, <1>16 DEF PageOK
<1> QED BY <1>1, <1>9, <1>10, <1>17, CopyStep

\* A read that is applied has the revision that it repairs, and a failed one is a damage.
LEMMA RepairEnding ==
  ASSUME IInv, RepairEnds
  PROVE  IInv'
<1> DEFINE p == Page
<1>1. /\ repair # NoRepair
      /\ UNCHANGED <<serverVars, stream, demandVars, connected, left>>
      /\ UNCHANGED <<resourceEpoch, queued, stray>>
  BY DEF RepairEnds
<1>2. PageOK(p, payloads, epoch) /\ PayloadsOK BY Facts
<1>3. /\ p \in PageType
      /\ p.rev = 0 \/ (p.epoch # NoEpoch /\ p.rev \in Counted(payloads, p.epoch))
      /\ p.epoch <= epoch
      /\ RepairOK(p, payloads) /\ QueueOK(p, payloads)
  BY <1>2 DEF PageOK
<1>4. /\ p.epoch = resourceEpoch /\ p.rev = revision /\ p.state = tmuxSignalState
      /\ p.event = queued /\ p.repair = repair /\ p.stray = stray /\ p.spoiled = spoiled
  BY PageIs
<1>5. Page' = [epoch |-> resourceEpoch, rev |-> revision', state |-> tmuxSignalState',
               event |-> queued, repair |-> repair', stray |-> stray, spoiled |-> spoiled']
  BY <1>1 DEF Page
<1> HIDE DEF p
<1>6. /\ p.epoch \in 0 .. MaxEpochs /\ p.rev \in Nat /\ p.state \in {NoCopy} \cup CopyType
      /\ p.event \in {NoEvent} \cup EventType /\ p.repair \in {NoRepair} \cup RepairType
      /\ p.stray \in ReadType /\ p.spoiled \in SUBSET Spoils
  BY <1>3, PageFields
<1> DEFINE e == repair.epoch  g == repair.repairing  t == repair.target  R == repair.read
<1>7. /\ repair \in RepairType /\ e \in 1 .. MaxEpochs /\ e = resourceEpoch /\ e # NoEpoch /\ R \in ReadType
      /\ t \in Counted(payloads, e) /\ g \in Counted(payloads, e)
      /\ R.phase = "answered" => AtLeast(R.windows, payloads[e][g + 1])
  BY <1>1, <1>3, <1>4, <1>6 DEF RepairOK, RepairType, NoEpoch
<1>8. t \in Nat \ {0} /\ g \in Nat \ {0}
  <2> HIDE DEF e, g, t
  <2> QED BY <1>2, <1>7, CountedHas
<1>9. CASE R.phase = "answered"
  <2> DEFINE x == Copy(R.windows)
             u == IF queued = NoEvent \/ queued.stale THEN {} ELSE spoiled \cup {"undone"}
             a == [repair EXCEPT !.repairing = t, !.read = Asked]
  <2>1. /\ tmuxSignalState' = x
        /\ \/ repair' = a /\ revision' = revision /\ spoiled' = spoiled
           \/ repair' = NoRepair /\ revision' = g /\ spoiled' = u
    <3>1. R # Failed BY <1>9 DEF Failed
    <3> QED BY <1>9, <3>1 DEF RepairEnds
  <2>2. R.windows \in Signals BY <1>7, <1>9 DEF ReadType, Failed, Asked
  <2>3. x \in CopyType /\ x.windows = R.windows BY <2>2 DEF CopyType, Copy
  <2>4. u \in SUBSET Spoils /\ (Fresh(p) => u # {}) BY <1>4, <1>6 DEF Spoils, Fresh
  <2>5. a \in RepairType /\ a.epoch = e /\ a.target = t /\ a.repairing = t /\ a.read.phase = "asked"
    <3>1. Asked \in ReadType /\ Asked.phase = "asked" BY DEF ReadType, Asked
    <3> HIDE DEF Asked
    <3> QED BY <1>7, <1>8, <3>1 DEF RepairType
  <2> HIDE DEF x, u, a
  <2> DEFINE q == [epoch |-> e, rev |-> revision', state |-> x,
                   event |-> queued, repair |-> repair', stray |-> stray, spoiled |-> spoiled']
  <2>6. Page' = q BY <1>5, <1>7, <2>1
  <2>7. /\ repair' \in {NoRepair} \cup RepairType /\ revision' \in Nat
        /\ spoiled' \in SUBSET Spoils
    BY <1>4, <1>6, <1>8, <2>1, <2>4, <2>5
  <2>8. q \in PageType
    <3>1. /\ e \in 0 .. MaxEpochs /\ queued \in {NoEvent} \cup EventType /\ stray \in ReadType
      BY <1>4, <1>6, <1>7
    <3> QED BY <2>3, <2>7, <3>1 DEF PageType
  <2>9. /\ q.epoch = e /\ q.rev = revision' /\ q.state = x /\ q.event = p.event /\ q.repair = repair'
        /\ q.spoiled = spoiled'
    BY <1>4
  <2> HIDE DEF q
  <2>10. Fresh(q) <=> Fresh(p) BY <2>9 DEF Fresh
  <2>11. QueueOK(q, payloads)
    <3> SUFFICES ASSUME Fresh(p)
                 PROVE  /\ p.event.epoch = e /\ p.event.rev \in Counted(payloads, e)
                        /\ spoiled' = {} => p.event.rev = revision'
      BY <2>9, <2>10 DEF QueueOK
    <3>1. /\ p.event.epoch = e /\ p.event.rev \in Counted(payloads, e)
          /\ spoiled = {} => p.event.rev = revision
      BY <1>3, <1>4, <1>7 DEF QueueOK
    <3> QED BY <2>1, <2>4, <3>1
  <2>12. RepairOK(q, payloads) BY <1>7, <2>1, <2>5, <2>9 DEF RepairOK
  <2>13. HonestOK(q, payloads)
    <3>1. CASE repair' = a
      <4>1. a # NoRepair BY <1>8, <2>5 DEF NoRepair
      <4> QED BY <2>9, <3>1, <4>1 DEF HonestOK
    <3>2. CASE repair' = NoRepair /\ revision' = g /\ spoiled' = u
      <4>1. AtLeast(x.windows, payloads[e][g + 1]) BY <1>7, <1>9, <2>3
      <4> QED BY <1>8, <2>4, <2>9, <2>10, <3>2, <4>1 DEF HonestOK
    <3> QED BY <2>1, <3>1, <3>2
  <2>14. q.rev = 0 \/ (q.epoch # NoEpoch /\ q.rev \in Counted(payloads, q.epoch))
    BY <1>3, <1>4, <1>7, <2>1, <2>9
  <2>15. q.epoch <= epoch BY <1>3, <1>4, <1>7, <2>9
  <2>16. PageOK(q, payloads, epoch)
    BY <2>8, <2>11, <2>12, <2>13, <2>14, <2>15 DEF PageOK
  <2>17. q.epoch = Page.epoch BY <1>4, <1>7, <2>9 DEF p
  <2> QED BY <1>1, <2>6, <2>16, <2>17, CopyStep
<1>10. CASE R.phase # "answered"
  <2> DEFINE u == spoiled \cup {"unrepaired"}
  <2>1. repair' = NoRepair /\ spoiled' = u /\ UNCHANGED <<tmuxSignalState, revision>>
    BY <1>10 DEF RepairEnds
  <2>2. u \in SUBSET Spoils /\ u # {} BY <1>4, <1>6 DEF Spoils
  <2> HIDE DEF u
  <2> DEFINE q == [epoch |-> resourceEpoch, rev |-> revision, state |-> tmuxSignalState,
                   event |-> queued, repair |-> NoRepair, stray |-> stray, spoiled |-> u]
  <2>3. Page' = q BY <1>5, <2>1
  <2>4. q \in PageType BY <1>4, <1>6, <2>2 DEF PageType
  <2>5. /\ q.epoch = p.epoch /\ q.rev = p.rev /\ q.state = p.state /\ q.event = p.event
        /\ q.repair = NoRepair /\ q.spoiled = u
    BY <1>4
  <2> HIDE DEF q
  <2>7. QueueOK(q, payloads)
    <3>1. Fresh(q) <=> Fresh(p) BY <2>5 DEF Fresh
    <3> QED BY <1>3, <2>2, <2>5, <3>1 DEF QueueOK
  <2>8. RepairOK(q, payloads) /\ HonestOK(q, payloads) BY <2>2, <2>5 DEF RepairOK, HonestOK
  <2>9. PageOK(q, payloads, epoch) BY <1>3, <2>4, <2>5, <2>7, <2>8 DEF PageOK
  <2>10. q.epoch = Page.epoch BY <2>5 DEF p
  <2> QED BY <1>1, <2>3, <2>9, <2>10, CopyStep
<1> QED BY <1>9, <1>10

\* A stray read is a damage, or is made good by the repair that runs.
LEMMA StrayAnswered ==
  ASSUME IInv, StrayAnswer
  PROVE  IInv'
<1> DEFINE v == IF stray = Asked THEN windows ELSE stray.windows
           x == Copy(v)
           u == IF repair = NoRepair THEN spoiled \cup {"stray"} ELSE spoiled
           q == [epoch |-> resourceEpoch, rev |-> revision, state |-> x, event |-> queued,
                 repair |-> repair, stray |-> Failed, spoiled |-> u]
<1>1. /\ stray # Failed /\ stray' = Failed /\ tmuxSignalState' = x
      /\ UNCHANGED <<serverVars, stream, demandVars, connected, left>>
      /\ UNCHANGED <<resourceEpoch, revision, queued, repair>> /\ spoiled' = u
  BY DEF StrayAnswer
<1>2. PageOK(Page, payloads, epoch) BY Facts
<1>3. Page \in PageType BY <1>2 DEF PageOK
<1>4. stray \in ReadType
  <2>1. Page.stray \in ReadType BY <1>3, PageFields
  <2> QED BY <2>1, PageIs
<1>5. windows \in Signals BY DEF IInv, ServerOK
<1>6. v \in Signals BY <1>1, <1>4, <1>5 DEF ReadType
<1> HIDE DEF v
<1>7. x \in CopyType BY <1>6 DEF CopyType, Copy
<1> HIDE DEF x
<1>8. /\ u \in SUBSET Spoils /\ spoiled \subseteq u
      /\ repair = NoRepair => u # {}
  <2>1. Page.spoiled \in SUBSET Spoils BY <1>3, PageFields
  <2> QED BY <2>1, PageIs DEF Spoils
<1> HIDE DEF u
<1>9. Page' = q
  <2>1. /\ resourceEpoch' = resourceEpoch /\ revision' = revision /\ tmuxSignalState' = x
        /\ queued' = queued /\ repair' = repair /\ stray' = Failed /\ spoiled' = u
    BY <1>1
  <2> HIDE DEF Failed
  <2> QED BY <2>1 DEF Page
<1> HIDE DEF Page
<1>10. Failed \in ReadType BY DEF ReadType
<1>11. /\ q \in PageType /\ q.epoch = Page.epoch /\ q.rev = Page.rev /\ q.state = x
       /\ q.event = Page.event /\ q.repair = Page.repair /\ q.spoiled = u
  <2>1. /\ resourceEpoch \in 0 .. MaxEpochs /\ revision \in Nat /\ x \in {NoCopy} \cup CopyType
        /\ queued \in {NoEvent} \cup EventType /\ repair \in {NoRepair} \cup RepairType
        /\ Failed \in ReadType
    BY <1>3, <1>7, <1>10, PageFields, PageIs
  <2>2. q \in PageType BY <1>8, <2>1 DEF PageType
  <2> QED BY <2>2, PageIs
<1> HIDE DEF q
<1>12. RepairOK(q, payloads) BY <1>2, <1>11 DEF PageOK, RepairOK
<1>13. QueueOK(q, payloads)
  <2>1. u = {} => Page.spoiled = {} BY <1>8, PageIs
  <2> QED BY <1>2, <1>11, <2>1 DEF PageOK, QueueOK, Fresh
<1>14. HonestOK(q, payloads) BY <1>8, <1>11, PageIs DEF HonestOK
<1>15. PageOK(q, payloads, epoch) BY <1>2, <1>11, <1>12, <1>13, <1>14 DEF PageOK
<1> QED BY <1>1, <1>9, <1>11, <1>15, CopyStep

-----------------------------------------------------------------------------
(* The server's own steps.                                                  *)

\* The windows only get newer.
LEMMA WindowsChanged ==
  ASSUME IInv, NEW k \in Window, TmuxChanges(k)
  PROVE  IInv'
<1>1. /\ windows' = [windows EXCEPT ![k] = @ + 1]
      /\ UNCHANGED <<epoch, payloads, stream, demandVars, connected, copyVars, left>>
  BY DEF TmuxChanges
<1>2. windows \in [Window -> Nat] BY DEF IInv, ServerOK, Signals
<1>3. windows' \in Signals /\ \A w \in Window : windows'[w] >= windows[w] /\ windows[w] \in Nat /\ windows'[w] \in Nat
  BY <1>1, <1>2 DEF Signals
<1>4. ASSUME NEW e \in 1 .. MaxEpochs, NEW i \in DOMAIN payloads[e]
      PROVE  AtLeast(windows', payloads[e][i])
  <2>1. AtLeast(windows, payloads[e][i]) BY DEF IInv, ServerOK
  <2>2. payloads[e][i] \in [Window -> Nat]
    <3>1. payloads[e] \in Seq(Signals) BY DEF IInv, ServerOK
    <3>2. i \in 1 .. Len(payloads[e]) BY <3>1
    <3> QED BY <3>1, <3>2, ElementOfSeq DEF Signals
  <2>3. \A w \in Window : payloads[e][i][w] \in Nat BY <2>2
  <2> QED BY <1>3, <2>1, <2>3 DEF AtLeast
<1>5. ServerOK' BY <1>1, <1>3, <1>4 DEF IInv, ServerOK
<1>6. DemandOK' BY <1>1 DEF IInv, DemandOK, Has, demandVars
<1>7. Page' = Page /\ resourceEpoch' = resourceEpoch BY <1>1, SamePage
<1>8. PageOK(Page', payloads', epoch') /\ StreamsOK(stream', resourceEpoch', payloads', epoch')
  BY <1>1, <1>7, Facts
<1> QED BY <1>5, <1>6, <1>8 DEF IInv

\* What is said with payloads P is said with the longer ones Q.
Longer(P, Q) ==
  \A e \in 1 .. MaxEpochs :
    /\ Len(P[e]) \in Nat /\ Len(Q[e]) \in Nat /\ Len(P[e]) <= Len(Q[e])
    /\ \A i \in 1 .. Len(P[e]) : Q[e][i] = P[e][i]

\* A longer list of payloads has the same ones at the same revisions.
LEMMA LongerCounted ==
  ASSUME NEW P, NEW Q, Longer(P, Q), NEW e \in 1 .. MaxEpochs
  PROVE  /\ Counted(P, e) \subseteq Counted(Q, e)
         /\ \A r \in Counted(P, e) : Q[e][r] = P[e][r] /\ Q[e][r + 1] = P[e][r + 1]
         /\ Len(P[e]) > 1 => Len(Q[e]) > 1 /\ Q[e][1] = P[e][1]
BY DEF Longer, Counted

\* What holds of the copy holds of it when a payload is added.
LEMMA LongerPage ==
  ASSUME NEW p, NEW P, NEW Q, NEW E, PageOK(p, P, E), Longer(P, Q)
  PROVE  PageOK(p, Q, E)
<1>1. /\ p \in PageType
      /\ p.rev = 0 \/ (p.epoch # NoEpoch /\ p.rev \in Counted(P, p.epoch))
      /\ p.epoch <= E
      /\ RepairOK(p, P) /\ QueueOK(p, P) /\ HonestOK(p, P)
  BY DEF PageOK
<1>2. /\ p.epoch \in 0 .. MaxEpochs /\ p.rev \in Nat /\ p.state \in {NoCopy} \cup CopyType
      /\ p.event \in {NoEvent} \cup EventType /\ p.repair \in {NoRepair} \cup RepairType
  BY <1>1, PageFields
<1>3. p.epoch # NoEpoch => p.epoch \in 1 .. MaxEpochs BY <1>2, EventConstants DEF NoEpoch
<1>4. p.rev = 0 \/ (p.epoch # NoEpoch /\ p.rev \in Counted(Q, p.epoch)) BY <1>1, <1>3, LongerCounted
<1>5. RepairOK(p, Q)
  <2> SUFFICES ASSUME p.repair # NoRepair
               PROVE  /\ p.repair.epoch = p.epoch
                      /\ p.repair.target \in Counted(Q, p.epoch) /\ p.repair.repairing \in Counted(Q, p.epoch)
                      /\ p.repair.read.phase = "answered" =>
                           AtLeast(p.repair.read.windows, Q[p.epoch][p.repair.repairing + 1])
    BY DEF RepairOK
  <2>1. p.repair.epoch = p.epoch /\ p.repair.epoch \in 1 .. MaxEpochs BY <1>1, <1>2 DEF RepairOK, RepairType
  <2> QED BY <1>1, <2>1, LongerCounted DEF RepairOK
<1>6. QueueOK(p, Q)
  <2> SUFFICES ASSUME Fresh(p)
               PROVE  /\ p.event.epoch = p.epoch /\ p.event.rev \in Counted(Q, p.epoch)
                      /\ p.spoiled = {} => p.event.rev = p.rev
    BY DEF QueueOK
  <2>1. p.event.epoch = p.epoch /\ p.event.epoch \in 1 .. MaxEpochs
    BY <1>1, <1>2 DEF QueueOK, EventType, Fresh
  <2> QED BY <1>1, <2>1, LongerCounted DEF QueueOK
<1>7. HonestOK(p, Q)
  <2> SUFFICES ASSUME p.state # NoCopy, p.spoiled = {}, p.repair = NoRepair
               PROVE  /\ p.rev # 0
                      /\ AtLeast(p.state.windows, Q[p.epoch][IF Fresh(p) THEN p.rev ELSE p.rev + 1])
    BY DEF HonestOK
  <2>1. /\ p.rev # 0
        /\ AtLeast(p.state.windows, P[p.epoch][IF Fresh(p) THEN p.rev ELSE p.rev + 1])
    BY <1>1 DEF HonestOK
  <2>2. p.epoch \in 1 .. MaxEpochs /\ p.rev \in Counted(P, p.epoch) BY <1>1, <1>3, <2>1
  <2> QED BY <2>1, <2>2, LongerCounted
<1> QED BY <1>1, <1>4, <1>5, <1>6, <1>7 DEF PageOK

\* What holds of a stream holds of it when a payload is added.
LEMMA LongerStream ==
  ASSUME NEW s \in {NoStream} \cup StreamType, NEW P, NEW Q, NEW E \in 1 .. MaxEpochs, StreamOK(s, P, E), Longer(P, Q)
  PROVE  StreamOK(s, Q, E)
<1> SUFFICES ASSUME s # NoStream PROVE StreamOK(s, Q, E) BY DEF StreamOK
<1>1. Counted(P, E) \subseteq Counted(Q, E) BY LongerCounted
<1>2. WireOK(s.wire, P, E) BY DEF StreamOK
<1>3. s.wire \in Seq(MessageType) BY StreamFields
<1>4. ASSUME NEW i \in DOMAIN s.wire PROVE MessageOK(s.wire[i], Q, E)
  <2> DEFINE m == s.wire[i]
  <2>1. MessageOK(m, P, E) BY <1>2 DEF WireOK
  <2> HIDE DEF m
  <2>2. m.epoch \in 1 .. MaxEpochs BY <2>1, EventConstants DEF MessageOK
  <2>3. Counted(P, m.epoch) \subseteq Counted(Q, m.epoch) BY <2>2, LongerCounted
  <2>4. MessageOK(m, Q, E) BY <2>1, <2>3 DEF MessageOK
  <2> QED BY <2>4 DEF m
<1>5. WireOK(s.wire, Q, E) BY <1>2, <1>4 DEF WireOK
<1> QED BY <1>1, <1>5 DEF StreamOK

\* enqueue, of a revision that the process has.
LEMMA EnqueueIs ==
  ASSUME NEW s \in StreamType, s.link = "open", NEW P, NEW e, NEW E, NEW r \in Nat, r \in Counted(P, E), StreamOK(s, P, E)
  PROVE  LET t == Enqueue(s, r)
         IN  /\ t \in StreamType /\ t # NoStream /\ t.demand = s.demand /\ t.wire = s.wire
             /\ StreamOK(t, P, E)
             /\ Unread(s) => Unread(t)
             /\ OfEpoch(s, e, E) => OfEpoch(t, e, E)
<1> DEFINE b == s.owed \/ s.pending # 0  t == [s EXCEPT !.pending = r, !.owed = b]
<1>1. b \in BOOLEAN OBVIOUS
<1>2. Enqueue(s, r) = t BY DEF Enqueue, StreamType
<1> HIDE DEF b
<1>3. /\ t \in StreamType /\ t.wire = s.wire /\ t.fenced = s.fenced /\ t.link = "open"
      /\ t.demand = s.demand /\ t.pending = r
  BY <1>1 DEF StreamType
<1> HIDE DEF t
<1>4. /\ StreamOK(t, P, E)
      /\ Unread(s) => Unread(t)
      /\ OfEpoch(s, e, E) => OfEpoch(t, e, E)
  BY <1>3, SameWire
<1>5. t # NoStream BY <1>3, StreamFields
<1> QED BY <1>2, <1>3, <1>4, <1>5

\* A payload is as new as those before it, and it is the last of its process.
LEMMA Polled ==
  ASSUME IInv, PollTmuxSignals
  PROVE  IInv'
<1> DEFINE Q == payloads'  a == payloads[epoch]  r == Current(epoch) + 1
<1>1. /\ Q = [payloads EXCEPT ![epoch] = Append(a, windows)]
      /\ UNCHANGED <<windows, epoch, demandVars, connected, copyVars, left>>
      /\ \/ stream' = stream
         \/ /\ a # <<>>
            /\ stream' = [n \in DOMAIN stream |->
                            IF Subscribed(stream[n]) THEN Enqueue(stream[n], r) ELSE stream[n]]
  BY DEF PollTmuxSignals
<1>2. /\ windows \in Signals /\ epoch \in 1 .. MaxEpochs /\ epoch \in Nat /\ payloads \in [1 .. MaxEpochs -> Seq(Signals)]
      /\ \A e \in 1 .. MaxEpochs : \A i \in DOMAIN payloads[e] : AtLeast(windows, payloads[e][i])
  BY Facts DEF IInv, ServerOK
<1>3. /\ Q \in [1 .. MaxEpochs -> Seq(Signals)] /\ a \in Seq(Signals)
      /\ Q[epoch] = Append(a, windows)
      /\ \A e \in 1 .. MaxEpochs : e # epoch => Q[e] = payloads[e]
  <2>1. Append(a, windows) \in Seq(Signals) BY <1>2, AppendProperties
  <2> QED BY <1>1, <1>2, <2>1
<1>4. /\ Len(Q[epoch]) = Len(a) + 1 /\ Len(a) \in Nat /\ Q[epoch][Len(a) + 1] = windows
      /\ \A i \in 1 .. Len(a) : Q[epoch][i] = a[i]
      /\ DOMAIN Q[epoch] = 1 .. Len(a) + 1 /\ DOMAIN a = 1 .. Len(a)
      /\ a = <<>> <=> Len(a) = 0
  BY <1>2, <1>3, AppendProperties, EmptySeq
<1> HIDE DEF Q
<1>5. \A w \in Window : windows[w] \in Nat BY <1>2 DEF Signals
<1>6. ASSUME NEW e \in 1 .. MaxEpochs, NEW i \in DOMAIN Q[e]
      PROVE  AtLeast(windows, Q[e][i])
  <2>1. CASE e # epoch BY <1>2, <1>3, <2>1
  <2>2. CASE e = epoch /\ i \in DOMAIN a BY <1>2, <1>4, <2>2
  <2>3. CASE e = epoch /\ i = Len(a) + 1 BY <1>4, <1>5, <2>3 DEF AtLeast
  <2> QED BY <1>4, <2>1, <2>2, <2>3
<1>9. UNCHANGED <<windows, epoch, left>> BY <1>1
<1>10. ServerOK' BY <1>1, <1>3, <1>6, <1>9 DEF IInv, ServerOK, Q
<1>11. Longer(payloads, Q)
  <2>1. \A e \in 1 .. MaxEpochs : Len(payloads[e]) \in Nat BY <1>2
  <2> QED BY <1>3, <1>4, <2>1 DEF Longer
<1>12. \A n \in Streaming : StreamOK(stream[n], Q, epoch)
  <2>1. \A n \in Streaming : StreamOK(stream[n], payloads, epoch) /\ stream[n] \in {NoStream} \cup StreamType
    BY Facts
  <2> QED BY <1>2, <1>11, <2>1, LongerStream
<1>13. /\ stream' \in [Streaming -> {NoStream} \cup StreamType]
       /\ \A n \in Streaming : /\ stream'[n] = NoStream <=> stream[n] = NoStream
                               /\ stream[n] # NoStream => stream'[n].demand = stream[n].demand
                               /\ StreamOK(stream'[n], Q, epoch)
                               /\ Unread(stream[n]) => Unread(stream'[n])
                               /\ OfEpoch(stream[n], resourceEpoch, epoch) =>
                                    OfEpoch(stream'[n], resourceEpoch, epoch)
  <2>1. stream \in [Streaming -> {NoStream} \cup StreamType] BY Facts
  <2>2. CASE stream' = stream BY <1>12, <2>1, <2>2
  <2>3. CASE /\ a # <<>>
             /\ stream' = [n \in DOMAIN stream |->
                             IF Subscribed(stream[n]) THEN Enqueue(stream[n], r) ELSE stream[n]]
    <3>1. r \in Nat /\ r \in Counted(Q, epoch)
      <4>1. Current(epoch) = Len(a) - 1 /\ Len(a) \in Nat \ {0} BY <1>2, <2>3, Facts, CurrentIs
      <4>2. Len(Q[epoch]) = Len(a) + 1 BY <1>4
      <4> QED BY <4>1, <4>2 DEF Counted
    <3> HIDE DEF r, a
    <3>2. \A n \in Streaming :
            stream'[n] = IF Subscribed(stream[n]) THEN Enqueue(stream[n], r) ELSE stream[n]
      BY <2>1, <2>3
    <3>3. ASSUME NEW n \in Streaming
          PROVE  /\ stream'[n] \in {NoStream} \cup StreamType
                 /\ stream'[n] = NoStream <=> stream[n] = NoStream
                 /\ stream[n] # NoStream => stream'[n].demand = stream[n].demand
                 /\ StreamOK(stream'[n], Q, epoch)
                 /\ Unread(stream[n]) => Unread(stream'[n])
                 /\ OfEpoch(stream[n], resourceEpoch, epoch) => OfEpoch(stream'[n], resourceEpoch, epoch)
      <4> DEFINE s == stream[n]  t == stream'[n]
      <4>1. s \in {NoStream} \cup StreamType /\ StreamOK(s, Q, epoch) BY <1>12, <2>1
      <4>2. CASE Subscribed(s)
        <5>1. s \in StreamType /\ s.link = "open" /\ s # NoStream BY <4>1, <4>2 DEF Subscribed
        <5>2. t = Enqueue(s, r) BY <3>2, <4>2
        <5> HIDE DEF s, t
        <5>3. /\ t \in StreamType /\ t # NoStream /\ t.demand = s.demand
              /\ StreamOK(t, Q, epoch) /\ (Unread(s) => Unread(t))
              /\ OfEpoch(s, resourceEpoch, epoch) => OfEpoch(t, resourceEpoch, epoch)
          BY <3>1, <4>1, <5>1, <5>2, EnqueueIs
        <5> QED BY <5>1, <5>3 DEF s, t
      <4>3. CASE ~Subscribed(s)
        <5>1. t = s BY <3>2, <4>3
        <5> QED BY <4>1, <5>1
      <4> QED BY <4>2, <4>3
    <3>4. stream' \in [Streaming -> {NoStream} \cup StreamType]
      <4>1. DOMAIN stream = Streaming BY <2>1
      <4>2. stream' = [n \in Streaming |-> IF Subscribed(stream[n]) THEN Enqueue(stream[n], r) ELSE stream[n]]
        BY <2>3, <4>1
      <4>3. \A n \in Streaming :
              (IF Subscribed(stream[n]) THEN Enqueue(stream[n], r) ELSE stream[n]) \in {NoStream} \cup StreamType
        BY <3>2, <3>3
      <4> QED BY <4>2, <4>3
    <3> QED BY <3>3, <3>4
  <2> QED BY <1>1, <2>2, <2>3
<1>14. StreamsOK(stream', resourceEpoch, Q, epoch) BY <1>13, Facts DEF StreamsOK
<1>16. PageOK(Page, Q, epoch)
  <2> HIDE DEF Page
  <2> QED BY <1>11, Facts, LongerPage
<1>17. Page' = Page /\ resourceEpoch' = resourceEpoch BY <1>1, SamePage
<1>18. DemandOK'
  <2>1. connected' \in BOOLEAN BY <1>1 DEF IInv, DemandOK
  <2>2. UNCHANGED demandVars BY <1>1
  <2> QED BY <1>13, <2>1, <2>2, SameDemand
<1>19. PageOK(Page', payloads', epoch') /\ StreamsOK(stream', resourceEpoch', payloads', epoch')
  BY <1>9, <1>14, <1>16, <1>17 DEF Q
<1> QED BY <1>10, <1>18, <1>19 DEF IInv

\* A new process has written nothing, and no stream and no read of the old one goes on.
LEMMA Restarted ==
  ASSUME IInv, Restart
  PROVE  IInv'
<1>1. /\ epoch < MaxEpochs /\ epoch' = epoch + 1
      /\ stream' = [n \in DOMAIN stream |-> Lost(stream[n])]
      /\ repair' = (IF repair = NoRepair THEN repair ELSE [repair EXCEPT !.read = Failed])
      /\ stray' = Failed
      /\ UNCHANGED <<windows, payloads, demandVars, connected, resourceEpoch, revision,
                     tmuxSignalState, queued, spoiled>>
  BY DEF Restart
<1>2. left' \in BudgetType BY Spent DEF IInv, ServerOK, Restart
<1>3. epoch \in 1 .. MaxEpochs /\ epoch \in Nat /\ epoch' \in 1 .. MaxEpochs /\ epoch <= epoch'
  <2>1. epoch \in 1 .. MaxEpochs /\ epoch \in Nat /\ MaxEpochs \in Nat BY Facts, EventConstants
  <2> QED BY <1>1, <2>1
<1>4. ServerOK' BY <1>1, <1>2, <1>3 DEF IInv, ServerOK
<1>5. stream \in [Streaming -> {NoStream} \cup StreamType] BY Facts
<1>6. DOMAIN stream = Streaming /\ \A n \in Streaming : stream'[n] = Lost(stream[n]) BY <1>1, <1>5
<1>7. ASSUME NEW n \in Streaming
      PROVE  /\ stream'[n] \in {NoStream} \cup StreamType
             /\ stream'[n] = NoStream <=> stream[n] = NoStream
             /\ stream[n] # NoStream => stream'[n].demand = stream[n].demand
             /\ StreamOK(stream'[n], payloads, epoch')
             /\ Unread(stream[n]) => Unread(stream'[n])
             /\ OfEpoch(stream[n], resourceEpoch, epoch) => OfEpoch(stream'[n], resourceEpoch, epoch')
  <2> DEFINE s == stream[n]  t == Lost(s)
  <2>1. stream'[n] = t /\ s \in {NoStream} \cup StreamType /\ StreamOK(s, payloads, epoch) BY <1>5, <1>6, Facts
  <2>2. CASE s = NoStream
    <3>1. t = NoStream BY <2>2 DEF Lost, Subscribed
    <3>2. StreamOK(NoStream, payloads, epoch') /\ OfEpoch(NoStream, resourceEpoch, epoch')
      BY Closed
    <3> QED BY <2>1, <2>2, <3>1, <3>2
  <2>3. CASE s # NoStream
    <3> HIDE DEF s
    <3>1. s \in StreamType BY <2>1, <2>3
    <3>2. /\ t \in StreamType /\ t.wire = s.wire /\ t.fenced = s.fenced
          /\ t.demand = s.demand /\ t.link # "open" /\ t.link \in {s.link, "lost"}
          /\ t.link # "lost" => t.pending = s.pending
      BY <3>1, LostIs
    <3> HIDE DEF t
    <3>3. t # NoStream BY <3>2, StreamFields
    <3>4. WireOK(t.wire, payloads, epoch')
      <4>1. WireOK(s.wire, payloads, epoch) BY <2>1, <2>3 DEF StreamOK
      <4>2. 1 .. epoch \subseteq 1 .. epoch' BY <1>3
      <4> QED BY <3>2, <4>1, <4>2 DEF WireOK, MessageOK
    <3>5. StreamOK(t, payloads, epoch') BY <2>1, <2>3, <3>2, <3>4 DEF StreamOK
    <3>6. Unread(s) => Unread(t) BY <2>3, <3>2 DEF FirstReady, Unread
    <3>7. OfEpoch(s, resourceEpoch, epoch) => OfEpoch(t, resourceEpoch, epoch')
      BY <2>3, <3>2 DEF OfEpoch, FirstReady
    <3> QED BY <2>1, <2>3, <3>2, <3>3, <3>5, <3>6, <3>7 DEF s
  <2> QED BY <2>2, <2>3
<1>8. stream' \in [Streaming -> {NoStream} \cup StreamType]
  <2>1. stream' = [n \in Streaming |-> Lost(stream[n])] BY <1>1, <1>6
  <2>2. \A n \in Streaming : Lost(stream[n]) \in {NoStream} \cup StreamType BY <1>6, <1>7
  <2> QED BY <2>1, <2>2
<1>9. StreamsOK(stream', resourceEpoch, payloads, epoch') BY <1>7, <1>8, Facts DEF StreamsOK
<1>11. DemandOK'
  <2>1. connected' \in BOOLEAN BY <1>1 DEF IInv, DemandOK
  <2>2. UNCHANGED demandVars BY <1>1
  <2> QED BY <1>7, <1>8, <2>1, <2>2, SameDemand
<1> DEFINE p == Page  q == Page'
<1>12. PageOK(p, payloads, epoch) BY Facts
<1>13. /\ p.epoch = resourceEpoch /\ p.rev = revision /\ p.state = tmuxSignalState
       /\ p.event = queued /\ p.repair = repair /\ p.stray = stray /\ p.spoiled = spoiled
  BY PageIs
<1>14. /\ q.epoch = p.epoch /\ q.rev = p.rev /\ q.state = p.state
       /\ q.event = p.event /\ q.repair = repair' /\ q.spoiled = p.spoiled
  BY <1>1 DEF Page
<1>15. q = [epoch |-> p.epoch, rev |-> p.rev, state |-> p.state, event |-> p.event,
            repair |-> repair', stray |-> Failed, spoiled |-> p.spoiled]
  BY <1>1 DEF Page
<1> HIDE DEF p, q
<1>16. /\ p \in PageType
       /\ p.rev = 0 \/ (p.epoch # NoEpoch /\ p.rev \in Counted(payloads, p.epoch))
       /\ p.epoch <= epoch
       /\ RepairOK(p, payloads) /\ QueueOK(p, payloads) /\ HonestOK(p, payloads)
  BY <1>12 DEF PageOK
<1>17. /\ p.epoch \in 0 .. MaxEpochs /\ p.rev \in Nat /\ p.state \in {NoCopy} \cup CopyType
       /\ p.event \in {NoEvent} \cup EventType /\ p.repair \in {NoRepair} \cup RepairType
       /\ p.spoiled \in SUBSET Spoils
  BY <1>16, PageFields
<1>18. /\ repair' \in {NoRepair} \cup RepairType
       /\ repair' = NoRepair <=> p.repair = NoRepair
       /\ p.repair # NoRepair => /\ repair'.epoch = p.repair.epoch /\ repair'.target = p.repair.target
                                 /\ repair'.repairing = p.repair.repairing /\ repair'.read = Failed
  <2>1. CASE repair = NoRepair BY <1>1, <1>13, <2>1
  <2>2. CASE repair # NoRepair
    <3> DEFINE y == [repair EXCEPT !.read = Failed]
    <3>1. repair' = y /\ repair \in RepairType BY <1>1, <1>13, <1>17, <2>2
    <3>2. /\ y \in RepairType /\ y.epoch = repair.epoch /\ y.target = repair.target
          /\ y.repairing = repair.repairing /\ y.read = Failed
      BY <3>1 DEF RepairType, ReadType
    <3> HIDE DEF y
    <3>3. repair.target \in Nat \ {0}
      <4>1. p.repair.epoch = p.epoch /\ p.repair.target \in Counted(payloads, p.epoch)
        BY <1>13, <1>16, <2>2 DEF RepairOK
      <4>2. repair.epoch \in 1 .. MaxEpochs BY <3>1 DEF RepairType
      <4> QED BY <1>13, <4>1, <4>2, CountedHas, Facts
    <3>4. y # NoRepair BY <3>2, <3>3 DEF NoRepair
    <3> QED BY <1>13, <2>2, <3>1, <3>2, <3>4
  <2> QED BY <2>1, <2>2
<1>19. q \in PageType BY <1>15, <1>17, <1>18 DEF PageType, ReadType
<1>20. RepairOK(q, payloads)
  <2>1. Failed.phase # "answered" BY DEF Failed
  <2> HIDE DEF Failed
  <2> QED BY <1>14, <1>16, <1>18, <2>1 DEF RepairOK
<1>21. QueueOK(q, payloads) BY <1>14, <1>16 DEF QueueOK, Fresh
<1>23. HonestOK(q, payloads) BY <1>14, <1>16, <1>18 DEF HonestOK, Fresh
<1>24. q.epoch <= epoch'
  <2>1. p.epoch \in Nat BY <1>17, EventConstants
  <2> QED BY <1>1, <1>3, <1>14, <1>16, <2>1
<1>25. PageOK(q, payloads, epoch')
  BY <1>14, <1>16, <1>19, <1>20, <1>21, <1>23, <1>24 DEF PageOK
<1>26. UNCHANGED <<payloads, resourceEpoch>> BY <1>1
<1>27. PageOK(Page', payloads', epoch') /\ StreamsOK(stream', resourceEpoch', payloads', epoch')
  BY <1>9, <1>25, <1>26 DEF q
<1> QED BY <1>4, <1>11, <1>27 DEF IInv

-----------------------------------------------------------------------------
(* The specification.                                                       *)

\* At the beginning nothing has been published, sent or copied.
LEMMA Begins == EventsInit => IInv
<1> SUFFICES ASSUME EventsInit PROVE IInv OBVIOUS
<1>1. MaxEpochs \in Nat \ {0} BY EventConstants
<1>2. /\ windows = [w \in Window |-> 0] /\ epoch = 1 /\ payloads = [e \in 1 .. MaxEpochs |-> <<>>]
      /\ demand \in VisibleDemand /\ demandSignature = demand /\ demandTimer = FALSE
      /\ stream = [active |-> Opened(demand), candidate |-> NoStream] /\ connected = FALSE
      /\ resourceEpoch = NoEpoch /\ revision = 0 /\ tmuxSignalState = NoCopy
      /\ queued = NoEvent /\ repair = NoRepair /\ stray = Failed /\ spoiled = {} /\ left \in Budgets
  BY DEF EventsInit
<1>3. ServerOK
  <2>1. windows \in Signals /\ epoch \in 1 .. MaxEpochs BY <1>1, <1>2 DEF Signals
  <2>2. <<>> \in Seq(Signals) /\ DOMAIN <<>> = {} OBVIOUS
  <2>3. payloads \in [1 .. MaxEpochs -> Seq(Signals)] /\ \A e \in 1 .. MaxEpochs : payloads[e] = <<>>
    BY <1>2, <2>2
  <2>4. left \in BudgetType
    <3>1. left \in [changes : [Window -> Nat], faults : Nat, turns : Nat] BY <1>2, EventConstants
    <3>2. left.changes \in {b.changes : b \in Budgets} BY <1>2
    <3> QED BY <3>1, <3>2 DEF BudgetType
  <2>5. \A e \in 1 .. MaxEpochs : \A i \in DOMAIN payloads[e] : AtLeast(windows, payloads[e][i])
    BY <2>2, <2>3
  <2> QED BY <2>1, <2>3, <2>4, <2>5 DEF ServerOK
<1> DEFINE s == Opened(demand)
<1>4. /\ s \in StreamType /\ s # NoStream /\ s.demand = demand
      /\ StreamOK(s, payloads, epoch) /\ OfEpoch(s, resourceEpoch, epoch)
  BY <1>2, OpenedIs DEF Demand
<1>5. StreamOK(NoStream, payloads, epoch) /\ Unread(NoStream) BY Closed
<1> HIDE DEF s
<1>6. /\ stream \in [Streaming -> {NoStream} \cup StreamType]
      /\ stream["active"] = s /\ stream["candidate"] = NoStream
  BY <1>2, <1>4 DEF Streaming, s
<1>7. \A n \in Streaming : stream[n] = s \/ stream[n] = NoStream BY <1>6 DEF Streaming
<1>8. StreamsOK(stream, resourceEpoch, payloads, epoch) BY <1>4, <1>5, <1>6, <1>7 DEF StreamsOK
<1>9. DemandOK BY <1>2, <1>4, <1>6 DEF DemandOK, Has, Demand
<1>10. PageOK(Page, payloads, epoch)
  <2>1. /\ Page.epoch = NoEpoch /\ Page.rev = 0 /\ Page.state = NoCopy
        /\ Page.event = NoEvent /\ Page.repair = NoRepair /\ Page.stray = Failed /\ Page.spoiled = {}
    BY <1>2, PageIs
  <2>2. Page \in PageType
    <3>1. NoEpoch \in 0 .. MaxEpochs /\ Failed \in ReadType BY <1>1 DEF NoEpoch, ReadType
    <3>2. Page = [epoch |-> NoEpoch, rev |-> 0, state |-> NoCopy, event |-> NoEvent,
                  repair |-> NoRepair, stray |-> Failed, spoiled |-> {}]
      BY <1>2 DEF Page
    <3> HIDE DEF Page
    <3> QED BY <3>1, <3>2 DEF PageType
  <2> HIDE DEF Page
  <2>3. ~Fresh(Page) BY <2>1 DEF Fresh
  <2>4. Page.epoch <= epoch BY <1>2, <2>1 DEF NoEpoch
  <2> QED BY <2>1, <2>2, <2>3, <2>4 DEF PageOK, RepairOK, QueueOK, HonestOK
<1> QED BY <1>3, <1>8, <1>9, <1>10 DEF IInv

\* Every step keeps the invariant.
LEMMA Steps == IInv /\ [EventsNext]_eventVars => IInv'
<1> SUFFICES ASSUME IInv, [EventsNext]_eventVars PROVE IInv' OBVIOUS
<1>1. CASE UNCHANGED eventVars
  <2>1. /\ UNCHANGED <<serverVars, stream, demandVars, connected, left>> /\ Page' = Page
    BY <1>1, SamePage DEF eventVars
  <2> QED BY <2>1, Facts, CopyStep
<1>2. CASE EventServer BY <1>2, WindowsChanged, Polled, Restarted, ServingRead DEF EventServer
<1>3. ASSUME NEW n \in {"active", "candidate"}, EventStream(n) PROVE IInv'
  <2>1. n \in Streaming BY DEF Streaming
  <2> QED BY <1>3, <2>1, Overflowing, Subscribing, ReadySent, NextEventSent, Breaking DEF EventStream
<1>4. CASE EventPage
  <2>1. ASSUME NEW d \in Demand, ChangePanes(d) \/ VisibilityChange(d) PROVE IInv'
    BY <2>1, PanesChanged, VisibilityChanged
  <2>2. CASE DemandTimer \/ ReceiveOnCandidate \/ Receive \/ Frame
    BY <2>2, TimerFired, ReceivingOnCandidate, Receiving, FrameShown
  <2>3. CASE ActiveError \/ CandidateError \/ RepairEnds \/ StrayAnswer
    BY <2>3, ActiveErrs, CandidateErrs, RepairEnding, StrayAnswered
  <2> QED BY <1>4, <2>1, <2>2, <2>3 DEF EventPage
<1> QED BY <1>1, <1>2, <1>3, <1>4 DEF EventsNext

\* The parts hold in every reachable state of the specification.
THEOREM Invariance == EventsSpec => []IInv
<1> QED BY Begins, Steps, PTL DEF EventsSpec

\* The variables keep to their values, and the page counts only what its process has published.
THEOREM RevisionsArePublished == EventsSpec => []EventsTypeOK
<1>1. IInv => EventsTypeOK
  <2> SUFFICES ASSUME IInv PROVE EventsTypeOK OBVIOUS
  <2>1. /\ windows \in Signals /\ epoch \in 1 .. MaxEpochs
        /\ payloads \in [1 .. MaxEpochs -> Seq(Signals)] /\ left \in BudgetType
    BY DEF IInv, ServerOK
  <2>2. stream \in [{"active", "candidate"} -> {NoStream} \cup StreamType] BY Facts DEF Streaming
  <2>3. demand \in Demand /\ demandSignature \in Demand /\ {demandTimer, connected} \subseteq BOOLEAN
    BY DEF IInv, DemandOK
  <2>4. PageOK(Page, payloads, epoch) BY Facts
  <2>5. /\ Page \in PageType
        /\ Page.rev = 0 \/ (Page.epoch # NoEpoch /\ Page.rev \in Counted(payloads, Page.epoch))
    BY <2>4 DEF PageOK
  <2>6. /\ resourceEpoch \in 0 .. MaxEpochs /\ tmuxSignalState \in {NoCopy} \cup CopyType
        /\ queued \in {NoEvent} \cup EventType /\ repair \in {NoRepair} \cup RepairType
        /\ stray \in ReadType /\ spoiled \in SUBSET Spoils
    BY <2>5, PageFields, PageIs
  <2>7. revision = 0 \/ (resourceEpoch # NoEpoch /\ revision \in Revisions(resourceEpoch))
    BY <2>5, PageIs DEF Counted, Revisions
  <2>8. revision \in {0} \cup UNION {Revisions(e) : e \in {resourceEpoch} \ {NoEpoch}} BY <2>7
  <2> QED BY <2>1, <2>2, <2>3, <2>6, <2>8
        DEF EventsTypeOK, BudgetType, CopyType, EventType, RepairType, Spoils
<1> QED BY <1>1, Invariance, PTL

\* When nothing is queued and nothing repaired, a copy that nothing damaged unseen, a restart of
\* the server included, has what the page's revision says.
THEOREM CopyIsHonest == EventsSpec => []RevisionIsHonest
<1>1. IInv => RevisionIsHonest
  <2> SUFFICES ASSUME IInv, Settled, Trusted
               PROVE  /\ revision > 0
                      /\ AtLeast(tmuxSignalState.windows, Payload(resourceEpoch, revision))
    BY DEF RevisionIsHonest, AtLeast
  <2>1. PageOK(Page, payloads, epoch) BY Facts
  <2>2. Page.rev \in Nat /\ HonestOK(Page, payloads) BY <2>1, PageFields DEF PageOK
  <2>3. /\ Page.event = NoEvent /\ Page.repair = NoRepair /\ Page.state = tmuxSignalState
        /\ tmuxSignalState # NoCopy /\ Page.spoiled = {}
        /\ Page.rev = revision /\ Page.epoch = resourceEpoch
    BY PageIs DEF Settled, Trusted
  <2> HIDE DEF Page
  <2>4. ~Fresh(Page) BY <2>3 DEF Fresh
  <2> QED BY <2>2, <2>3, <2>4 DEF HonestOK, Payload
<1> QED BY <1>1, Invariance, PTL

\* A lone active stream is for the page's demand, unless the change is in its debounce.
THEOREM StreamCoversDemand == EventsSpec => []CoversDemand
<1>1. IInv => CoversDemand BY DEF IInv, DemandOK, CoversDemand
<1> QED BY <1>1, Invariance, PTL
=============================================================================
