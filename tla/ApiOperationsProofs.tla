------------------------ MODULE ApiOperationsProofs ------------------------
(***************************************************************************)
(* What ApiOperations guarantees for any operations and any number of      *)
(* faults.                                                                 *)
(*                                                                         *)
(* A result is only ever the journal's, wherever it is: in a stream, on    *)
(* its way to the page, in a queue of the page or kept there.  And a       *)
(* result that is not the exact one was acknowledged, and so handled.      *)
(* These two make the handler's one run safe.  That nothing published is   *)
(* lost needs what a stream bears and that a candidate, and every stream   *)
(* of a process that the page does not know, is still to be read from its  *)
(* ready on.                                                               *)
(*                                                                         *)
(* The parts are said of a source and of a page record with the journal's  *)
(* sets as parameters, and proved to be kept by each function of the       *)
(* module; the actions are then put together from those lemmas.            *)
(***************************************************************************)
EXTENDS ApiOperations, SequenceTheorems, TLAPS

Streaming == {"active", "candidate"}
Results == {Exact, Evicted}
KeptType == [op : Op, body : Results]
PageType ==
  [record : [Op -> {"none", "accepted", "terminal"}], terminal : Seq(KeptType), repairs : SUBSET Op,
   dedicated : [Op -> {"none", "connecting", "open", "served", "lost", Exact, Evicted}],
   framed : [Op -> {NotQueued, Exact, Evicted}], handled : [Op -> Seq(Results)],
   acks : SUBSET Op, forgone : SUBSET Op]
ReceiptType == [Op -> {"none", "sent", "received"}]
RequestType == [answer : {"awaited", "ok", "failed"}, batch : SUBSET Op]

\* The operations that have a result, and those whose result was acknowledged.
Ended == {o \in Op : ledger[o] \in {"terminal", "acknowledged"}}
Acknowledged == {o \in Op : ledger[o] = "acknowledged"}

JournalOK ==
  /\ ledger \in [Op -> {"none", "queued", "terminal", "acknowledged"}]
  /\ process \in Nat \ {0}
  /\ revised \subseteq Ended
  /\ receipt \in ReceiptType
  /\ \A o \in Op : ledger[o] = "none" => receipt[o] = "none"
  /\ serving \in BOOLEAN
  /\ adopted \in 0 .. process
  /\ opsLeft \in [{"operations", "faults", "restarts", "turns"} -> Nat]

-----------------------------------------------------------------------------
(* A source s, with the ended operations E, the acknowledged ones A, the    *)
(* process P and the operations R it has published.                         *)

IsResultOf(o, body, E, A) == o \in E /\ (body = Evicted => o \in A)
MessageSound(m, E, A, P) ==
  IF m.type = "terminal" THEN IsResultOf(m.op, m.body, E, A)
  ELSE m.ops \subseteq E /\ (m.type = "ready" => m.process = P)
SourceSound(s, E, A, P) ==
  s # NoSource =>
    /\ s.unsent \subseteq E /\ s.owed \subseteq E
    /\ \A m \in Range(s.wire) : MessageSound(m, E, A, P)
    /\ ~s.fenced => s.wire = <<>>
    /\ s.link = "connecting" => ~s.fenced

\* Nothing of a stream was read; or nothing of one that is open, or has messages left.
FirstReady(s) == s.wire # <<>> /\ Head(s.wire).type = "ready"
Unread(s) == s # NoSource /\ s.fenced => FirstReady(s)
UnreadOrOld(s) ==
  s # NoSource =>
    /\ s.link = "open" /\ s.fenced => FirstReady(s)
    /\ s.wire # <<>> => FirstReady(s)

Brings(m, o) == IF m.type = "terminal" THEN m.op = o ELSE o \in m.ops
Bears(s, o, R) ==
  /\ s # NoSource
  /\ \/ o \in s.unsent \cup s.owed \cup s.unreplayed
     \/ \E m \in Range(s.wire) : Brings(m, o)
     \/ (~s.fenced \/ s.link = "lost") /\ o \in s.ids \cup R

StreamsOK(src, E, A, P, known) ==
  /\ src \in [Streaming -> {NoSource} \cup SourceType]
  /\ \A n \in Streaming : SourceSound(src[n], E, A, P)
  /\ Unread(src["candidate"])
  /\ ~known => UnreadOrOld(src["active"])

-----------------------------------------------------------------------------
(* A record p of the page, with the receipts rc.                            *)

Once(t) == \A i, j \in DOMAIN t : t[i].op = t[j].op => i = j
KeptSound(t, E, A) == \A i \in DOMAIN t : IsResultOf(t[i].op, t[i].body, E, A)
HeldSound(p, E, A) ==
  \A o \in Op :
    /\ p.dedicated[o] # "none" => o \in E /\ p.record[o] = "accepted"
    /\ p.dedicated[o] \in Results => IsResultOf(o, p.dedicated[o], E, A)
    /\ p.framed[o] # NotQueued => IsResultOf(o, p.framed[o], E, A)
HandledRightly(p, rc, E) ==
  \A o \in Op :
    /\ p.handled[o] \in {<<>>, <<Exact>>}
    /\ p.record[o] = "accepted" => p.handled[o] = <<>> /\ ~Seen(p, o)
    /\ rc[o] # "received" => p.record[o] = "none" /\ p.handled[o] = <<>>
    /\ p.handled[o] # <<>> => o \in E
\* A result that was handled is acknowledged, or is to be.
AckedRightly(p, E, A) ==
  /\ \A o \in A \cup p.acks : p.handled[o] # <<>>
  /\ \A o \in E \ A : p.handled[o] # <<>> => o \in p.acks
PageSound(p, rc, E, A) ==
  /\ p \in PageType /\ p.repairs \subseteq E
  /\ Once(p.terminal) /\ KeptSound(p.terminal, E, A)
  /\ HeldSound(p, E, A) /\ HandledRightly(p, rc, E) /\ AckedRightly(p, E, A)
PageOK(p, rc, E, A) == PageSound(p, rc, E, A) /\ Len(p.terminal) <= ReplayLimit

RequestOK(rq, p, A) ==
  rq # NoRequest =>
    /\ rq \in RequestType
    /\ \A o \in rq.batch : p.handled[o] # <<>>
    /\ rq.answer = "ok" => rq.batch \subseteq A

\* What a process published that the page does not know has reached nothing of the page.
NewEpoch(p, R, known) ==
  ~known => \A o \in R : p.dedicated[o] = "none" /\ p.framed[o] = NotQueued /\ o \notin p.repairs

Due(p, rc, o) == p.record[o] = "accepted" \/ rc[o] # "received"
HeldByPage(p, o) ==
  p.dedicated[o] \notin {"none", "served"} \/ p.framed[o] # NotQueued \/ o \in p.repairs
\* An operation that has not had its result; one whose result a stream is still to bring.
Misses(p, rc, o) == o \notin p.forgone /\ Due(p, rc, o) /\ ~Seen(p, o)
Lacks(p, rc, o) == Misses(p, rc, o) /\ ~HeldByPage(p, o)
ServedIsFramed(p, R) == \A o \in R : p.dedicated[o] = "served" => p.framed[o] # NotQueued

\* While an operation is awaited there is a stream; a candidate, and for what the page
\* still lacks the stream, bears what was published.
Reach(src, p, rc, R) ==
  /\ (\E o \in Op : p.record[o] = "accepted") => src["active"] # NoSource
  /\ src["candidate"] # NoSource => \A o \in R \ p.forgone : Bears(src["candidate"], o, R)
  /\ src["active"] # NoSource => \A o \in R : Lacks(p, rc, o) => Bears(src["active"], o, R)

IInv ==
  /\ JournalOK
  /\ StreamsOK(source, Ended, Acknowledged, process, adopted = process)
  /\ PageOK(OpsPage, receipt, Ended, Acknowledged)
  /\ RequestOK(ackRequest, OpsPage, Acknowledged)
  /\ NewEpoch(OpsPage, revised, adopted = process)
  /\ ServedIsFramed(OpsPage, revised)
  /\ Reach(source, OpsPage, receipt, revised)

-----------------------------------------------------------------------------
(* Sequences.                                                               *)

\* A message is put at the end of a wire.
LEMMA OneMore ==
  ASSUME NEW S, NEW w \in Seq(S), NEW m \in S
  PROVE  /\ w \o <<m>> \in Seq(S) /\ w \o <<m>> # <<>>
         /\ Range(w \o <<m>>) = Range(w) \cup {m}
         /\ Head(w \o <<m>>) = IF w = <<>> THEN m ELSE Head(w)
<1>1. <<m>> \in Seq(S) /\ Range(<<m>>) = {m} BY DEF Range
<1>2. w \o <<m>> \in Seq(S) BY <1>1
<1>3. Range(w \o <<m>>) = Range(w) \cup {m}
  <2>1. <<m>> \in Seq(S) BY <1>1
  <2>2. Range(w \o <<m>>) = Range(w) \cup Range(<<m>>) BY <2>1, RangeConcatenation
  <2> QED BY <1>1, <2>2
<1>4. Len(w \o <<m>>) = Len(w) + 1 BY <1>1
<1>5. CASE w = <<>> BY <1>2, <1>3, <1>4, <1>5
<1>6. CASE w # <<>> BY <1>2, <1>3, <1>4, <1>6
<1> QED BY <1>5, <1>6

\* The first message is taken from a wire.
LEMMA OneLess ==
  ASSUME NEW S, NEW w \in Seq(S), w # <<>>
  PROVE  /\ Tail(w) \in Seq(S) /\ Head(w) \in S /\ Head(w) \in Range(w)
         /\ Range(w) = {Head(w)} \cup Range(Tail(w))
         /\ Len(Tail(w)) = Len(w) - 1
         /\ \A i \in DOMAIN Tail(w) : i + 1 \in DOMAIN w /\ Tail(w)[i] = w[i + 1]
<1>1. /\ Head(w) \in S /\ Tail(w) \in Seq(S) /\ Len(Tail(w)) = Len(w) - 1
      /\ \A i \in 1 .. Len(Tail(w)) : Tail(w)[i] = w[i + 1]
  BY HeadTailProperties
<1>2. Len(w) \in Nat \ {0} /\ DOMAIN w = 1 .. Len(w) /\ DOMAIN Tail(w) = 1 .. Len(Tail(w))
  BY <1>1, EmptySeq, LenProperties
<1>3. Head(w) = w[1] OBVIOUS
<1>4. Range(w) \subseteq {Head(w)} \cup Range(Tail(w))
  <2> SUFFICES ASSUME NEW i \in 1 .. Len(w) PROVE w[i] \in {Head(w)} \cup Range(Tail(w))
    BY <1>2 DEF Range
  <2>1. CASE i = 1 BY <2>1, <1>3
  <2>2. CASE i # 1
    <3>1. i - 1 \in 1 .. Len(Tail(w)) BY <2>2, <1>1, <1>2
    <3>2. Tail(w)[i - 1] = w[i] BY <3>1, <1>1, <1>2
    <3> QED BY <3>1, <3>2, <1>2 DEF Range
  <2> QED BY <2>1, <2>2
<1>5. {Head(w)} \cup Range(Tail(w)) \subseteq Range(w)
  BY <1>1, <1>2, <1>3 DEF Range
<1>6. \A i \in DOMAIN Tail(w) : i + 1 \in DOMAIN w /\ Tail(w)[i] = w[i + 1]
  BY <1>1, <1>2
<1> QED BY <1>1, <1>3, <1>4, <1>5, <1>6

\* An element at the end, where none was.
LEMMA Appended ==
  ASSUME NEW S, NEW t \in Seq(S), NEW e \in S
  PROVE  /\ Append(t, e) \in Seq(S) /\ Len(Append(t, e)) = Len(t) + 1
         /\ DOMAIN Append(t, e) = DOMAIN t \cup {Len(t) + 1}
         /\ DOMAIN t = 1 .. Len(t)
         /\ \A i \in DOMAIN t : Append(t, e)[i] = t[i]
         /\ Append(t, e)[Len(t) + 1] = e
BY AppendProperties, LenProperties

\* A terminal is taken out of the middle of the map.
LEMMA Removed ==
  ASSUME NEW S, NEW t \in Seq(S), NEW i \in DOMAIN t
  PROVE  /\ Without(t, i) \in Seq(S) /\ Len(Without(t, i)) = Len(t) - 1
         /\ \A j \in DOMAIN Without(t, i) :
              Without(t, i)[j] = t[IF j < i THEN j ELSE j + 1]
         /\ DOMAIN Without(t, i) = 1 .. Len(t) - 1 /\ DOMAIN t = 1 .. Len(t)
<1> DEFINE a == SubSeq(t, 1, i - 1)  b == SubSeq(t, i + 1, Len(t))
<1>1. Len(t) \in Nat /\ DOMAIN t = 1 .. Len(t) /\ i \in 1 .. Len(t) /\ \A j \in 1 .. Len(t) : t[j] \in S
  BY LenProperties, ElementOfSeq
<1>2. /\ a \in Seq(S) /\ Len(a) = i - 1 /\ \A j \in 1 .. i - 1 : a[j] = t[j]
  <2>1. /\ SubSeq(t, 1, i - 1) \in Seq(S)
        /\ Len(SubSeq(t, 1, i - 1)) = IF 1 <= i - 1 THEN i - 1 - 1 + 1 ELSE 0
        /\ \A j \in 1 .. i - 1 - 1 + 1 : SubSeq(t, 1, i - 1)[j] = t[1 + j - 1]
    BY <1>1, SubSeqProperties
  <2> QED BY <1>1, <2>1
<1>3. /\ b \in Seq(S) /\ Len(b) = Len(t) - i /\ \A j \in 1 .. Len(t) - i : b[j] = t[i + j]
  <2>1. /\ SubSeq(t, i + 1, Len(t)) \in Seq(S)
        /\ Len(SubSeq(t, i + 1, Len(t))) = IF i + 1 <= Len(t) THEN Len(t) - (i + 1) + 1 ELSE 0
        /\ \A j \in 1 .. Len(t) - (i + 1) + 1 : SubSeq(t, i + 1, Len(t))[j] = t[i + 1 + j - 1]
    BY <1>1, SubSeqProperties
  <2>2. Len(b) = Len(t) - i BY <1>1, <2>1
  <2>3. ASSUME NEW j \in 1 .. Len(t) - i PROVE b[j] = t[i + j]
    <3>1. j \in 1 .. Len(t) - (i + 1) + 1 /\ i + 1 + j - 1 = i + j BY <1>1
    <3> QED BY <3>1, <2>1
  <2> QED BY <2>1, <2>2, <2>3
<1> HIDE DEF a, b
<1>4. /\ a \o b \in Seq(S) /\ Len(a \o b) = Len(a) + Len(b)
      /\ \A j \in 1 .. Len(a) + Len(b) : (a \o b)[j] = IF j <= Len(a) THEN a[j] ELSE b[j - Len(a)]
  BY <1>2, <1>3, ConcatProperties
<1>5. DOMAIN (a \o b) = 1 .. Len(t) - 1 /\ Len(a \o b) = Len(t) - 1
  <2>1. Len(a) + Len(b) = Len(t) - 1 BY <1>1, <1>2, <1>3
  <2>2. DOMAIN (a \o b) = 1 .. Len(a \o b) BY <1>4, LenProperties
  <2> QED BY <2>1, <2>2, <1>4
<1>6. ASSUME NEW j \in 1 .. Len(t) - 1
      PROVE  (a \o b)[j] = t[IF j < i THEN j ELSE j + 1]
  <2>1. CASE j < i BY <2>1, <1>1, <1>2, <1>4
  <2>2. CASE ~(j < i)
    <3>1. j - (i - 1) \in 1 .. Len(t) - i /\ i + (j - (i - 1)) = j + 1 BY <2>2, <1>1
    <3>2. (a \o b)[j] = b[j - (i - 1)]
      <4>1. Len(a) = i - 1 /\ j \in 1 .. Len(a) + Len(b) /\ ~(j <= Len(a))
        <5>1. Len(a) = i - 1 /\ Len(b) = Len(t) - i /\ Len(t) \in Nat /\ i \in 1 .. Len(t)
          BY <1>1, <1>2, <1>3
        <5> QED BY <5>1, <2>2
      <4>2. (a \o b)[j] = IF j <= Len(a) THEN a[j] ELSE b[j - Len(a)] BY <4>1, <1>4
      <4> QED BY <4>1, <4>2
    <3>3. b[j - (i - 1)] = t[i + (j - (i - 1))] BY <3>1, <1>3
    <3>4. b[j - (i - 1)] = t[j + 1] BY <3>1, <3>3
    <3> QED BY <3>2, <3>4, <2>2
  <2> QED BY <2>1, <2>2
<1>7. Without(t, i) = a \o b BY DEF Without, a, b
<1> QED BY <1>1, <1>4, <1>5, <1>6, <1>7

-----------------------------------------------------------------------------
(* Sources: what a step of a stream keeps.                                  *)

\* The step from s to t keeps what is sound and unread, and what was borne is borne or forgone.
StreamKeeps(s, t, E, A, P, R, forsaken) ==
  /\ t \in SourceType
  /\ SourceSound(t, E, A, P)
  /\ Unread(s) => Unread(t)
  /\ UnreadOrOld(s) => UnreadOrOld(t)
  /\ \A o \in R \ forsaken : Bears(s, o, R) => Bears(t, o, R)

\* A stream is told from the lack of one.
LEMMA SourceIsNot == \A s \in SourceType : s # NoSource
BY DEF SourceType, NoSource

\* SourceWith: a fresh stream has read nothing and so bears all that was published.
LEMMA FreshSource ==
  ASSUME NEW ids \in SUBSET Op, NEW E, NEW A, NEW P, NEW R
  PROVE  LET s == SourceWith(ids)
         IN  /\ s \in SourceType /\ s # NoSource
             /\ SourceSound(s, E, A, P) /\ Unread(s) /\ UnreadOrOld(s)
             /\ \A o \in R : Bears(s, o, R)
<1> DEFINE s == SourceWith(ids)
<1>1. <<>> \in Seq(OpMessageType) /\ Range(<<>>) = {} BY DEF Range
<1>2. s \in SourceType BY <1>1 DEF SourceWith, SourceType
<1>3. s.link = "connecting" /\ s.fenced = FALSE /\ s.wire = <<>> /\ s.unsent = {} /\ s.owed = {}
  BY DEF SourceWith
<1> HIDE DEF s
<1>4. s # NoSource BY <1>2, SourceIsNot
<1>5. SourceSound(s, E, A, P) BY <1>1, <1>3 DEF SourceSound
<1>6. Unread(s) /\ UnreadOrOld(s) BY <1>3 DEF Unread, UnreadOrOld
<1>7. \A o \in R : Bears(s, o, R) BY <1>3, <1>4 DEF Bears
<1> QED BY <1>2, <1>4, <1>5, <1>6, <1>7 DEF s

\* The journal only advances, and what was sound stays so.
LEMMA SoundStays ==
  ASSUME NEW s, NEW E, NEW A, NEW P, NEW E2, NEW A2, E \subseteq E2, A \subseteq A2,
         SourceSound(s, E, A, P)
  PROVE  SourceSound(s, E2, A2, P)
<1>1. \A m : MessageSound(m, E, A, P) => MessageSound(m, E2, A2, P)
  BY DEF MessageSound, IsResultOf
<1> QED BY <1>1 DEF SourceSound

\* A message that is sound is written; what the stream bore it brings or still bears.
LEMMA WireGrows ==
  ASSUME NEW s \in SourceType, NEW t \in SourceType, NEW m \in OpMessageType,
         NEW E, NEW A, NEW P, NEW R, NEW forsaken,
         SourceSound(s, E, A, P), MessageSound(m, E, A, P),
         s.link = "open", s.fenced \/ m.type = "ready",
         t.link = "open", t.fenced, t.ids = s.ids, t.wire = s.wire \o <<m>>,
         t.unsent \subseteq s.unsent, t.owed \subseteq s.owed,
         \A o \in R \ forsaken :
           \/ o \in s.unsent \cup s.owed \cup s.unreplayed
           \/ ~s.fenced /\ o \in s.ids \cup R
           => o \in t.unsent \cup t.owed \cup t.unreplayed \/ Brings(m, o)
  PROVE  StreamKeeps(s, t, E, A, P, R, forsaken)
<1>1. /\ t.wire # <<>> /\ Range(t.wire) = Range(s.wire) \cup {m}
      /\ Head(t.wire) = IF s.wire = <<>> THEN m ELSE Head(s.wire)
  <2>1. s.wire \in Seq(OpMessageType) BY DEF SourceType
  <2> QED BY <2>1, OneMore
<1>2. s # NoSource /\ t # NoSource BY SourceIsNot
<1>3. SourceSound(t, E, A, P) BY <1>1, <1>2 DEF SourceSound
<1>4. ~s.fenced => s.wire = <<>> BY <1>2 DEF SourceSound
<1>5. (s.fenced => FirstReady(s)) => FirstReady(t) BY <1>1, <1>4 DEF FirstReady
<1>6. Unread(s) => Unread(t) BY <1>2, <1>5 DEF Unread
<1>7. UnreadOrOld(s) => UnreadOrOld(t) BY <1>2, <1>5 DEF UnreadOrOld
<1>8. ASSUME NEW o \in R \ forsaken, Bears(s, o, R) PROVE Bears(t, o, R)
  BY <1>1, <1>2, <1>8 DEF Bears
<1> QED BY <1>3, <1>6, <1>7, <1>8 DEF StreamKeeps

\* The wire stays.
LEMMA WireStays ==
  ASSUME NEW s \in SourceType, NEW t \in SourceType,
         NEW E, NEW A, NEW P, NEW R, NEW forsaken,
         SourceSound(s, E, A, P),
         t.wire = s.wire, t.fenced = s.fenced, t.ids = s.ids,
         t.unsent \subseteq E, t.owed \subseteq E,
         t.link \in {"open", "lost"}, t.link \in {s.link, "lost"} \/ s.fenced = FALSE,
         \A o \in R \ forsaken :
           o \in s.unsent \cup s.owed \cup s.unreplayed
           => o \in t.unsent \cup t.owed \cup t.unreplayed \/ t.link = "lost"
  PROVE  StreamKeeps(s, t, E, A, P, R, forsaken)
<1>1. s # NoSource /\ t # NoSource BY SourceIsNot
<1>2. SourceSound(t, E, A, P) BY <1>1 DEF SourceSound
<1>3. Unread(s) => Unread(t) BY <1>1 DEF Unread, FirstReady
<1>4. UnreadOrOld(s) => UnreadOrOld(t) BY <1>1 DEF UnreadOrOld, FirstReady, SourceSound
<1>5. ASSUME NEW o \in R \ forsaken, Bears(s, o, R) PROVE Bears(t, o, R)
  BY <1>1, <1>5 DEF Bears
<1> QED BY <1>2, <1>3, <1>4, <1>5 DEF StreamKeeps

\* The page takes a frame: the frame brings what the stream no longer bears.
LEMMA Consuming ==
  ASSUME NEW s \in SourceType, NEW E, NEW A, NEW P, NEW R,
         SourceSound(s, E, A, P), s.wire # <<>>
  PROVE  LET t == Consumed(s)  m == Head(s.wire)
         IN  /\ t \in SourceType /\ t # NoSource /\ SourceSound(t, E, A, P)
             /\ m \in OpMessageType /\ MessageSound(m, E, A, P)
             /\ \A o \in R : Bears(s, o, R) => Brings(m, o) \/ Bears(t, o, R)
<1> DEFINE t == Consumed(s)  m == Head(s.wire)
<1>1. s # NoSource /\ s.fenced BY SourceIsNot DEF SourceSound
<1>2. /\ m \in OpMessageType /\ Tail(s.wire) \in Seq(OpMessageType) /\ m \in Range(s.wire)
      /\ Range(s.wire) = {m} \cup Range(Tail(s.wire))
  <2>1. s.wire \in Seq(OpMessageType) BY DEF SourceType
  <2> QED BY <2>1, OneLess
<1>3. /\ t \in SourceType /\ t.wire = Tail(s.wire) /\ t.link = s.link /\ t.ids = s.ids
      /\ t.unsent = s.unsent /\ t.owed = s.owed /\ t.fenced = s.fenced /\ t.unreplayed = s.unreplayed
  BY <1>2 DEF Consumed, SourceType
<1> HIDE DEF t, m
<1>4. t # NoSource BY <1>3, SourceIsNot
<1>5. SourceSound(t, E, A, P) /\ MessageSound(m, E, A, P)
  BY <1>1, <1>2, <1>3, <1>4 DEF SourceSound
<1>6. \A o \in R : Bears(s, o, R) => Brings(m, o) \/ Bears(t, o, R)
  BY <1>1, <1>2, <1>3, <1>4 DEF Bears
<1> QED BY <1>2, <1>3, <1>4, <1>5, <1>6 DEF t, m

-----------------------------------------------------------------------------
(* The page: what each function of its record keeps.                        *)

\* What was seen is in the map of terminals alone.
LEMMA SeenIs ==
  ASSUME NEW p, NEW q, NEW o, p.terminal = q.terminal
  PROVE  Seen(p, o) <=> Seen(q, o)
BY DEF Seen

\* The journal advances: nothing that was handled is missing in it.
LEMMA PageOfLaterJournal ==
  ASSUME NEW p, NEW rc, NEW E, NEW A, NEW E2, NEW A2, E \subseteq E2, A \subseteq A2,
         PageOK(p, rc, E, A), \A o \in A2 : p.handled[o] # <<>>, E2 \subseteq Op
  PROVE  PageOK(p, rc, E2, A2)
<1>1. \A o, b : IsResultOf(o, b, E, A) => IsResultOf(o, b, E2, A2) BY DEF IsResultOf
<1>2. KeptSound(p.terminal, E2, A2) BY <1>1 DEF PageOK, PageSound, KeptSound
<1>3. HeldSound(p, E2, A2) BY <1>1 DEF PageOK, PageSound, HeldSound
<1>4. HandledRightly(p, rc, E2) BY DEF PageOK, PageSound, HandledRightly
<1>5. AckedRightly(p, E2, A2) BY DEF PageOK, PageSound, AckedRightly, HandledRightly
<1> QED BY <1>2, <1>3, <1>4, <1>5 DEF PageOK, PageSound

\* A receipt is sent to an operation that had none.
LEMMA PageOfReceipts ==
  ASSUME NEW p, NEW rc, NEW rc2, NEW E, NEW A, PageOK(p, rc, E, A),
         \A o \in Op : (rc[o] = "received") <=> (rc2[o] = "received")
  PROVE  /\ PageOK(p, rc2, E, A)
         /\ \A o \in Op : Lacks(p, rc2, o) <=> Lacks(p, rc, o)
<1>1. HandledRightly(p, rc2, E) BY DEF PageOK, PageSound, HandledRightly
<1>2. \A o \in Op : Lacks(p, rc2, o) <=> Lacks(p, rc, o) BY DEF Lacks, Misses, Due
<1> QED BY <1>1, <1>2 DEF PageOK, PageSound

\* pruneApiOperationReplay: back within the limit; nothing that was not missed is missed then.
LEMMA Pruning ==
  ASSUME NEW p, NEW rc, NEW E, NEW A, PageSound(p, rc, E, A),
         Len(p.terminal) <= ReplayLimit + 1
  PROVE  LET q == PruneApiOperationReplay(p)
         IN  /\ PageOK(q, rc, E, A)
             /\ q.dedicated = p.dedicated /\ q.framed = p.framed /\ q.repairs = p.repairs
             /\ q.handled = p.handled /\ q.acks = p.acks /\ p.forgone \subseteq q.forgone
             /\ \A o \in Op : q.record[o] = "accepted" => p.record[o] = "accepted"
             /\ \A o \in Op : Misses(q, rc, o) => Misses(p, rc, o)
<1> DEFINE q == PruneApiOperationReplay(p)  h == Head(p.terminal).op
<1>1. CASE Len(p.terminal) <= ReplayLimit
  BY <1>1 DEF PruneApiOperationReplay, PageOK
<1>2. CASE ~(Len(p.terminal) <= ReplayLimit)
  <2>1. p.terminal \in Seq(KeptType) /\ p.terminal # <<>> /\ Len(p.terminal) \in Nat /\ p \in PageType
    BY <1>2, OperationConstants, LenProperties DEF PageSound, PageType
  <2>2. /\ Tail(p.terminal) \in Seq(KeptType) /\ Head(p.terminal) \in KeptType
        /\ Len(Tail(p.terminal)) = Len(p.terminal) - 1
        /\ \A i \in DOMAIN Tail(p.terminal) :
             i + 1 \in DOMAIN p.terminal /\ Tail(p.terminal)[i] = p.terminal[i + 1]
        /\ Range(p.terminal) = {Head(p.terminal)} \cup Range(Tail(p.terminal))
        /\ Head(p.terminal) \in Range(p.terminal)
    BY <2>1, OneLess
  <2>3. h \in Op BY <2>2 DEF KeptType
  <2>4. /\ q \in PageType /\ q.terminal = Tail(p.terminal)
        /\ q.dedicated = p.dedicated /\ q.framed = p.framed /\ q.repairs = p.repairs
        /\ q.handled = p.handled /\ q.acks = p.acks
        /\ q.record = [p.record EXCEPT ![h] = "none"]
        /\ q.forgone = IF p.record[h] = "none" THEN p.forgone \cup {h} ELSE p.forgone
    BY <1>2, <2>1, <2>2, <2>3 DEF PruneApiOperationReplay, PageType
  <2> HIDE DEF q
  <2>5. DOMAIN Tail(p.terminal) = 1 .. Len(p.terminal) - 1 /\ DOMAIN p.terminal = 1 .. Len(p.terminal)
    BY <2>1, <2>2, LenProperties
  <2>6. Once(q.terminal) BY <2>1, <2>2, <2>4, <2>5 DEF PageSound, Once
  <2>7. KeptSound(q.terminal, E, A) BY <2>2, <2>4 DEF PageSound, KeptSound
  <2>8. Seen(p, h) BY <2>2 DEF Seen, Range
  <2>9. \A o \in Op : Seen(p, o) <=> o = h \/ Seen(q, o)
    <3>1. ASSUME NEW o \in Op, Seen(p, o), o # h PROVE Seen(q, o)
      <4>1. PICK i \in DOMAIN p.terminal : p.terminal[i].op = o BY <3>1 DEF Seen
      <4>2. p.terminal[i] \in Range(p.terminal) BY DEF Range
      <4>3. p.terminal[i] \in Range(Tail(p.terminal)) BY <4>1, <4>2, <3>1, <2>2
      <4> QED BY <4>1, <4>3, <2>4 DEF Seen, Range
    <3>2. ASSUME NEW o \in Op, Seen(q, o) PROVE Seen(p, o)
      BY <3>2, <2>2, <2>4 DEF Seen
    <3> QED BY <3>1, <3>2, <2>8
  <2>10. p.record[h] # "accepted" /\ p.dedicated[h] = "none"
    BY <2>3, <2>8 DEF PageSound, HandledRightly, HeldSound
  <2>11. p.record \in [Op -> {"none", "accepted", "terminal"}] BY <2>1 DEF PageType
  <2>12. HeldSound(q, E, A) BY <2>3, <2>4, <2>10, <2>11 DEF PageSound, HeldSound
  <2>13. HandledRightly(q, rc, E) BY <2>3, <2>4, <2>9, <2>11 DEF PageSound, HandledRightly
  <2>14. AckedRightly(q, E, A) BY <2>4 DEF PageSound, AckedRightly
  <2>15. Len(q.terminal) <= ReplayLimit BY <2>1, <2>2, <2>4, OperationConstants
  <2>16. \A o \in Op : Misses(q, rc, o) => Misses(p, rc, o)
    <3> SUFFICES ASSUME NEW o \in Op, Misses(q, rc, o) PROVE Misses(p, rc, o) OBVIOUS
    <3>1. CASE o # h BY <3>1, <2>3, <2>4, <2>9, <2>11 DEF Misses, Due
    <3>2. CASE o = h
      <4>1. p.record[h] # "none" /\ rc[h] # "received"
        BY <3>2, <2>3, <2>4, <2>11 DEF Misses, Due
      <4> QED BY <4>1, <2>3 DEF PageSound, HandledRightly
    <3> QED BY <3>1, <3>2
  <2>17. p.forgone \subseteq q.forgone BY <2>4
  <2>18. \A o \in Op : q.record[o] = "accepted" => p.record[o] = "accepted"
    BY <2>3, <2>4, <2>11
  <2>19. PageOK(q, rc, E, A)
    BY <2>4, <2>6, <2>7, <2>12, <2>13, <2>14, <2>15 DEF PageSound, PageOK
  <2> QED BY <2>4, <2>16, <2>17, <2>18, <2>19 DEF q
<1> QED BY <1>1, <1>2

\* What the steps of the page keep besides: what is handled stays so, what is lost too.
PageKeeps(p, q, rc, rc2, R) ==
  /\ \A o \in Op : p.handled[o] # <<>> => q.handled[o] # <<>>
  /\ p.forgone \subseteq q.forgone
  /\ ServedIsFramed(p, R) => ServedIsFramed(q, R)
  /\ \A o \in R : Lacks(q, rc2, o) => Lacks(p, rc, o)

\* A result is kept, last, for an operation that nothing was kept of.
LEMMA Keeping ==
  ASSUME NEW t \in Seq(KeptType), NEW o \in Op, NEW body \in Results, NEW E, NEW A,
         Once(t), KeptSound(t, E, A), IsResultOf(o, body, E, A),
         \A i \in DOMAIN t : t[i].op # o
  PROVE  LET u == Append(t, [op |-> o, body |-> body])
         IN  /\ u \in Seq(KeptType) /\ Len(u) = Len(t) + 1
             /\ Once(u) /\ KeptSound(u, E, A)
             /\ \A x : (\E i \in DOMAIN u : u[i].op = x) <=> x = o \/ \E i \in DOMAIN t : t[i].op = x
<1> DEFINE e == [op |-> o, body |-> body]  u == Append(t, e)
<1>1. e \in KeptType /\ e.op = o /\ e.body = body BY DEF KeptType
<1> HIDE DEF e
<1>2. /\ u \in Seq(KeptType) /\ Len(u) = Len(t) + 1 /\ DOMAIN u = DOMAIN t \cup {Len(t) + 1}
      /\ DOMAIN t = 1 .. Len(t) /\ Len(t) \in Nat
      /\ \A i \in DOMAIN t : u[i] = t[i]
      /\ u[Len(t) + 1] = e
  BY <1>1, Appended, LenProperties
<1> HIDE DEF u
<1>3. Once(u) BY <1>1, <1>2 DEF Once
<1>4. KeptSound(u, E, A) BY <1>1, <1>2 DEF KeptSound
<1>5. \A x : (\E i \in DOMAIN u : u[i].op = x) <=> x = o \/ \E i \in DOMAIN t : t[i].op = x
  BY <1>1, <1>2
<1> QED BY <1>2, <1>3, <1>4, <1>5 DEF u, e

\* completeApiOperationRecord, with the result kept: q is p so completed.
LEMMA Completing ==
  ASSUME NEW p, NEW q \in PageType, NEW rc, NEW rc2, NEW E, NEW A, NEW R \in SUBSET Op,
         NEW o \in Op, NEW body \in Results,
         PageOK(p, rc, E, A), IsResultOf(o, body, E, A), p.handled[o] = <<>>,
         \A x \in Op : rc2[x] = IF x = o THEN "received" ELSE rc[x],
         q.record = [p.record EXCEPT ![o] = "terminal"],
         q.dedicated = [p.dedicated EXCEPT ![o] = "none"],
         q.handled = [p.handled EXCEPT ![o] = Append(@, body)],
         q.acks = p.acks \cup {o}, q.framed = p.framed, q.forgone = p.forgone,
         q.repairs \in {p.repairs, p.repairs \ {o}},
         Once(q.terminal), KeptSound(q.terminal, E, A),
         \A x \in Op : Seen(q, x) <=> x = o \/ Seen(p, x)
  PROVE  PageSound(q, rc2, E, A) /\ PageKeeps(p, q, rc, rc2, R)
<1>1. p \in PageType BY DEF PageOK, PageSound
<1>2. /\ p.record \in [Op -> {"none", "accepted", "terminal"}]
      /\ p.dedicated \in [Op -> {"none", "connecting", "open", "served", "lost", Exact, Evicted}]
      /\ p.handled \in [Op -> Seq(Results)]
  BY <1>1 DEF PageType
<1>3. o \in E /\ o \notin A BY DEF PageOK, PageSound, AckedRightly, IsResultOf
<1>4. body = Exact BY <1>3 DEF IsResultOf, Results
<1>5. q.handled[o] = <<Exact>> /\ <<Exact>> # <<>> BY <1>2, <1>4
<1>6. \A x \in Op : x # o => /\ q.record[x] = p.record[x] /\ q.dedicated[x] = p.dedicated[x]
                             /\ q.handled[x] = p.handled[x] /\ rc2[x] = rc[x]
  BY <1>2
<1>7. q.record[o] = "terminal" /\ q.dedicated[o] = "none" /\ rc2[o] = "received" BY <1>2
<1>8. HeldSound(q, E, A)
  <2> SUFFICES ASSUME NEW x \in Op
               PROVE  /\ q.dedicated[x] # "none" => x \in E /\ q.record[x] = "accepted"
                      /\ q.dedicated[x] \in Results => IsResultOf(x, q.dedicated[x], E, A)
                      /\ q.framed[x] # NotQueued => IsResultOf(x, q.framed[x], E, A)
    BY DEF HeldSound
  <2>1. /\ p.dedicated[x] # "none" => x \in E /\ p.record[x] = "accepted"
        /\ p.dedicated[x] \in Results => IsResultOf(x, p.dedicated[x], E, A)
        /\ p.framed[x] # NotQueued => IsResultOf(x, p.framed[x], E, A)
    BY DEF PageOK, PageSound, HeldSound
  <2>2. CASE x = o BY <2>1, <2>2, <1>7 DEF Results, Exact, Evicted
  <2>3. CASE x # o BY <2>1, <2>3, <1>6
  <2> QED BY <2>2, <2>3
<1>9. HandledRightly(q, rc2, E)
  BY <1>3, <1>5, <1>6, <1>7 DEF PageOK, PageSound, HandledRightly
<1>10. AckedRightly(q, E, A)
  BY <1>3, <1>5, <1>6 DEF PageOK, PageSound, AckedRightly, HandledRightly
<1>11. PageSound(q, rc2, E, A)
  BY <1>8, <1>9, <1>10 DEF PageOK, PageSound
<1>12. ServedIsFramed(p, R) => ServedIsFramed(q, R) BY <1>6, <1>7 DEF ServedIsFramed
<1>13. \A x \in R : Lacks(q, rc2, x) => Lacks(p, rc, x)
  <2> SUFFICES ASSUME NEW x \in R, Lacks(q, rc2, x) PROVE Lacks(p, rc, x) OBVIOUS
  <2>1. x # o /\ x \in Op BY DEF Lacks, Misses
  <2> QED BY <2>1, <1>6 DEF Lacks, Misses, Due, HeldByPage
<1>14. \A x \in Op : p.handled[x] # <<>> => q.handled[x] # <<>> BY <1>5, <1>6
<1> QED BY <1>11, <1>12, <1>13, <1>14 DEF PageKeeps

\* What two functions keep, the second after the first keeps.
LEMMA KeepsBoth ==
  ASSUME NEW p, NEW q, NEW r, NEW rc, NEW rc2, NEW R,
         PageKeeps(p, q, rc, rc2, R), PageKeeps(q, r, rc2, rc2, R)
  PROVE  PageKeeps(p, r, rc, rc2, R)
BY DEF PageKeeps

\* The same as what a function of the page keeps.
LEMMA PruningKeeps ==
  ASSUME NEW p, NEW rc, NEW E, NEW A, NEW R \in SUBSET Op, PageSound(p, rc, E, A),
         Len(p.terminal) <= ReplayLimit + 1
  PROVE  PageKeeps(p, PruneApiOperationReplay(p), rc, rc, R)
<1> DEFINE q == PruneApiOperationReplay(p)
<1>1. /\ q.dedicated = p.dedicated /\ q.framed = p.framed /\ q.repairs = p.repairs
      /\ q.handled = p.handled /\ p.forgone \subseteq q.forgone
      /\ \A o \in Op : Misses(q, rc, o) => Misses(p, rc, o)
  BY Pruning
<1> HIDE DEF q
<1> QED BY <1>1 DEF PageKeeps, ServedIsFramed, Lacks, HeldByPage, q

\* What applyApiOperationTerminal does: the operation does not miss its result then, and
\* its dedicated stream is closed.
Applied(p, q, rc, E, A, R, o) ==
  /\ PageOK(q, rc, E, A) /\ PageKeeps(p, q, rc, rc, R)
  /\ ~Misses(q, rc, o) /\ q.dedicated[o] = "none" /\ q.framed = p.framed
  /\ \A x \in Op : q.record[x] = "accepted" => p.record[x] = "accepted"
  /\ \A x \in Op : q.dedicated[x] \in {p.dedicated[x], "none"}
  /\ q.repairs = p.repairs

\* applyApiOperationTerminal, of a result that is the journal's.
LEMMA Applying ==
  ASSUME NEW p, NEW rc, NEW E, NEW A, NEW R \in SUBSET Op, PageOK(p, rc, E, A),
         NEW o \in Op, NEW body \in Results, IsResultOf(o, body, E, A)
  PROVE  Applied(p, ApplyApiOperationTerminal(p, o, body), rc, E, A, R, o)
<1> DEFINE q == ApplyApiOperationTerminal(p, o, body)
           k == Keep(p, o, body)
           c == CompleteApiOperationRecord(k, o, body)
<1>1. p \in PageType /\ PageSound(p, rc, E, A) BY DEF PageOK, PageSound
<1>2. /\ p.record \in [Op -> {"none", "accepted", "terminal"}]
      /\ p.dedicated \in [Op -> {"none", "connecting", "open", "served", "lost", Exact, Evicted}]
      /\ p.handled \in [Op -> Seq(Results)] /\ p.acks \in SUBSET Op
      /\ p.terminal \in Seq(KeptType)
  BY <1>1 DEF PageType
<1>3. CASE ~Applies(p, o)
  <2>1. q = p BY <1>3 DEF ApplyApiOperationTerminal
  <2>2. p.record[o] = "terminal" \/ Seen(p, o) BY <1>3 DEF Applies
  <2>3. p.dedicated[o] = "none" /\ ~Misses(p, rc, o)
    BY <1>1, <2>2 DEF PageSound, HeldSound, HandledRightly, Misses, Due
  <2>4. PageKeeps(p, p, rc, rc, R) BY DEF PageKeeps
  <2> QED BY <1>2, <2>1, <2>3, <2>4 DEF Applied
<1>4. CASE Applies(p, o)
  <2>1. p.record[o] \in {"none", "accepted"} /\ ~Seen(p, o) BY <1>2, <1>4 DEF Applies
  <2>2. /\ k.terminal \in Seq(KeptType) /\ Len(k.terminal) = Len(p.terminal) + 1
        /\ Once(k.terminal) /\ KeptSound(k.terminal, E, A)
        /\ \A x : Seen(k, x) <=> x = o \/ Seen(p, x)
    <3>1. /\ Once(p.terminal) /\ KeptSound(p.terminal, E, A) /\ \A i \in DOMAIN p.terminal : p.terminal[i].op # o
      BY <1>1, <2>1 DEF PageSound, Seen
    <3>2. k.terminal = Append(p.terminal, [op |-> o, body |-> body]) BY <1>1 DEF Keep, PageType
    <3> DEFINE t == p.terminal  u == Append(t, [op |-> o, body |-> body])
    <3>3. t \in Seq(KeptType) BY <1>2
    <3> HIDE DEF k
    <3>4. /\ u \in Seq(KeptType) /\ Len(u) = Len(t) + 1
          /\ Once(u) /\ KeptSound(u, E, A)
          /\ \A x : (\E i \in DOMAIN u : u[i].op = x) <=> x = o \/ \E i \in DOMAIN t : t[i].op = x
      <4> HIDE DEF t
      <4> QED BY <3>1, <3>3, Keeping DEF t
    <3>5. k.terminal = u BY <3>2
    <3> HIDE DEF u
    <3> QED BY <3>4, <3>5 DEF Seen
  <2>3. /\ k \in PageType /\ k.record = p.record /\ k.dedicated = p.dedicated /\ k.handled = p.handled
        /\ k.acks = p.acks /\ k.framed = p.framed /\ k.forgone = p.forgone /\ k.repairs = p.repairs
    BY <1>1, <2>2 DEF Keep, PageType
  <2> HIDE DEF k
  <2>4. Len(k.terminal) <= ReplayLimit + 1
    BY <1>2, <2>2, OperationConstants, LenProperties DEF PageOK
  <2>5. CASE p.record[o] = "none"
    <3>1. q = PruneApiOperationReplay(k)
      BY <1>4, <2>5 DEF ApplyApiOperationTerminal, k
    <3>2. HeldSound(k, E, A) /\ HandledRightly(k, rc, E) /\ AckedRightly(k, E, A)
      BY <1>1, <2>2, <2>3, <2>5 DEF PageSound, HeldSound, HandledRightly, AckedRightly
    <3>3. PageSound(k, rc, E, A) BY <1>1, <2>2, <2>3, <3>2 DEF PageSound
    <3>4. PageKeeps(p, k, rc, rc, R)
      BY <2>2, <2>3 DEF PageKeeps, ServedIsFramed, Lacks, Misses, Due, HeldByPage
    <3>5. PageOK(q, rc, E, A) /\ PageKeeps(k, q, rc, rc, R)
      BY <2>4, <3>1, <3>3, Pruning, PruningKeeps
    <3>6. /\ q.dedicated = k.dedicated /\ q.framed = k.framed /\ q.acks = k.acks /\ q.repairs = k.repairs
          /\ \A x \in Op : q.record[x] = "accepted" => k.record[x] = "accepted"
          /\ \A x \in Op : Misses(q, rc, x) => Misses(k, rc, x)
      BY <2>4, <3>1, <3>3, Pruning
    <3>7. ~Misses(k, rc, o) BY <2>2 DEF Misses
    <3>8. p.dedicated[o] = "none" BY <1>1, <2>5 DEF PageSound, HeldSound
    <3>9. PageKeeps(p, q, rc, rc, R) BY <3>4, <3>5, KeepsBoth
    <3> HIDE DEF q
    <3> QED BY <1>2, <2>3, <3>5, <3>6, <3>7, <3>8, <3>9 DEF q, Applied
  <2>6. CASE p.record[o] = "accepted"
    <3>1. q = PruneApiOperationReplay(c)
      BY <1>4, <2>6 DEF ApplyApiOperationTerminal, k
    <3>2. Append(k.handled[o], body) \in Seq(Results) BY <1>2, <2>3
    <3>3. /\ c \in PageType
          /\ c.record = [p.record EXCEPT ![o] = "terminal"]
          /\ c.dedicated = [p.dedicated EXCEPT ![o] = "none"]
          /\ c.handled = [p.handled EXCEPT ![o] = Append(@, body)]
          /\ c.acks = p.acks \cup {o} /\ c.framed = p.framed /\ c.forgone = p.forgone
          /\ c.repairs = p.repairs /\ c.terminal = k.terminal
      BY <2>3, <3>2 DEF CompleteApiOperationRecord, PageType
    <3> HIDE DEF c
    <3>4. p.handled[o] = <<>> /\ rc[o] = "received" BY <1>1, <2>6 DEF PageSound, HandledRightly
    <3>5. \A x \in Op : Seen(c, x) <=> x = o \/ Seen(p, x) BY <2>2, <3>3, SeenIs
    <3>6. \A x \in Op : rc[x] = IF x = o THEN "received" ELSE rc[x] BY <3>4
    <3>7. PageSound(c, rc, E, A) /\ PageKeeps(p, c, rc, rc, R)
      BY <2>2, <3>3, <3>4, <3>5, <3>6, Completing
    <3>8. Len(c.terminal) <= ReplayLimit + 1 BY <2>4, <3>3
    <3>9. PageOK(q, rc, E, A) /\ PageKeeps(c, q, rc, rc, R)
      BY <3>1, <3>7, <3>8, Pruning, PruningKeeps
    <3>10. /\ q.dedicated = c.dedicated /\ q.framed = c.framed /\ q.acks = c.acks /\ q.repairs = c.repairs
           /\ \A x \in Op : q.record[x] = "accepted" => c.record[x] = "accepted"
           /\ \A x \in Op : Misses(q, rc, x) => Misses(c, rc, x)
      BY <3>1, <3>7, <3>8, Pruning
    <3>11. ~Misses(c, rc, o) BY <3>5 DEF Misses
    <3>12. PageKeeps(p, q, rc, rc, R) BY <3>7, <3>9, KeepsBoth
    <3> HIDE DEF q
    <3> QED BY <1>2, <3>3, <3>9, <3>10, <3>11, <3>12 DEF q, Applied
  <2> QED BY <2>1, <2>5, <2>6
<1> QED BY <1>3, <1>4

\* A step of the page from p to q, after which no more operations are accepted than before.
PageStep(p, q, rc, E, A, R) ==
  /\ PageOK(q, rc, E, A) /\ PageKeeps(p, q, rc, rc, R)
  /\ \A o \in Op : q.record[o] = "accepted" => p.record[o] = "accepted"

\* The types of the fields.
LEMMA PageFields ==
  ASSUME NEW p \in PageType
  PROVE  /\ p.record \in [Op -> {"none", "accepted", "terminal"}]
         /\ p.terminal \in Seq(KeptType) /\ p.repairs \in SUBSET Op
         /\ p.dedicated \in [Op -> {"none", "connecting", "open", "served", "lost", Exact, Evicted}]
         /\ p.framed \in [Op -> {NotQueued, Exact, Evicted}]
         /\ p.handled \in [Op -> Seq(Results)]
         /\ p.acks \in SUBSET Op /\ p.forgone \in SUBSET Op
BY DEF PageType

\* Whatever the limit on the repairs evicts is among what the page knows of.
LEMMA EvictionsAre ==
  ASSUME NEW p \in PageType, NEW ops \in SUBSET Op, NEW retried \in SUBSET Op,
         NEW e \in Evictions(p, ops, retried)
  PROVE  e \in SUBSET Op
<1>1. p.repairs \in SUBSET Op BY PageFields
<1> QED BY <1>1 DEF Evictions, Waiting, Unknown

\* Streams are asked for some of what the page waits for: whatever is so repaired is held,
\* unless it is evicted.
LEMMA Repairing ==
  ASSUME NEW p, NEW rc, NEW E, NEW A, NEW R \in SUBSET Op, PageOK(p, rc, E, A),
         ServedIsFramed(p, R), NEW ops \in SUBSET Op, ops \subseteq E, NEW e \in SUBSET Op
  PROVE  LET q == RepairTerminals(p, ops, e)
         IN  PageStep(p, q, rc, E, A, R) /\ \A o \in R \cap ops : ~Lacks(q, rc, o)
<1> DEFINE q == RepairTerminals(p, ops, e)
<1>1. p \in PageType BY DEF PageOK, PageSound
<1>2. /\ p.record \in [Op -> {"none", "accepted", "terminal"}] /\ p.repairs \in SUBSET Op
      /\ p.forgone \in SUBSET Op
      /\ p.dedicated \in [Op -> {"none", "connecting", "open", "served", "lost", Exact, Evicted}]
  BY <1>1, PageFields
<1> DEFINE d == [o \in Op |-> IF o \in ops \ e /\ p.record[o] = "accepted" /\ p.dedicated[o] = "none"
                              THEN "connecting" ELSE p.dedicated[o]]
           r == Waiting(p, ops) \ e
           f == p.forgone \cup e
<1>3. /\ d \in [Op -> {"none", "connecting", "open", "served", "lost", Exact, Evicted}]
      /\ r \in SUBSET Op /\ f \in SUBSET Op
  <2>1. d \in [Op -> {"none", "connecting", "open", "served", "lost", Exact, Evicted}] BY <1>2
  <2>2. r \in SUBSET Op BY <1>2 DEF Waiting, Unknown
  <2>3. f \in SUBSET Op BY <1>2
  <2> QED BY <2>1, <2>2, <2>3
<1>4. q = [p EXCEPT !.repairs = r, !.dedicated = d, !.forgone = f] BY DEF RepairTerminals
<1> HIDE DEF q, r, d, f
<1>5. /\ q \in PageType
      /\ q.repairs = r /\ q.dedicated = d /\ q.forgone = f
      /\ q.record = p.record /\ q.terminal = p.terminal /\ q.framed = p.framed
      /\ q.handled = p.handled /\ q.acks = p.acks
  BY <1>1, <1>3, <1>4 DEF PageType
<1>6. /\ \A o \in Op : q.dedicated[o] =
                        IF o \in ops \ e /\ p.record[o] = "accepted" /\ p.dedicated[o] = "none"
                          THEN "connecting" ELSE p.dedicated[o]
      /\ q.repairs = ((p.repairs \ ops) \cup {o \in ops : p.record[o] = "none"}) \ e
      /\ q.forgone = p.forgone \cup e
  BY <1>5 DEF d, r, f, Waiting, Unknown
<1>7. q.repairs \subseteq E BY <1>6 DEF PageOK, PageSound
<1>8. HeldSound(q, E, A)
  <2> SUFFICES ASSUME NEW x \in Op
               PROVE  /\ q.dedicated[x] # "none" => x \in E /\ q.record[x] = "accepted"
                      /\ q.dedicated[x] \in Results => IsResultOf(x, q.dedicated[x], E, A)
                      /\ q.framed[x] # NotQueued => IsResultOf(x, q.framed[x], E, A)
    BY DEF HeldSound
  <2>1. /\ p.dedicated[x] # "none" => x \in E /\ p.record[x] = "accepted"
        /\ p.dedicated[x] \in Results => IsResultOf(x, p.dedicated[x], E, A)
        /\ p.framed[x] # NotQueued => IsResultOf(x, p.framed[x], E, A)
    BY DEF PageOK, PageSound, HeldSound
  <2> QED BY <2>1, <1>5, <1>6 DEF Results, Exact, Evicted
<1>9. HandledRightly(q, rc, E) /\ AckedRightly(q, E, A)
  BY <1>5, SeenIs DEF PageOK, PageSound, HandledRightly, AckedRightly
<1>10. PageOK(q, rc, E, A) BY <1>5, <1>7, <1>8, <1>9 DEF PageOK, PageSound
<1>11. \A o \in R : Lacks(q, rc, o) => Lacks(p, rc, o) /\ o \notin ops
  <2> SUFFICES ASSUME NEW o \in R, Lacks(q, rc, o) PROVE Lacks(p, rc, o) /\ o \notin ops OBVIOUS
  <2>1. /\ o \in Op /\ p.record[o] \in {"none", "accepted", "terminal"}
        /\ rc[o] # "received" => p.record[o] = "none"
    BY <1>2 DEF PageOK, PageSound, HandledRightly
  <2>2. p.dedicated[o] = "served" => p.framed[o] # NotQueued BY DEF ServedIsFramed
  <2>3. /\ o \notin e
        /\ q.dedicated[o] = IF o \in ops /\ p.record[o] = "accepted" /\ p.dedicated[o] = "none"
                            THEN "connecting" ELSE p.dedicated[o]
    BY <2>1, <1>6 DEF Lacks, Misses
  <2>4. Misses(p, rc, o) BY <1>5, <1>6, SeenIs DEF Lacks, Misses, Due
  <2>5. o \notin ops
    BY <2>1, <2>2, <2>3, <1>5, <1>6 DEF Lacks, Misses, Due, HeldByPage
  <2> QED BY <2>3, <2>4, <2>5, <1>5, <1>6 DEF Lacks, HeldByPage
<1>12. ServedIsFramed(q, R) BY <1>5, <1>6 DEF ServedIsFramed
<1>13. p.forgone \subseteq q.forgone BY <1>6
<1> QED BY <1>5, <1>10, <1>11, <1>12, <1>13 DEF PageStep, PageKeeps, q

\* The dedicated streams move on, each remaining one or none.
LEMMA Redirecting ==
  ASSUME NEW p, NEW q \in PageType, NEW rc, NEW E, NEW A, NEW R \in SUBSET Op, PageOK(p, rc, E, A),
         \A o \in Op : /\ q.dedicated[o] = "none" <=> p.dedicated[o] = "none"
                       /\ q.dedicated[o] = "served" => p.dedicated[o] = "served"
                       /\ q.dedicated[o] \in Results => IsResultOf(o, q.dedicated[o], E, A),
         q.record = p.record, q.terminal = p.terminal, q.framed = p.framed, q.repairs = p.repairs,
         q.handled = p.handled, q.acks = p.acks, q.forgone = p.forgone
  PROVE  PageStep(p, q, rc, E, A, R)
<1>1. HeldSound(q, E, A)
  BY DEF PageOK, PageSound, HeldSound
<1>2. HandledRightly(q, rc, E) /\ AckedRightly(q, E, A)
  BY SeenIs DEF PageOK, PageSound, HandledRightly, AckedRightly
<1>3. PageOK(q, rc, E, A) BY <1>1, <1>2 DEF PageOK, PageSound
<1>4. \A o \in R : Lacks(q, rc, o) => Lacks(p, rc, o)
  BY SeenIs DEF Lacks, Misses, Due, HeldByPage
<1>5. ServedIsFramed(p, R) => ServedIsFramed(q, R) BY DEF ServedIsFramed
<1> QED BY <1>3, <1>4, <1>5 DEF PageStep, PageKeeps

\* Results are put in the queue of the frame, or their dedicated streams end with them
\* there, or turn into repairs: o is the only operation that is moved.
LEMMA Moving ==
  ASSUME NEW p, NEW q \in PageType, NEW rc, NEW E, NEW A, NEW R \in SUBSET Op, PageOK(p, rc, E, A),
         NEW o \in Op,
         \A x \in Op : x # o => /\ q.dedicated[x] = p.dedicated[x] /\ q.framed[x] = p.framed[x]
                                /\ x \in q.repairs <=> x \in p.repairs,
         o \in q.repairs => o \in E,
         q.framed[o] # NotQueued => IsResultOf(o, q.framed[o], E, A),
         \/ q.dedicated[o] \in {p.dedicated[o], "none"}
         \/ q.dedicated[o] = "served" /\ p.dedicated[o] # "none",
         o \in R => HeldByPage(q, o) \/ ~Misses(p, rc, o),
         o \in R /\ q.dedicated[o] = "served" => q.framed[o] # NotQueued,
         q.record = p.record, q.terminal = p.terminal,
         q.handled = p.handled, q.acks = p.acks, q.forgone = p.forgone
  PROVE  PageOK(q, rc, E, A) /\ PageStep(p, q, rc, E, A, R)
<1>1. HeldSound(q, E, A)
  <2> SUFFICES ASSUME NEW x \in Op
               PROVE  /\ q.dedicated[x] # "none" => x \in E /\ q.record[x] = "accepted"
                      /\ q.dedicated[x] \in Results => IsResultOf(x, q.dedicated[x], E, A)
                      /\ q.framed[x] # NotQueued => IsResultOf(x, q.framed[x], E, A)
    BY DEF HeldSound
  <2>1. /\ p.dedicated[x] # "none" => x \in E /\ p.record[x] = "accepted"
        /\ p.dedicated[x] \in Results => IsResultOf(x, p.dedicated[x], E, A)
        /\ p.framed[x] # NotQueued => IsResultOf(x, p.framed[x], E, A)
    BY DEF PageOK, PageSound, HeldSound
  <2>2. CASE x = o BY <2>1, <2>2 DEF Results, Exact, Evicted
  <2>3. CASE x # o BY <2>1, <2>3
  <2> QED BY <2>2, <2>3
<1>2. HandledRightly(q, rc, E) /\ AckedRightly(q, E, A)
  BY SeenIs DEF PageOK, PageSound, HandledRightly, AckedRightly
<1>3. q.repairs \subseteq E
  <2>1. q.repairs \in SUBSET Op /\ p.repairs \subseteq E BY PageFields DEF PageOK, PageSound
  <2> QED BY <2>1
<1>4. PageOK(q, rc, E, A) BY <1>1, <1>2, <1>3 DEF PageOK, PageSound
<1>5. \A x \in R : Lacks(q, rc, x) => Lacks(p, rc, x)
  <2> SUFFICES ASSUME NEW x \in R, Lacks(q, rc, x) PROVE Lacks(p, rc, x) OBVIOUS
  <2>1. Misses(p, rc, x) BY SeenIs DEF Lacks, Misses, Due
  <2>2. x # o BY <2>1 DEF Lacks
  <2> QED BY <2>1, <2>2 DEF Lacks, HeldByPage
<1>6. ServedIsFramed(p, R) => ServedIsFramed(q, R)
  <2> SUFFICES ASSUME ServedIsFramed(p, R), NEW x \in R, q.dedicated[x] = "served"
               PROVE  q.framed[x] # NotQueued
    BY DEF ServedIsFramed
  <2> QED BY DEF ServedIsFramed
<1> QED BY <1>4, <1>5, <1>6 DEF PageStep, PageKeeps

\* Two steps of the page in one.
LEMMA StepsCompose ==
  ASSUME NEW p, NEW q, NEW r, NEW rc, NEW E, NEW A, NEW R,
         PageStep(p, q, rc, E, A, R), PageStep(q, r, rc, E, A, R)
  PROVE  PageStep(p, r, rc, E, A, R)
BY KeepsBoth DEF PageStep

\* A new epoch makes stale what is queued for the frame, nothing of which is of this process.
LEMMA EpochTurns ==
  ASSUME NEW p, NEW rc, NEW E, NEW A, NEW R \in SUBSET Op,
         PageOK(p, rc, E, A), NewEpoch(p, R, FALSE)
  PROVE  LET q == [p EXCEPT !.framed = [o \in Op |-> NotQueued]]
         IN  PageStep(p, q, rc, E, A, R) /\ ServedIsFramed(q, R)
<1> DEFINE q == [p EXCEPT !.framed = [o \in Op |-> NotQueued]]
<1>1. p \in PageType BY DEF PageOK, PageSound
<1>2. /\ q \in PageType /\ q.framed = [o \in Op |-> NotQueued]
      /\ q.record = p.record /\ q.terminal = p.terminal /\ q.repairs = p.repairs
      /\ q.dedicated = p.dedicated /\ q.handled = p.handled /\ q.acks = p.acks
      /\ q.forgone = p.forgone
  BY <1>1 DEF PageType
<1> HIDE DEF q
<1>3. HeldSound(q, E, A) BY <1>2 DEF PageOK, PageSound, HeldSound
<1>4. HandledRightly(q, rc, E) /\ AckedRightly(q, E, A)
  BY <1>2, SeenIs DEF PageOK, PageSound, HandledRightly, AckedRightly
<1>5. PageOK(q, rc, E, A) BY <1>2, <1>3, <1>4 DEF PageOK, PageSound
<1>6. ServedIsFramed(q, R) BY <1>2 DEF ServedIsFramed, NewEpoch
<1>7. \A o \in R : Lacks(q, rc, o) => Lacks(p, rc, o)
  BY <1>2, SeenIs DEF Lacks, Misses, Due, HeldByPage, NewEpoch
<1> QED BY <1>2, <1>5, <1>6, <1>7 DEF PageStep, PageKeeps, q

\* The record of the page's variables.
LEMMA OpsPageIs ==
  /\ OpsPage.record = record /\ OpsPage.terminal = terminal /\ OpsPage.repairs = repairs
  /\ OpsPage.dedicated = dedicated /\ OpsPage.framed = framed /\ OpsPage.handled = handled
  /\ OpsPage.acks = acks /\ OpsPage.forgone = forgone
BY DEF OpsPage

\* A frame: what it brings the page does not lack then.
LEMMA Framing ==
  ASSUME NEW m \in OpMessageType, NEW E, NEW A, E \subseteq Op, revised \subseteq Op,
         PageOK(OpsPage, receipt, E, A), ServedIsFramed(OpsPage, revised),
         NewEpoch(OpsPage, revised, adopted = process),
         MessageSound(m, E, A, process), adopted # process => m.type = "ready", NEW e \in SUBSET Op
  PROVE  /\ PageStep(OpsPage, HandleFrame(m, e), receipt, E, A, revised)
         /\ \A o \in revised : Brings(m, o) => ~Lacks(HandleFrame(m, e), receipt, o)
<1> DEFINE p == OpsPage  q == HandleFrame(m, e)
<1>1. p \in PageType BY DEF PageOK, PageSound
<1>2. CASE m.type = "terminal"
  <2>1. m.op \in Op /\ m.body \in {Exact, Evicted} /\ IsResultOf(m.op, m.body, E, A)
    BY <1>2 DEF OpMessageType, MessageSound
  <2>2. q = [p EXCEPT !.framed[m.op] = m.body] BY <1>2 DEF HandleFrame
  <2> HIDE DEF q, p
  <2>3. /\ q \in PageType /\ q.framed = [p.framed EXCEPT ![m.op] = m.body]
        /\ q.record = p.record /\ q.terminal = p.terminal /\ q.repairs = p.repairs
        /\ q.dedicated = p.dedicated /\ q.handled = p.handled /\ q.acks = p.acks
        /\ q.forgone = p.forgone
    BY <1>1, <2>1, <2>2 DEF PageType
  <2>4. p.framed \in [Op -> {NotQueued, Exact, Evicted}] BY <1>1, PageFields
  <2>5. q.framed[m.op] = m.body /\ m.body # NotQueued
    BY <2>1, <2>3, <2>4 DEF NotQueued, Exact, Evicted
  <2>6. HeldByPage(q, m.op) BY <2>5 DEF HeldByPage
  <2>7. \A x \in Op : x # m.op => q.framed[x] = p.framed[x] BY <2>1, <2>3, <2>4
  <2>8. m.op \in p.repairs => m.op \in E BY DEF PageOK, PageSound, p
  <2>9. PageStep(p, q, receipt, E, A, revised)
    BY <2>1, <2>3, <2>5, <2>6, <2>7, <2>8, Moving DEF p
  <2> QED BY <1>2, <2>6, <2>9 DEF p, q, Brings, Lacks
<1>3. CASE m.type # "terminal"
  <2> DEFINE z == IF m.type = "ready" /\ m.process # adopted
                    THEN [p EXCEPT !.framed = [o \in Op |-> NotQueued]] ELSE p
  <2>1. /\ m.ops \in SUBSET Op /\ m.ops \subseteq E /\ m.type \in {"ready", "other"}
        /\ m.type = "ready" => m.process = process
    BY <1>3 DEF OpMessageType, MessageSound
  <2>2. q = RepairTerminals(z, m.ops, e) BY <2>1 DEF HandleFrame
  <2>3. PageStep(p, z, receipt, E, A, revised) /\ ServedIsFramed(z, revised)
    <3>1. CASE z = p BY <3>1 DEF PageStep, PageKeeps
    <3>2. CASE z # p
      <4>1. z = [p EXCEPT !.framed = [o \in Op |-> NotQueued]] /\ adopted # process
        BY <3>2, <2>1
      <4>2. NewEpoch(p, revised, FALSE) BY <4>1 DEF NewEpoch
      <4> HIDE DEF z, p
      <4> QED BY <4>1, <4>2, EpochTurns DEF p
    <3> QED BY <3>1, <3>2
  <2>4. PageOK(z, receipt, E, A) BY <2>3 DEF PageStep
  <2> HIDE DEF z, p, q
  <2>5. /\ PageStep(z, q, receipt, E, A, revised)
        /\ \A o \in revised \cap m.ops : ~Lacks(q, receipt, o)
    BY <2>1, <2>2, <2>3, <2>4, Repairing
  <2>6. PageStep(p, q, receipt, E, A, revised) BY <2>3, <2>5, StepsCompose
  <2> QED BY <1>3, <2>5, <2>6 DEF p, q, Brings
<1> QED BY <1>2, <1>3

\* flushQueuedClientPushEvents, for one operation.
LEMMA Flushing ==
  ASSUME NEW p, NEW rc, NEW E, NEW A, NEW R \in SUBSET Op, PageOK(p, rc, E, A),
         NEW o \in Op, NEW b \in Results, p.framed[o] = b
  PROVE  LET q == ApplyApiOperationTerminal(p, o, b)
             u == [q EXCEPT !.framed[o] = NotQueued]
         IN  /\ PageStep(p, u, rc, E, A, R)
             /\ \A x \in Op : /\ u.dedicated[x] \in {p.dedicated[x], "none"} /\ u.repairs = p.repairs
                              /\ u.framed[x] \in {p.framed[x], NotQueued}
<1> DEFINE q == ApplyApiOperationTerminal(p, o, b)
           u == [q EXCEPT !.framed[o] = NotQueued]
<1>1. p.framed \in [Op -> {NotQueued, Exact, Evicted}] BY PageFields DEF PageOK, PageSound
<1>2. IsResultOf(o, b, E, A)
  BY DEF Results, Exact, Evicted, NotQueued, PageOK, PageSound, HeldSound
<1> HIDE DEF q
<1>3. /\ PageOK(q, rc, E, A) /\ PageKeeps(p, q, rc, rc, R)
      /\ ~Misses(q, rc, o) /\ q.dedicated[o] = "none" /\ q.framed = p.framed
      /\ \A x \in Op : q.record[x] = "accepted" => p.record[x] = "accepted"
      /\ \A x \in Op : q.dedicated[x] \in {p.dedicated[x], "none"}
      /\ q.repairs = p.repairs
  <2>1. Applied(p, q, rc, E, A, R, o) BY <1>2, Applying DEF q
  <2> QED BY <2>1 DEF Applied
<1>4. q \in PageType BY <1>3 DEF PageOK, PageSound
<1>5. /\ u \in PageType /\ u.framed = [q.framed EXCEPT ![o] = NotQueued]
      /\ u.record = q.record /\ u.terminal = q.terminal /\ u.repairs = q.repairs
      /\ u.dedicated = q.dedicated /\ u.handled = q.handled /\ u.acks = q.acks
      /\ u.forgone = q.forgone
  BY <1>4 DEF PageType
<1> HIDE DEF u
<1>6. PageStep(q, u, rc, E, A, R)
  <2>1. o \in u.repairs => o \in E BY <1>3, <1>5 DEF PageOK, PageSound
  <2>2. /\ \A x \in Op : x # o => u.dedicated[x] = q.dedicated[x] /\ u.framed[x] = q.framed[x]
        /\ u.framed[o] = NotQueued /\ u.dedicated[o] = "none"
    BY <1>1, <1>3, <1>5
  <2> QED BY <1>3, <1>5, <2>1, <2>2, Moving
<1>7. PageStep(p, q, rc, E, A, R) BY <1>3 DEF PageStep
<1>8. PageStep(p, u, rc, E, A, R) BY <1>6, <1>7, StepsCompose
<1> QED BY <1>1, <1>3, <1>5, <1>8 DEF u, q

\* registerApiOperationReceipt, of a result that came first.
KeptRegistered(o, i) ==
  PruneApiOperationReplay(
    CompleteApiOperationRecord(
      [Accepted(o) EXCEPT !.repairs = @ \ {o}, !.terminal = Append(Without(terminal, i), terminal[i])],
      o, terminal[i].body))

\* The record is completed at once, and the result is the newest of the map.
LEMMA RegisteringKept ==
  ASSUME NEW o \in Op, NEW i \in DOMAIN terminal, terminal[i].op = o,
         NEW E, NEW A, revised \subseteq Op, receipt \in ReceiptType, receipt[o] = "sent",
         PageOK(OpsPage, receipt, E, A)
  PROVE  LET q == KeptRegistered(o, i)  rc2 == [receipt EXCEPT ![o] = "received"]
         IN  /\ PageOK(q, rc2, E, A) /\ PageKeeps(OpsPage, q, receipt, rc2, revised)
             /\ \A x \in Op : q.record[x] = "accepted" => record[x] = "accepted"
             /\ \A x \in Op : q.dedicated[x] \in {dedicated[x], "none"}
             /\ q.framed = framed /\ q.repairs \subseteq repairs
<1> DEFINE p == OpsPage
           others == Without(terminal, i)
           t == Append(others, terminal[i])
           b == terminal[i].body
           z == [Accepted(o) EXCEPT !.repairs = @ \ {o}, !.terminal = t]
           c == CompleteApiOperationRecord(z, o, b)
           q == KeptRegistered(o, i)
           rc2 == [receipt EXCEPT ![o] = "received"]
<1>1. p \in PageType /\ PageSound(p, receipt, E, A) BY DEF PageOK, PageSound
<1>2. /\ record \in [Op -> {"none", "accepted", "terminal"}]
      /\ dedicated \in [Op -> {"none", "connecting", "open", "served", "lost", Exact, Evicted}]
      /\ handled \in [Op -> Seq(Results)] /\ terminal \in Seq(KeptType) /\ repairs \in SUBSET Op
      /\ acks \in SUBSET Op /\ framed \in [Op -> {NotQueued, Exact, Evicted}] /\ forgone \in SUBSET Op
  <2> HIDE DEF p
  <2> QED BY <1>1, PageFields, OpsPageIs DEF p
<1>3. /\ terminal[i] \in KeptType /\ terminal[i] = [op |-> o, body |-> b] /\ b \in Results
  <2>1. terminal[i] \in KeptType BY <1>2, ElementOfSeq, LenProperties
  <2> QED BY <2>1 DEF KeptType
<1>4. /\ record[o] = "none" /\ handled[o] = <<>> /\ dedicated[o] = "none"
      /\ IsResultOf(o, b, E, A) /\ Once(terminal) /\ KeptSound(terminal, E, A)
  <2>1. record[o] = "none" /\ handled[o] = <<>>
    BY <1>1, OpsPageIs DEF PageSound, HandledRightly
  <2> QED BY <1>1, <2>1, OpsPageIs DEF PageSound, HeldSound, KeptSound
<1>5. /\ others \in Seq(KeptType) /\ Len(others) = Len(terminal) - 1
      /\ Once(others) /\ KeptSound(others, E, A)
      /\ \A j \in DOMAIN others : others[j].op # o
      /\ \A x : x # o => ((\E j \in DOMAIN others : others[j].op = x) <=> Seen(p, x))
  <2>1. /\ others \in Seq(KeptType) /\ Len(others) = Len(terminal) - 1
        /\ \A j \in DOMAIN others : others[j] = terminal[IF j < i THEN j ELSE j + 1]
        /\ DOMAIN others = 1 .. Len(terminal) - 1 /\ DOMAIN terminal = 1 .. Len(terminal)
        /\ Len(terminal) \in Nat /\ i \in 1 .. Len(terminal)
    BY <1>2, Removed, LenProperties
  <2> HIDE DEF others, p, b
  <2>2. \A j \in DOMAIN others : (IF j < i THEN j ELSE j + 1) \in DOMAIN terminal
    BY <2>1
  <2>3. Once(others) BY <1>4, <2>1, <2>2 DEF Once
  <2>4. KeptSound(others, E, A) BY <1>4, <2>1, <2>2 DEF KeptSound
  <2>5. \A j \in DOMAIN others : others[j].op # o BY <1>4, <2>1, <2>2 DEF Once
  <2>6. ASSUME NEW x, x # o, NEW j \in DOMAIN others, others[j].op = x PROVE Seen(p, x)
    BY <2>1, <2>2, <2>6, OpsPageIs DEF Seen, p
  <2>7. ASSUME NEW x, x # o, Seen(p, x) PROVE \E j \in DOMAIN others : others[j].op = x
    <3>1. PICK j \in DOMAIN terminal : terminal[j].op = x BY <2>7, OpsPageIs DEF Seen, p
    <3>2. CASE j < i
      <4>1. j \in DOMAIN others /\ others[j] = terminal[j] BY <2>1, <3>2
      <4> QED BY <4>1, <3>1
    <3>3. CASE j > i
      <4>1. j - 1 \in DOMAIN others /\ ~(j - 1 < i) /\ (j - 1) + 1 = j BY <2>1, <3>3
      <4>2. others[j - 1] = terminal[j] BY <2>1, <4>1
      <4> QED BY <4>1, <4>2, <3>1
    <3> QED BY <2>1, <2>7, <3>1, <3>2, <3>3
  <2> QED BY <2>1, <2>3, <2>4, <2>5, <2>6, <2>7
<1>6. /\ t \in Seq(KeptType) /\ Len(t) = Len(terminal)
      /\ Once(t) /\ KeptSound(t, E, A)
      /\ \A x : (\E j \in DOMAIN t : t[j].op = x) <=> x = o \/ Seen(p, x)
  <2> DEFINE u == Append(others, [op |-> o, body |-> b])
  <2>1. t = u BY <1>3
  <2> HIDE DEF others, p, b, t
  <2>2. /\ u \in Seq(KeptType) /\ Len(u) = Len(others) + 1
        /\ Once(u) /\ KeptSound(u, E, A)
        /\ \A x : (\E j \in DOMAIN u : u[j].op = x) <=> x = o \/ \E j \in DOMAIN others : others[j].op = x
    BY <1>3, <1>4, <1>5, Keeping
  <2>3. Len(terminal) \in Nat BY <1>2, LenProperties
  <2> HIDE DEF u
  <2>4. Len(t) = Len(terminal) BY <1>5, <2>1, <2>2, <2>3
  <2>5. ASSUME NEW x PROVE (\E j \in DOMAIN t : t[j].op = x) <=> x = o \/ Seen(p, x)
    <3>1. (\E j \in DOMAIN t : t[j].op = x) <=> x = o \/ \E j \in DOMAIN others : others[j].op = x
      BY <2>1, <2>2
    <3>2. x # o => ((\E j \in DOMAIN others : others[j].op = x) <=> Seen(p, x)) BY <1>5
    <3> QED BY <3>1, <3>2
  <2> QED BY <2>1, <2>2, <2>4, <2>5
<1>7. /\ z \in PageType /\ z.record = [record EXCEPT ![o] = "accepted"] /\ z.repairs = repairs \ {o}
      /\ z.terminal = t /\ z.dedicated = dedicated /\ z.handled = handled /\ z.acks = acks
      /\ z.framed = framed /\ z.forgone = forgone
  <2>1. z = [[[p EXCEPT !.record[o] = "accepted"] EXCEPT !.repairs = repairs \ {o}] EXCEPT !.terminal = t]
    BY DEF Accepted, OpsPage
  <2> HIDE DEF z, t, p
  <2> QED BY <1>1, <1>2, <1>6, <2>1, OpsPageIs DEF PageType, p
<1> HIDE DEF z, t, others
<1>8. /\ c \in PageType /\ c.record = [record EXCEPT ![o] = "terminal"]
      /\ c.dedicated = [dedicated EXCEPT ![o] = "none"]
      /\ c.handled = [handled EXCEPT ![o] = Append(@, b)] /\ c.acks = acks \cup {o}
      /\ c.repairs = repairs \ {o} /\ c.terminal = t
      /\ c.framed = framed /\ c.forgone = forgone
  <2>1. Append(handled[o], b) \in Seq(Results) BY <1>2, <1>3
  <2>2. [z.record EXCEPT ![o] = "terminal"] = [record EXCEPT ![o] = "terminal"] BY <1>2, <1>7
  <2> HIDE DEF b
  <2> QED BY <1>7, <2>1, <2>2 DEF CompleteApiOperationRecord, PageType
<1>9. PageSound(c, rc2, E, A) /\ PageKeeps(p, c, receipt, rc2, revised)
  <2>1. \A x \in Op : rc2[x] = IF x = o THEN "received" ELSE receipt[x] BY DEF ReceiptType
  <2>2. \A x \in Op : Seen(c, x) <=> x = o \/ Seen(p, x) BY <1>6, <1>8 DEF Seen
  <2> HIDE DEF b, c, rc2
  <2>3. /\ c.record = [p.record EXCEPT ![o] = "terminal"]
        /\ c.dedicated = [p.dedicated EXCEPT ![o] = "none"]
        /\ c.handled = [p.handled EXCEPT ![o] = Append(@, b)]
        /\ c.acks = p.acks \cup {o} /\ c.framed = p.framed /\ c.forgone = p.forgone
        /\ c.repairs \in {p.repairs, p.repairs \ {o}} /\ p.handled[o] = <<>>
    BY <1>4, <1>8, OpsPageIs
  <2>4. PageOK(p, receipt, E, A) OBVIOUS
  <2>5. Once(c.terminal) /\ KeptSound(c.terminal, E, A) /\ c \in PageType BY <1>6, <1>8
  <2> HIDE DEF p
  <2> QED BY <1>3, <1>4, <2>1, <2>2, <2>3, <2>4, <2>5, Completing
<1>10. Len(c.terminal) <= ReplayLimit + 1
  <2>1. Len(terminal) \in Nat /\ Len(terminal) <= ReplayLimit
    BY <1>2, OpsPageIs, LenProperties DEF PageOK
  <2> QED BY <2>1, <1>6, <1>8, OperationConstants
<1>11. q = PruneApiOperationReplay(c) BY DEF KeptRegistered, z, t, others
<1> HIDE DEF c, q, rc2, p
<1>12. /\ PageOK(q, rc2, E, A) /\ PageKeeps(c, q, rc2, rc2, revised)
       /\ q.dedicated = c.dedicated /\ q.framed = c.framed /\ q.repairs = c.repairs
       /\ \A x \in Op : q.record[x] = "accepted" => c.record[x] = "accepted"
  BY <1>9, <1>10, <1>11, Pruning, PruningKeeps
<1>13. PageKeeps(p, q, receipt, rc2, revised) BY <1>9, <1>12, KeepsBoth
<1>14. \A x \in Op : c.record[x] = "accepted" => record[x] = "accepted" BY <1>2, <1>8
<1>15. \A x \in Op : c.dedicated[x] \in {dedicated[x], "none"} BY <1>2, <1>8
<1> QED BY <1>8, <1>12, <1>13, <1>14, <1>15 DEF q, p, rc2

\* The same when its result is still to come.
LEMMA RegisteringAccepted ==
  ASSUME NEW o \in Op, ~Seen(OpsPage, o),
         NEW E, NEW A, revised \subseteq Op, receipt \in ReceiptType, receipt[o] = "sent",
         PageOK(OpsPage, receipt, E, A), ServedIsFramed(OpsPage, revised)
  PROVE  LET q == IF o \in repairs THEN RepairTerminals(Accepted(o), {o}, {}) ELSE Accepted(o)
             rc2 == [receipt EXCEPT ![o] = "received"]
         IN  /\ PageOK(q, rc2, E, A) /\ PageKeeps(OpsPage, q, receipt, rc2, revised)
             /\ \A x \in Op : q.dedicated[x] # dedicated[x] => x \in repairs
             /\ q.framed = framed /\ q.repairs \subseteq repairs
<1> DEFINE p == OpsPage
           z == Accepted(o)
           q == IF o \in repairs THEN RepairTerminals(z, {o}, {}) ELSE z
           rc2 == [receipt EXCEPT ![o] = "received"]
<1>1. p \in PageType /\ PageSound(p, receipt, E, A) BY DEF PageOK, PageSound
<1>2. /\ record \in [Op -> {"none", "accepted", "terminal"}]
      /\ dedicated \in [Op -> {"none", "connecting", "open", "served", "lost", Exact, Evicted}]
      /\ handled \in [Op -> Seq(Results)] /\ terminal \in Seq(KeptType) /\ repairs \in SUBSET Op
      /\ acks \in SUBSET Op /\ framed \in [Op -> {NotQueued, Exact, Evicted}] /\ forgone \in SUBSET Op
  <2> HIDE DEF p
  <2> QED BY <1>1, PageFields, OpsPageIs DEF p
<1>3. /\ record[o] = "none" /\ handled[o] = <<>> /\ dedicated[o] = "none"
      /\ o \in repairs => o \in E
  <2>1. record[o] = "none" /\ handled[o] = <<>>
    BY <1>1, OpsPageIs DEF PageSound, HandledRightly
  <2> QED BY <1>1, <2>1, OpsPageIs DEF PageSound, HeldSound
<1>4. /\ z \in PageType /\ z.record = [record EXCEPT ![o] = "accepted"] /\ z.repairs = repairs
      /\ z.terminal = terminal /\ z.dedicated = dedicated /\ z.handled = handled /\ z.acks = acks
      /\ z.framed = framed /\ z.forgone = forgone
  <2>1. z = [p EXCEPT !.record[o] = "accepted"] BY DEF Accepted
  <2> HIDE DEF z, p
  <2> QED BY <1>1, <1>2, <2>1, OpsPageIs DEF PageType, p
<1> HIDE DEF z
<1>5. /\ q \in PageType /\ q.record = [record EXCEPT ![o] = "accepted"]
      /\ q.repairs = repairs \ {o}
      /\ q.dedicated = IF o \in repairs THEN [dedicated EXCEPT ![o] = "connecting"] ELSE dedicated
      /\ q.terminal = terminal /\ q.handled = handled /\ q.acks = acks
      /\ q.framed = framed /\ q.forgone = forgone
  <2>1. CASE o \notin repairs BY <2>1, <1>4
  <2>2. CASE o \in repairs
    <3>1. z.record[o] = "accepted" /\ z.dedicated[o] = "none" BY <1>2, <1>3, <1>4
    <3> DEFINE d == [x \in Op |-> IF x \in {o} \ {} /\ z.record[x] = "accepted" /\ z.dedicated[x] = "none"
                                  THEN "connecting" ELSE z.dedicated[x]]
               r == Waiting(z, {o}) \ {}
               f == z.forgone \cup {}
    <3>2. q = [z EXCEPT !.repairs = r, !.dedicated = d, !.forgone = f]
      BY <2>2 DEF RepairTerminals
    <3>3. /\ d = [dedicated EXCEPT ![o] = "connecting"]
          /\ d \in [Op -> {"none", "connecting", "open", "served", "lost", Exact, Evicted}]
      BY <1>2, <1>4, <3>1
    <3>4. r = repairs \ {o} /\ r \in SUBSET Op BY <1>2, <1>4, <3>1 DEF Waiting, Unknown
    <3>5. f = forgone BY <1>4
    <3> HIDE DEF q, r, d, f
    <3> QED BY <1>2, <2>2, <3>2, <3>3, <3>4, <3>5, <1>4 DEF PageType
  <2> QED BY <2>1, <2>2
<1> HIDE DEF q, p
<1>6. /\ q.record[o] = "accepted" /\ \A x \in Op : x # o => q.record[x] = record[x]
      /\ q.dedicated[o] = IF o \in repairs THEN "connecting" ELSE "none"
      /\ \A x \in Op : x # o => q.dedicated[x] = dedicated[x]
      /\ rc2[o] = "received" /\ \A x \in Op : x # o => rc2[x] = receipt[x]
  BY <1>2, <1>3, <1>5 DEF ReceiptType
<1> HIDE DEF rc2
<1>7. HeldSound(q, E, A)
  <2> SUFFICES ASSUME NEW x \in Op
               PROVE  /\ q.dedicated[x] # "none" => x \in E /\ q.record[x] = "accepted"
                      /\ q.dedicated[x] \in Results => IsResultOf(x, q.dedicated[x], E, A)
                      /\ q.framed[x] # NotQueued => IsResultOf(x, q.framed[x], E, A)
    BY DEF HeldSound
  <2>1. /\ dedicated[x] # "none" => x \in E /\ record[x] = "accepted"
        /\ dedicated[x] \in Results => IsResultOf(x, dedicated[x], E, A)
        /\ framed[x] # NotQueued => IsResultOf(x, framed[x], E, A)
    BY <1>1, OpsPageIs DEF PageSound, HeldSound, p
  <2>2. CASE x = o BY <2>1, <2>2, <1>3, <1>5, <1>6 DEF Results, Exact, Evicted
  <2>3. CASE x # o BY <2>1, <2>3, <1>5, <1>6
  <2> QED BY <2>2, <2>3
<1>8. \A x \in Op : Seen(q, x) <=> Seen(p, x) BY <1>5, OpsPageIs, SeenIs DEF p
<1>9. HandledRightly(q, rc2, E)
  BY <1>1, <1>3, <1>5, <1>6, <1>8, OpsPageIs DEF PageSound, HandledRightly, p
<1>10. AckedRightly(q, E, A)
  BY <1>1, <1>5, OpsPageIs DEF PageSound, AckedRightly, p
<1>11. PageOK(q, rc2, E, A)
  <2>1. q.repairs \subseteq E BY <1>1, <1>5, OpsPageIs DEF PageSound, p
  <2> QED BY <1>1, <1>5, <1>7, <1>9, <1>10, <2>1, OpsPageIs DEF PageOK, PageSound, p
<1>12. \A x \in revised : Lacks(q, rc2, x) => Lacks(p, receipt, x)
  <2> SUFFICES ASSUME NEW x \in revised, Lacks(q, rc2, x) PROVE Lacks(p, receipt, x) OBVIOUS
  <2>1. CASE x = o
    <3>1. o \notin repairs BY <2>1, <1>6 DEF Lacks, HeldByPage
    <3> QED BY <2>1, <3>1, <1>3, <1>5, <1>6, <1>8, OpsPageIs DEF Lacks, Misses, Due, HeldByPage, p
  <2>2. CASE x # o
    BY <2>2, <1>5, <1>6, <1>8, OpsPageIs DEF Lacks, Misses, Due, HeldByPage, p
  <2> QED BY <2>1, <2>2
<1>13. ServedIsFramed(q, revised) BY <1>3, <1>5, <1>6, OpsPageIs DEF ServedIsFramed, p
<1>14. PageKeeps(p, q, receipt, rc2, revised)
  BY <1>5, <1>12, <1>13, OpsPageIs DEF PageKeeps, p
<1> QED BY <1>3, <1>5, <1>6, <1>11, <1>14 DEF q, p, z, rc2

-----------------------------------------------------------------------------
(* The steps of the program.                                                *)

\* The page opens its first stream; nothing was accepted.
LEMMA InitIsSound == OpsInit => IInv
<1> SUFFICES ASSUME OpsInit PROVE IInv OBVIOUS
<1> USE DEF OpsInit
<1>1. Ended = {} /\ Acknowledged = {} BY DEF Ended, Acknowledged
<1>2. JournalOK
  <2>1. opsLeft \in [{"operations", "faults", "restarts", "turns"} -> Nat] BY OperationConstants
  <2>2. ledger \in [Op -> {"none", "queued", "terminal", "acknowledged"}] OBVIOUS
  <2>3. receipt \in ReceiptType BY DEF ReceiptType
  <2>4. process \in Nat \ {0} /\ adopted \in 0 .. process BY DEF NoProcess
  <2> QED BY <1>1, <2>1, <2>2, <2>3, <2>4 DEF JournalOK
<1>3. /\ SourceWith({}) \in SourceType /\ SourceWith({}) # NoSource
      /\ SourceSound(SourceWith({}), Ended, Acknowledged, process)
      /\ UnreadOrOld(SourceWith({}))
  BY FreshSource
<1>4. /\ source["active"] = SourceWith({}) /\ source["candidate"] = NoSource
      /\ source \in [Streaming -> {NoSource} \cup SourceType]
  BY <1>3 DEF Streaming
<1>5. StreamsOK(source, Ended, Acknowledged, process, adopted = process)
  BY <1>3, <1>4 DEF StreamsOK, Streaming, SourceSound, Unread
<1>6. OpsPage \in PageType
  <2>1. <<>> \in Seq(KeptType) /\ <<>> \in Seq(Results) BY EmptySeq
  <2>2. [o \in Op |-> <<>>] \in [Op -> Seq(Results)] BY <2>1
  <2> QED BY <2>1, <2>2 DEF OpsPage, PageType, NotQueued
<1>7. terminal = <<>> /\ Len(<<>>) = 0 /\ DOMAIN <<>> = {} OBVIOUS
<1>8. PageOK(OpsPage, receipt, Ended, Acknowledged)
  BY <1>1, <1>6, <1>7, OpsPageIs, OperationConstants
     DEF PageOK, PageSound, Once, KeptSound, HeldSound, HandledRightly, AckedRightly, Results, Exact, Evicted
<1>9. RequestOK(ackRequest, OpsPage, Acknowledged) BY DEF RequestOK
<1>10. NewEpoch(OpsPage, revised, adopted = process) /\ ServedIsFramed(OpsPage, revised)
  BY DEF NewEpoch, ServedIsFramed
<1>11. Reach(source, OpsPage, receipt, revised) BY <1>4, OpsPageIs DEF Reach
<1> QED BY <1>2, <1>5, <1>8, <1>9, <1>10, <1>11 DEF IInv

\* The variables are set from a record.
LEMMA SetOpsPageIs ==
  ASSUME NEW p \in PageType, SetOpsPage(p)
  PROVE  OpsPage' = p
<1> DEFINE q == OpsPage'
<1>1. q = [record |-> p.record, terminal |-> p.terminal, repairs |-> p.repairs,
           dedicated |-> p.dedicated, framed |-> p.framed, handled |-> p.handled,
           acks |-> p.acks, forgone |-> p.forgone]
  BY DEF SetOpsPage, OpsPage
<1>2. p = [record |-> p.record, terminal |-> p.terminal, repairs |-> p.repairs,
           dedicated |-> p.dedicated, framed |-> p.framed, handled |-> p.handled,
           acks |-> p.acks, forgone |-> p.forgone]
  BY DEF PageType
<1> QED BY <1>1, <1>2

\* A step that leaves the page's variables leaves the record.
LEMMA PageStays == UNCHANGED pageVars => OpsPage' = OpsPage
BY DEF pageVars, OpsPage

\* A step that leaves the journal leaves the sets of its operations.
LEMMA JournalStays ==
  ASSUME UNCHANGED ledger
  PROVE  Ended' = Ended /\ Acknowledged' = Acknowledged
BY DEF Ended, Acknowledged

\* Faults, restarts and turns are spent from a budget.
LEMMA BudgetSpent ==
  ASSUME JournalOK, NEW what \in {"operations", "faults", "restarts", "turns"}, Spend(what)
  PROVE  opsLeft' \in [{"operations", "faults", "restarts", "turns"} -> Nat]
BY DEF JournalOK, Spend

\* One stream steps, and of the page no more than what is forgone.
LEMMA StreamStep ==
  ASSUME IInv, NEW n \in Streaming, source[n] # NoSource,
         source' \in [Streaming -> {NoSource} \cup SourceType],
         \A k \in Streaming \ {n} : source'[k] = source[k],
         StreamKeeps(source[n], source'[n], Ended, Acknowledged, process, revised, forgone'),
         forgone \subseteq forgone', forgone' \subseteq Op,
         UNCHANGED <<journalVars, receipt, serving, adopted, record, terminal, repairs, dedicated,
                     framed, handled, acks, ackRequest>>,
         opsLeft' \in [{"operations", "faults", "restarts", "turns"} -> Nat]
  PROVE  IInv'
<1> USE DEF journalVars
<1> DEFINE p == OpsPage  q == OpsPage'
<1>1. Ended' = Ended /\ Acknowledged' = Acknowledged BY JournalStays
<1>2. JournalOK' BY <1>1 DEF IInv, JournalOK
<1>3. StreamsOK(source', Ended, Acknowledged, process, adopted = process)
  <2>1. source'["candidate"] # source["candidate"] => n = "candidate" BY DEF Streaming
  <2>2. source'["active"] # source["active"] => n = "active" BY DEF Streaming
  <2>3. \A k \in Streaming : SourceSound(source'[k], Ended, Acknowledged, process)
    BY DEF IInv, StreamsOK, StreamKeeps
  <2>4. Unread(source'["candidate"]) BY <2>1 DEF IInv, StreamsOK, StreamKeeps
  <2>5. adopted # process => UnreadOrOld(source'["active"]) BY <2>2 DEF IInv, StreamsOK, StreamKeeps
  <2> QED BY <2>3, <2>4, <2>5 DEF StreamsOK
<1>4. p \in PageType /\ PageOK(p, receipt, Ended, Acknowledged) BY DEF IInv, PageOK, PageSound
<1>5. /\ q \in PageType /\ q.record = p.record /\ q.terminal = p.terminal /\ q.repairs = p.repairs
      /\ q.dedicated = p.dedicated /\ q.framed = p.framed /\ q.handled = p.handled
      /\ q.acks = p.acks /\ q.forgone = forgone' /\ p.forgone = forgone
  BY <1>4 DEF OpsPage, PageType
<1> HIDE DEF p, q
<1>6. PageOK(q, receipt, Ended, Acknowledged)
  BY <1>4, <1>5, SeenIs DEF PageOK, PageSound, HeldSound, HandledRightly, AckedRightly
<1>7. RequestOK(ackRequest, q, Acknowledged) BY <1>5 DEF IInv, RequestOK, p
<1>8. NewEpoch(q, revised, adopted = process) /\ ServedIsFramed(q, revised)
  BY <1>5 DEF IInv, NewEpoch, ServedIsFramed, p
<1>9. Reach(source', q, receipt, revised)
  <2>1. Reach(source, p, receipt, revised) BY DEF IInv, p
  <2>2. \A o \in Op : Lacks(q, receipt, o) => Lacks(p, receipt, o) /\ o \notin forgone'
    BY <1>5, SeenIs DEF Lacks, Misses, Due, HeldByPage
  <2>3. \A k \in Streaming : source'[k] # NoSource <=> source[k] # NoSource
    BY SourceIsNot DEF StreamKeeps
  <2>4. \A k \in Streaming : \A o \in revised \ forgone' :
          Bears(source[k], o, revised) => Bears(source'[k], o, revised)
    BY DEF StreamKeeps
  <2>5. revised \subseteq Op BY DEF IInv, JournalOK, Ended
  <2>6. \A o \in revised : Lacks(q, receipt, o) /\ Bears(source["active"], o, revised)
                            => Bears(source'["active"], o, revised)
    BY <2>2, <2>4, <2>5 DEF Streaming
  <2>7. \A o \in revised \ q.forgone :
          Bears(source["candidate"], o, revised) => Bears(source'["candidate"], o, revised)
    BY <2>4, <1>5 DEF Streaming
  <2>8. source'["active"] # NoSource <=> source["active"] # NoSource BY <2>3 DEF Streaming
  <2>9. source'["candidate"] # NoSource <=> source["candidate"] # NoSource BY <2>3 DEF Streaming
  <2> QED BY <2>1, <2>2, <2>5, <2>6, <2>7, <2>8, <2>9, <1>5 DEF Reach
<1> QED BY <1>1, <1>2, <1>3, <1>6, <1>7, <1>8, <1>9 DEF IInv, q

\* The page steps, by what it has itself.
LEMMA PageAction ==
  ASSUME IInv, NEW q, SetOpsPage(q),
         PageStep(OpsPage, q, receipt, Ended, Acknowledged, revised),
         NewEpoch(q, revised, adopted = process), serving' \in BOOLEAN,
         opsLeft' \in [{"operations", "faults", "restarts", "turns"} -> Nat],
         UNCHANGED <<journalVars, receipt, source, adopted, ackRequest>>
  PROVE  IInv'
<1> USE DEF journalVars
<1>1. Ended' = Ended /\ Acknowledged' = Acknowledged BY JournalStays
<1>2. PageOK(q, receipt, Ended, Acknowledged) /\ PageKeeps(OpsPage, q, receipt, receipt, revised)
  BY DEF PageStep
<1>3. OpsPage' = q BY <1>2, SetOpsPageIs DEF PageOK, PageSound
<1>4. JournalOK' BY <1>1 DEF IInv, JournalOK
<1>5. RequestOK(ackRequest, q, Acknowledged)
  BY <1>2 DEF IInv, RequestOK, PageKeeps, RequestType
<1>6. ServedIsFramed(q, revised) BY <1>2 DEF IInv, PageKeeps
<1>7. Reach(source, q, receipt, revised)
  BY <1>2 DEF IInv, Reach, PageStep, PageKeeps
<1> QED BY <1>1, <1>2, <1>3, <1>4, <1>5, <1>6, <1>7 DEF IInv

\* What the server does for one stream, and the failures of a stream.
LEMMA StreamSteps ==
  ASSUME IInv, NEW n \in Streaming,
         \/ Subscribes(n) \/ WriteReady(n) \/ WriteOther(n) \/ StreamBreaks(n)
         \/ \E o \in Op : WriteReplay(n, o) \/ WriteTerminal(n, o) \/ QueueFull(n, o)
  PROVE  IInv'
<1> DEFINE s == source[n]  t == source'[n]  E == Ended  A == Acknowledged
           Budget == [{"operations", "faults", "restarts", "turns"} -> Nat]
<1>1. s \in {NoSource} \cup SourceType /\ s # NoSource /\ s.link \in {"connecting", "open"}
  BY DEF IInv, StreamsOK, Subscribes, WriteReady, WriteOther, StreamBreaks, WriteReplay, WriteTerminal,
         QueueFull, LinkIs, InUse
<1>2. s \in SourceType /\ s # NoSource /\ SourceSound(s, E, A, process) BY <1>1 DEF IInv, StreamsOK
<1>3. /\ s.unsent \in SUBSET Op /\ s.owed \in SUBSET Op /\ s.ids \in SUBSET Op
      /\ s.unreplayed \in SUBSET Op /\ s.fenced \in BOOLEAN /\ s.wire \in Seq(OpMessageType)
  BY <1>2 DEF SourceType
<1>14. /\ s.unsent \subseteq E /\ s.owed \subseteq E
       /\ s.link = "connecting" => ~s.fenced
  BY <1>2 DEF SourceSound
<1>4. /\ E \subseteq Op /\ revised \subseteq E /\ A \subseteq E /\ opsLeft \in Budget /\ forgone \subseteq Op
      /\ process \in Nat
  BY PageFields, OpsPageIs DEF IInv, JournalOK, Ended, Acknowledged, PageOK, PageSound
<1>5. source \in [Streaming -> {NoSource} \cup SourceType] BY DEF IInv, StreamsOK
<1>6. ASSUME NEW x \in SourceType, source' = [source EXCEPT ![n] = x],
             StreamKeeps(s, x, E, A, process, revised, forgone'),
             forgone \subseteq forgone', forgone' \subseteq Op,
             UNCHANGED <<journalVars, receipt, serving, adopted, record, terminal, repairs, dedicated,
                         framed, handled, acks, ackRequest>>,
             opsLeft' \in Budget
      PROVE  IInv'
  <2>1. source' \in [Streaming -> {NoSource} \cup SourceType] BY <1>5, <1>6
  <2>2. source'[n] = x /\ \A k \in Streaming \ {n} : source'[k] = source[k] BY <1>5, <1>6
  <2> HIDE DEF Budget, E, A
  <2> QED BY <1>2, <1>6, <2>1, <2>2, StreamStep DEF Budget, s, E, A
<1> HIDE DEF E, A, Budget, s
<1>7. CASE Subscribes(n)
  <2> DEFINE x == [s EXCEPT !.link = "open"]
  <2>1. /\ x \in SourceType /\ x.link = "open" /\ x.wire = s.wire /\ x.fenced = s.fenced /\ x.ids = s.ids
        /\ x.unsent = s.unsent /\ x.owed = s.owed /\ x.unreplayed = s.unreplayed
    BY <1>2 DEF SourceType
  <2>2. source' = [source EXCEPT ![n] = x] BY <1>7 DEF Subscribes, s
  <2>3. s.fenced = FALSE BY <1>3, <1>14, <1>7 DEF Subscribes, LinkIs, s
  <2> HIDE DEF x
  <2>4. StreamKeeps(s, x, E, A, process, revised, forgone) BY <1>2, <1>14, <2>1, <2>3, WireStays
  <2>5. UNCHANGED <<journalVars, receipt, serving, adopted, pageVars, ackRequest, opsLeft>>
    BY <1>7 DEF Subscribes
  <2> QED BY <1>4, <1>6, <2>1, <2>2, <2>4, <2>5 DEF pageVars
<1>8. CASE WriteReady(n)
  <2> DEFINE w == s.wire \o <<Ready>>
             x == [[s EXCEPT !.wire = w] EXCEPT !.fenced = TRUE, !.unreplayed = s.ids]
  <2>1. Ready \in OpMessageType /\ Ready.type = "ready" /\ Ready.ops = revised /\ Ready.process = process
    BY <1>4 DEF Ready, OpMessageType
  <2>2. w \in Seq(OpMessageType) BY <1>3, <2>1, OneMore
  <2>3. source' = [source EXCEPT ![n] = x] BY <1>5, <1>8 DEF WriteReady, Write, s
  <2>4. s.link = "open" /\ ~s.fenced BY <1>8 DEF WriteReady, LinkIs, s
  <2> HIDE DEF w
  <2>5. /\ x \in SourceType /\ x.link = "open" /\ x.wire = w /\ x.fenced = TRUE /\ x.ids = s.ids
        /\ x.unsent = s.unsent /\ x.owed = s.owed /\ x.unreplayed = s.ids
    BY <1>2, <1>3, <2>2, <2>4 DEF SourceType
  <2> HIDE DEF x
  <2>6. MessageSound(Ready, E, A, process) BY <1>4, <2>1 DEF MessageSound
  <2>7. \A o \in revised : Brings(Ready, o) BY <2>1 DEF Brings
  <2>8. StreamKeeps(s, x, E, A, process, revised, forgone)
    BY <1>2, <2>1, <2>4, <2>5, <2>6, <2>7, WireGrows DEF w
  <2>9. UNCHANGED <<journalVars, receipt, serving, adopted, pageVars, ackRequest, opsLeft>>
    BY <1>8 DEF WriteReady
  <2> QED BY <1>4, <1>6, <2>3, <2>5, <2>8, <2>9 DEF pageVars
<1>9. CASE WriteOther(n)
  <2> DEFINE m == [type |-> "other", ops |-> s.owed]
             w == s.wire \o <<m>>
             x == [[s EXCEPT !.wire = w] EXCEPT !.owed = {}]
  <2>1. m \in OpMessageType /\ m.type = "other" /\ m.ops = s.owed
    BY <1>3 DEF OpMessageType
  <2>2. source' = [source EXCEPT ![n] = x] BY <1>5, <1>9 DEF WriteOther, Write, s
  <2> HIDE DEF m
  <2>3. w \in Seq(OpMessageType) BY <1>3, <2>1, OneMore
  <2>4. s.link = "open" /\ s.fenced BY <1>9 DEF WriteOther, LinkIs, Live, s
  <2> HIDE DEF w
  <2>5. /\ x \in SourceType /\ x.link = "open" /\ x.wire = w /\ x.fenced = s.fenced /\ x.ids = s.ids
        /\ x.unsent = s.unsent /\ x.owed = {} /\ x.unreplayed = s.unreplayed
    BY <1>2, <1>3, <2>3, <2>4 DEF SourceType
  <2> HIDE DEF x
  <2>6. MessageSound(m, E, A, process) BY <1>14, <2>1 DEF MessageSound
  <2>7. \A o \in s.owed : Brings(m, o) BY <2>1 DEF Brings
  <2>8. StreamKeeps(s, x, E, A, process, revised, forgone)
    BY <1>2, <2>1, <2>4, <2>5, <2>6, <2>7, WireGrows DEF w
  <2>9. UNCHANGED <<journalVars, receipt, serving, adopted, pageVars, ackRequest, opsLeft>>
    BY <1>9 DEF WriteOther
  <2> QED BY <1>4, <1>6, <2>2, <2>5, <2>8, <2>9 DEF pageVars
<1>10. CASE StreamBreaks(n)
  <2> DEFINE x == [s EXCEPT !.link = "lost", !.unsent = {}, !.owed = {}]
  <2>1. /\ x \in SourceType /\ x.link = "lost" /\ x.wire = s.wire /\ x.fenced = s.fenced /\ x.ids = s.ids
        /\ x.unsent = {} /\ x.owed = {} /\ x.unreplayed = s.unreplayed
    BY <1>2 DEF SourceType
  <2>2. source' = [source EXCEPT ![n] = x] BY <1>2, <1>10 DEF StreamBreaks, Cut, LinkIs, s
  <2> HIDE DEF x
  <2>3. StreamKeeps(s, x, E, A, process, revised, forgone) BY <1>2, <2>1, WireStays
  <2>4. UNCHANGED <<journalVars, receipt, serving, adopted, pageVars, ackRequest>> /\ Spend("faults")
    BY <1>10 DEF StreamBreaks
  <2>5. opsLeft' \in Budget BY <2>4, BudgetSpent DEF IInv, Budget
  <2> QED BY <1>4, <1>6, <2>1, <2>2, <2>3, <2>4, <2>5 DEF pageVars
<1>11. ASSUME NEW o \in Op, WriteReplay(n, o) PROVE IInv'
  <2>1. /\ s.link = "open" /\ s.fenced /\ o \in s.unreplayed
        /\ UNCHANGED <<journalVars, receipt, serving, adopted, pageVars, ackRequest, opsLeft>>
    BY <1>11 DEF WriteReplay, LinkIs, s
  <2>2. /\ Replay(o) = {} => o \notin E
        /\ \A body \in Replay(o) : body \in {Exact, Evicted} /\ IsResultOf(o, body, E, A)
    <3>1. CASE ledger[o] = "terminal"
      BY <3>1 DEF Replay, E, A, Ended, Acknowledged, IsResultOf, Exact, Evicted
    <3>2. CASE ledger[o] = "acknowledged"
      BY <3>2 DEF Replay, E, A, Ended, Acknowledged, IsResultOf, Exact, Evicted
    <3>3. CASE ledger[o] \notin {"terminal", "acknowledged"}
      <4>1. Replay(o) = {} BY <3>3 DEF Replay
      <4> QED BY <3>3, <4>1 DEF E, Ended
    <3> QED BY <3>1, <3>2, <3>3
  <2>3. CASE Replay(o) = {}
    <3> DEFINE x == [[s EXCEPT !.wire = s.wire \o <<>>] EXCEPT !.unreplayed = @ \ {o}]
    <3>1. source' = [source EXCEPT ![n] = x] BY <1>5, <1>11, <2>3 DEF WriteReplay, Write, s
    <3>2. s.wire \o <<>> = s.wire BY <1>3, ConcatEmptySeq
    <3>3. /\ x \in SourceType /\ x.link = "open" /\ x.wire = s.wire /\ x.fenced = s.fenced
          /\ x.ids = s.ids /\ x.unsent = s.unsent /\ x.owed = s.owed /\ x.unreplayed = s.unreplayed \ {o}
      BY <1>2, <1>3, <2>1, <3>2 DEF SourceType
    <3> HIDE DEF x
    <3>4. o \notin revised BY <1>4, <2>2, <2>3
    <3>5. StreamKeeps(s, x, E, A, process, revised, forgone)
      BY <1>2, <1>14, <2>1, <3>3, <3>4, WireStays
    <3> QED BY <1>4, <1>6, <2>1, <3>1, <3>3, <3>5 DEF pageVars
  <2>4. CASE Replay(o) # {}
    <3>1. PICK body \in Replay(o) :
            source' = [Write(n, <<Terminal(o, body)>>) EXCEPT ![n].unreplayed = @ \ {o}]
      BY <1>11, <2>4 DEF WriteReplay
    <3> DEFINE m == Terminal(o, body)
               w == s.wire \o <<m>>
               x == [[s EXCEPT !.wire = w] EXCEPT !.unreplayed = @ \ {o}]
    <3>2. m \in OpMessageType /\ m.type = "terminal" /\ m.op = o /\ m.body = body
      BY <2>2 DEF Terminal, OpMessageType
    <3>3. source' = [source EXCEPT ![n] = x] BY <1>5, <3>1 DEF Write, s
    <3> HIDE DEF m
    <3>4. w \in Seq(OpMessageType) BY <1>3, <3>2, OneMore
    <3> HIDE DEF w
    <3>5. /\ x \in SourceType /\ x.link = "open" /\ x.wire = w /\ x.fenced = s.fenced /\ x.ids = s.ids
          /\ x.unsent = s.unsent /\ x.owed = s.owed /\ x.unreplayed = s.unreplayed \ {o}
      BY <1>2, <1>3, <2>1, <3>4 DEF SourceType
    <3> HIDE DEF x
    <3>6. MessageSound(m, E, A, process) BY <2>2, <3>2 DEF MessageSound
    <3>7. Brings(m, o) BY <3>2 DEF Brings
    <3>8. StreamKeeps(s, x, E, A, process, revised, forgone)
      BY <1>2, <2>1, <3>2, <3>5, <3>6, <3>7, WireGrows DEF w
    <3> QED BY <1>4, <1>6, <2>1, <3>3, <3>5, <3>8 DEF pageVars
  <2> QED BY <2>3, <2>4
<1>12. ASSUME NEW o \in Op, WriteTerminal(n, o) PROVE IInv'
  <2> DEFINE m == Terminal(o, Exact)
             w == s.wire \o <<m>>
             x == [[s EXCEPT !.wire = w] EXCEPT !.unsent = @ \ {o}, !.owed = {}]
  <2>1. /\ s.link = "open" /\ s.fenced /\ o \in s.unsent /\ forgone' = forgone \cup s.owed
    BY <1>12 DEF WriteTerminal, LinkIs, Live, s
  <2>2. m \in OpMessageType /\ m.type = "terminal" /\ m.op = o /\ m.body = Exact
    BY DEF Terminal, OpMessageType
  <2>3. source' = [source EXCEPT ![n] = x] BY <1>5, <1>12 DEF WriteTerminal, Write, s
  <2> HIDE DEF m
  <2>4. w \in Seq(OpMessageType) BY <1>3, <2>2, OneMore
  <2> HIDE DEF w
  <2>5. /\ x \in SourceType /\ x.link = "open" /\ x.wire = w /\ x.fenced = s.fenced /\ x.ids = s.ids
        /\ x.unsent = s.unsent \ {o} /\ x.owed = {} /\ x.unreplayed = s.unreplayed
    BY <1>2, <1>3, <2>1, <2>4 DEF SourceType
  <2> HIDE DEF x
  <2>6. MessageSound(m, E, A, process)
    BY <1>14, <2>1, <2>2 DEF MessageSound, IsResultOf, Exact, Evicted
  <2>7. Brings(m, o) BY <2>2 DEF Brings
  <2>8. StreamKeeps(s, x, E, A, process, revised, forgone')
    BY <1>2, <2>1, <2>2, <2>5, <2>6, <2>7, WireGrows DEF w
  <2>9. UNCHANGED <<journalVars, receipt, serving, adopted, record, terminal, repairs, dedicated,
                    framed, handled, acks, ackRequest, opsLeft>>
    BY <1>12 DEF WriteTerminal
  <2> QED BY <1>3, <1>4, <1>6, <2>1, <2>3, <2>5, <2>8, <2>9
<1>13. ASSUME NEW o \in Op, QueueFull(n, o) PROVE IInv'
  <2> DEFINE x == [s EXCEPT !.unsent = @ \ {o}, !.owed = @ \cup {o}]
  <2>1. s.link = "open" /\ o \in s.unsent BY <1>13 DEF QueueFull, LinkIs, s
  <2>2. /\ x \in SourceType /\ x.link = "open" /\ x.wire = s.wire /\ x.fenced = s.fenced /\ x.ids = s.ids
        /\ x.unsent = s.unsent \ {o} /\ x.owed = s.owed \cup {o} /\ x.unreplayed = s.unreplayed
    BY <1>2, <1>3, <2>1 DEF SourceType
  <2>3. source' = [source EXCEPT ![n] = x] BY <1>5, <1>13 DEF QueueFull, s
  <2> HIDE DEF x
  <2>4. StreamKeeps(s, x, E, A, process, revised, forgone) BY <1>2, <1>14, <2>1, <2>2, WireStays
  <2>5. UNCHANGED <<journalVars, receipt, serving, adopted, pageVars, ackRequest>> /\ Spend("faults")
    BY <1>13 DEF QueueFull
  <2>6. opsLeft' \in Budget BY <2>5, BudgetSpent DEF IInv, Budget
  <2> QED BY <1>4, <1>6, <2>2, <2>3, <2>4, <2>5, <2>6 DEF pageVars
<1> QED BY <1>7, <1>8, <1>9, <1>10, <1>11, <1>12, <1>13

\* Streams are closed and opened anew.
Reopened(src, src2) ==
  /\ src2 \in [Streaming -> {NoSource} \cup SourceType]
  /\ \A k \in Streaming : \/ src2[k] = src[k] \/ src2[k] = NoSource
                          \/ \E ids \in SUBSET Op : src2[k] = SourceWith(ids)

\* Fresh streams are sound.
LEMMA ReopenedStreams ==
  ASSUME NEW src, NEW src2, NEW E, NEW A, NEW P, NEW known \in BOOLEAN,
         StreamsOK(src, E, A, P, known), Reopened(src, src2)
  PROVE  StreamsOK(src2, E, A, P, known)
<1>1. ASSUME NEW k \in Streaming
      PROVE  /\ SourceSound(src2[k], E, A, P)
             /\ Unread(src[k]) => Unread(src2[k])
             /\ UnreadOrOld(src[k]) => UnreadOrOld(src2[k])
  <2>1. CASE src2[k] = src[k] BY <2>1 DEF StreamsOK
  <2>2. CASE src2[k] = NoSource BY <2>2 DEF SourceSound, Unread, UnreadOrOld
  <2>3. CASE \E ids \in SUBSET Op : src2[k] = SourceWith(ids) BY <2>3, FreshSource
  <2> QED BY <2>1, <2>2, <2>3 DEF Reopened
<1> QED BY <1>1 DEF StreamsOK, Reopened, Streaming

\* A stream that is fresh bears whatever was published.
LEMMA ReopenedBear ==
  ASSUME NEW src, NEW src2, NEW R, Reopened(src, src2), NEW k \in Streaming, src2[k] # NoSource
  PROVE  src2[k] = src[k] \/ \A o \in R : Bears(src2[k], o, R)
BY FreshSource DEF Reopened

\* A step that opens or closes streams and no more.
LEMMA StreamsReopen ==
  ASSUME IInv, Reopened(source, source'), source'["active"] = NoSource => Pending = {},
         serving' \in BOOLEAN, opsLeft' \in [{"operations", "faults", "restarts", "turns"} -> Nat],
         UNCHANGED <<journalVars, receipt, adopted, pageVars, ackRequest>>
  PROVE  IInv'
<1> USE DEF journalVars
<1>1. Ended' = Ended /\ Acknowledged' = Acknowledged BY JournalStays
<1>2. OpsPage' = OpsPage BY PageStays
<1>3. JournalOK' BY <1>1 DEF IInv, JournalOK
<1>4. StreamsOK(source', Ended, Acknowledged, process, adopted = process)
  BY ReopenedStreams DEF IInv
<1>5. Reach(source', OpsPage, receipt, revised)
  <2>1. "active" \in Streaming /\ "candidate" \in Streaming BY DEF Streaming
  <2>2. Reach(source, OpsPage, receipt, revised) BY DEF IInv
  <2>3. source'["active"] # NoSource =>
          \/ source'["active"] = source["active"]
          \/ \A o \in revised : Bears(source'["active"], o, revised)
    BY <2>1, ReopenedBear
  <2>4. source'["candidate"] # NoSource =>
          \/ source'["candidate"] = source["candidate"]
          \/ \A o \in revised : Bears(source'["candidate"], o, revised)
    BY <2>1, ReopenedBear
  <2>5. (\E o \in Op : OpsPage.record[o] = "accepted") => source'["active"] # NoSource
    BY OpsPageIs DEF Pending
  <2> QED BY <2>2, <2>3, <2>4, <2>5 DEF Reach
<1> QED BY <1>1, <1>2, <1>3, <1>4, <1>5 DEF IInv

\* The demand changes or ends; a stream errs and is opened again.
LEMMA DemandSteps ==
  ASSUME IInv, DemandChanges \/ DemandEnds \/ ActiveErrs \/ CandidateErrs
  PROVE  IInv'
<1> DEFINE Budget == [{"operations", "faults", "restarts", "turns"} -> Nat]
           Sources == {NoSource} \cup SourceType
<1>1. source \in [Streaming -> Sources] /\ serving \in BOOLEAN /\ opsLeft \in Budget
  BY DEF IInv, StreamsOK, JournalOK
<1>2. Pending \in SUBSET Op /\ \A ids \in SUBSET Op : SourceWith(ids) \in SourceType
  BY FreshSource DEF Pending
<1>3. ASSUME NEW k \in Streaming, NEW ids \in SUBSET Op,
             source' = [source EXCEPT ![k] = SourceWith(ids)]
      PROVE  Reopened(source, source') /\ (source'["active"] = NoSource => Pending = {})
  <2>1. SourceWith(ids) \in Sources /\ SourceWith(ids) # NoSource BY FreshSource
  <2>2. source' \in [Streaming -> Sources] BY <1>1, <1>3, <2>1
  <2>3. \A j \in Streaming : source'[j] = source[j] \/ source'[j] = SourceWith(ids) BY <1>1, <1>3
  <2>4. Reopened(source, source') BY <2>2, <2>3 DEF Reopened
  <2>5. source'["active"] = NoSource => source["active"] = NoSource BY <2>1, <2>3 DEF Streaming
  <2>6. source["active"] = NoSource => Pending = {} BY OpsPageIs DEF IInv, Reach, Pending
  <2> QED BY <2>4, <2>5, <2>6
<1> HIDE DEF Budget
<1>4. CASE DemandChanges
  <2>1. /\ Spend("turns") /\ UNCHANGED <<journalVars, receipt, serving, adopted, pageVars, ackRequest>>
        /\ \E k \in Streaming : source' = [source EXCEPT ![k] = SourceWith(Pending)]
    BY <1>4 DEF DemandChanges, Streaming
  <2>2. opsLeft' \in Budget BY <2>1, BudgetSpent DEF IInv, Budget
  <2>3. Reopened(source, source') /\ (source'["active"] = NoSource => Pending = {}) BY <1>2, <1>3, <2>1
  <2> QED BY <1>1, <2>1, <2>2, <2>3, StreamsReopen DEF Budget
<1>5. CASE DemandEnds
  <2>1. /\ Spend("turns") /\ UNCHANGED <<journalVars, receipt, adopted, pageVars, ackRequest>>
        /\ source' = [active |-> NoSource, candidate |-> NoSource] /\ serving' = FALSE /\ Pending = {}
    BY <1>5 DEF DemandEnds, Streams
  <2>2. opsLeft' \in Budget BY <2>1, BudgetSpent DEF IInv, Budget
  <2>3. Reopened(source, source') BY <2>1 DEF Reopened, Streaming
  <2> QED BY <2>1, <2>2, <2>3, StreamsReopen DEF Budget
<1>6. CASE ActiveErrs
  <2>1. /\ UNCHANGED <<journalVars, receipt, adopted, pageVars, ackRequest, opsLeft>> /\ serving' = FALSE
        /\ source["active"] # NoSource
        /\ source' = [source EXCEPT !["active"] = SourceWith(source["active"].ids)]
    BY <1>6 DEF ActiveErrs, StreamErrs, LinkIs, InUse
  <2>2. source["active"].ids \in SUBSET Op /\ "active" \in Streaming
    BY <1>1, <2>1 DEF SourceType, Streaming
  <2>3. Reopened(source, source') /\ (source'["active"] = NoSource => Pending = {})
    BY <1>3, <2>1, <2>2
  <2> QED BY <1>1, <2>1, <2>3, StreamsReopen DEF Budget
<1>7. CASE CandidateErrs
  <2>1. /\ UNCHANGED <<journalVars, receipt, adopted, pageVars, ackRequest, opsLeft>> /\ serving' \in BOOLEAN
        /\ source["candidate"] # NoSource
        /\ \E ids \in {source["candidate"].ids, Pending} :
             source' = [source EXCEPT !["candidate"] = SourceWith(ids)]
    BY <1>1, <1>7 DEF CandidateErrs, StreamErrs, LinkIs, InUse
  <2>2. source["candidate"].ids \in SUBSET Op /\ "candidate" \in Streaming
    BY <1>1, <2>1 DEF SourceType, Streaming
  <2>3. Reopened(source, source') /\ (source'["active"] = NoSource => Pending = {})
    BY <1>2, <1>3, <2>1, <2>2
  <2> QED BY <1>1, <2>1, <2>3, StreamsReopen DEF Budget
<1> QED BY <1>4, <1>5, <1>6, <1>7

\* A step that moves the dedicated stream, the frame's queue or the repair of o alone.
MovedOnly(q, d, f, r) ==
  /\ q \in PageType /\ q.dedicated = d /\ q.framed = f /\ q.repairs = r
  /\ q.record = record /\ q.terminal = terminal /\ q.handled = handled
  /\ q.acks = acks /\ q.forgone = forgone

\* The record of the page after such a step.
LEMMA MovedPage ==
  ASSUME OpsPage \in PageType,
         dedicated' \in [Op -> {"none", "connecting", "open", "served", "lost", Exact, Evicted}],
         framed' \in [Op -> {NotQueued, Exact, Evicted}], repairs' \in SUBSET Op,
         UNCHANGED <<record, terminal, handled, acks, forgone>>
  PROVE  LET q == [OpsPage EXCEPT !.dedicated = dedicated', !.framed = framed', !.repairs = repairs']
         IN  MovedOnly(q, dedicated', framed', repairs') /\ SetOpsPage(q)
<1> DEFINE p == OpsPage
           q == [p EXCEPT !.dedicated = dedicated', !.framed = framed', !.repairs = repairs']
<1>1. /\ p.record = record /\ p.terminal = terminal /\ p.handled = handled /\ p.acks = acks
      /\ p.forgone = forgone /\ p \in PageType
  BY OpsPageIs
<1> HIDE DEF p
<1>2. /\ q \in PageType /\ q.dedicated = dedicated' /\ q.framed = framed' /\ q.repairs = repairs'
      /\ q.record = p.record /\ q.terminal = p.terminal /\ q.handled = p.handled
      /\ q.acks = p.acks /\ q.forgone = p.forgone
  BY <1>1 DEF PageType
<1> HIDE DEF q
<1> QED BY <1>1, <1>2 DEF MovedOnly, SetOpsPage, q, p

\* The dedicated stream connects, breaks, delivers its result, errs.
LEMMA MovingSteps ==
  ASSUME IInv, NEW o \in Op,
         ConnectDedicated(o) \/ DedicatedBreaks(o) \/ ReceiveDedicated(o) \/ DedicatedErrs(o)
  PROVE  IInv'
<1> DEFINE p == OpsPage
           q == [p EXCEPT !.dedicated = dedicated', !.framed = framed', !.repairs = repairs']
           E == Ended  A == Acknowledged
           D == {"none", "connecting", "open", "served", "lost", Exact, Evicted}
           Budget == [{"operations", "faults", "restarts", "turns"} -> Nat]
<1>1. p \in PageType /\ PageOK(p, receipt, E, A) /\ revised \in SUBSET Op /\ revised \subseteq E
  BY DEF IInv, JournalOK, Ended, PageOK, PageSound
<1>2. /\ dedicated \in [Op -> D] /\ framed \in [Op -> {NotQueued, Exact, Evicted}] /\ repairs \in SUBSET Op
  BY <1>1, PageFields, OpsPageIs
<1>3. /\ dedicated[o] # "none" => o \in E /\ record[o] = "accepted"
      /\ dedicated[o] \in Results => IsResultOf(o, dedicated[o], E, A)
      /\ adopted # process => \A x \in revised : dedicated[x] = "none" /\ framed[x] = NotQueued /\ x \notin repairs
  BY <1>1, OpsPageIs DEF PageOK, PageSound, HeldSound, IInv, NewEpoch
<1>4. serving \in BOOLEAN /\ opsLeft \in Budget BY DEF IInv, JournalOK
<1>5. ASSUME MovedOnly(q, dedicated', framed', repairs'), SetOpsPage(q),
             PageStep(p, q, receipt, E, A, revised), opsLeft' \in Budget,
             \A x \in Op : x # o => dedicated'[x] = dedicated[x] /\ framed'[x] = framed[x]
                                    /\ (x \in repairs' <=> x \in repairs),
             dedicated[o] # "none",
             UNCHANGED <<journalVars, receipt, source, serving, adopted, ackRequest>>
      PROVE  IInv'
  <2> HIDE DEF q, p, E, A, Budget
  <2>1. adopted # process => o \notin revised BY <1>3, <1>5
  <2>2. NewEpoch(q, revised, adopted = process)
    BY <1>1, <1>3, <1>5, <2>1 DEF NewEpoch, MovedOnly
  <2> QED BY <1>4, <1>5, <2>2, PageAction DEF p, E, A, Budget
<1> HIDE DEF D, E, A, Budget
<1>6. CASE ConnectDedicated(o)
  <2>1. PICK body \in IF Replay(o) = {} THEN {"open"} ELSE Replay(o) :
          /\ dedicated' = [dedicated EXCEPT ![o] = body] /\ dedicated[o] = "connecting"
          /\ UNCHANGED <<journalVars, receipt, source, serving, adopted, record, terminal, repairs,
                         framed, handled, acks, forgone, ackRequest, opsLeft>>
    BY <1>6 DEF ConnectDedicated
  <2>2. /\ body \in {"open", Exact, Evicted}
        /\ body \in Results => IsResultOf(o, body, E, A)
    <3>1. CASE ledger[o] = "terminal"
      <4>1. Replay(o) = {Exact} BY <3>1 DEF Replay
      <4> QED BY <3>1, <4>1, <2>1 DEF E, Ended, IsResultOf, Exact, Evicted
    <3>2. CASE ledger[o] = "acknowledged"
      <4>1. Replay(o) = {Exact, Evicted} BY <3>2 DEF Replay
      <4> QED BY <3>2, <4>1, <2>1 DEF E, A, Ended, Acknowledged, IsResultOf
    <3>3. CASE ledger[o] \notin {"terminal", "acknowledged"}
      <4>1. Replay(o) = {} BY <3>3 DEF Replay
      <4> QED BY <4>1, <2>1 DEF Results, Exact, Evicted
    <3> QED BY <3>1, <3>2, <3>3
  <2>8. /\ dedicated' = [dedicated EXCEPT ![o] = body] /\ dedicated[o] = "connecting"
        /\ body \in D /\ body \notin {"none", "served"}
    BY <2>1, <2>2 DEF D, Exact, Evicted
  <2>3. /\ dedicated' \in [Op -> D] /\ dedicated'[o] = body
        /\ \A x \in Op : x # o => dedicated'[x] = dedicated[x]
    <3> HIDE DEF D
    <3> QED BY <1>2, <2>8 DEF D
  <2>4. MovedOnly(q, dedicated', framed', repairs') /\ SetOpsPage(q)
    BY <1>1, <1>2, <2>1, <2>3, MovedPage DEF D
  <2> HIDE DEF q, p
  <2>5. \A x \in Op : /\ q.dedicated[x] = "none" <=> p.dedicated[x] = "none"
                      /\ q.dedicated[x] = "served" => p.dedicated[x] = "served"
                      /\ q.dedicated[x] \in Results => IsResultOf(x, q.dedicated[x], E, A)
    <3> SUFFICES ASSUME NEW x \in Op
                 PROVE  /\ q.dedicated[x] = "none" <=> p.dedicated[x] = "none"
                        /\ q.dedicated[x] = "served" => p.dedicated[x] = "served"
                        /\ q.dedicated[x] \in Results => IsResultOf(x, q.dedicated[x], E, A)
      OBVIOUS
    <3>1. CASE x = o
      <4>1. q.dedicated[o] = body /\ p.dedicated[o] = "connecting" BY <2>3, <2>4, <2>8, OpsPageIs DEF MovedOnly, p
      <4>2. body \in Results => IsResultOf(o, body, E, A) BY <2>2
      <4> QED BY <3>1, <4>1, <4>2, <2>8
    <3>2. CASE x # o
      BY <3>2, <1>1, <2>3, <2>4, OpsPageIs DEF MovedOnly, p, PageOK, PageSound, HeldSound
    <3> QED BY <3>1, <3>2
  <2>6. /\ q.record = p.record /\ q.terminal = p.terminal /\ q.framed = p.framed /\ q.repairs = p.repairs
        /\ q.handled = p.handled /\ q.acks = p.acks /\ q.forgone = p.forgone /\ q \in PageType
    BY <2>1, <2>4, OpsPageIs DEF MovedOnly, p
  <2>7. PageStep(p, q, receipt, E, A, revised) BY <1>1, <2>5, <2>6, Redirecting
  <2> QED BY <1>4, <1>5, <2>1, <2>3, <2>4, <2>7
<1>7. CASE DedicatedBreaks(o)
  <2>1. /\ dedicated' = [dedicated EXCEPT ![o] = "lost"] /\ dedicated[o] # "none"
        /\ UNCHANGED <<journalVars, receipt, source, serving, adopted, record, terminal, repairs,
                       framed, handled, acks, forgone, ackRequest>>
        /\ Spend("faults")
    BY <1>7 DEF DedicatedBreaks
  <2>2. opsLeft' \in Budget BY <2>1, BudgetSpent DEF IInv, Budget
  <2>3. /\ dedicated' \in [Op -> D] /\ dedicated'[o] = "lost"
        /\ \A x \in Op : x # o => dedicated'[x] = dedicated[x]
    BY <1>2, <2>1 DEF D
  <2>4. MovedOnly(q, dedicated', framed', repairs') /\ SetOpsPage(q)
    BY <1>1, <1>2, <2>1, <2>3, MovedPage DEF D
  <2> HIDE DEF q, p
  <2>5. \A x \in Op : /\ q.dedicated[x] = "none" <=> p.dedicated[x] = "none"
                      /\ q.dedicated[x] = "served" => p.dedicated[x] = "served"
                      /\ q.dedicated[x] \in Results => IsResultOf(x, q.dedicated[x], E, A)
    BY <1>1, <2>1, <2>3, <2>4, OpsPageIs
       DEF MovedOnly, p, PageOK, PageSound, HeldSound, Results, Exact, Evicted
  <2>6. /\ q.record = p.record /\ q.terminal = p.terminal /\ q.framed = p.framed /\ q.repairs = p.repairs
        /\ q.handled = p.handled /\ q.acks = p.acks /\ q.forgone = p.forgone /\ q \in PageType
    BY <2>1, <2>4, OpsPageIs DEF MovedOnly, p
  <2>7. PageStep(p, q, receipt, E, A, revised) BY <1>1, <2>5, <2>6, Redirecting
  <2> QED BY <1>5, <2>1, <2>2, <2>3, <2>4, <2>7
<1>8. CASE ReceiveDedicated(o)
  <2>1. /\ dedicated' = [dedicated EXCEPT ![o] = "served"] /\ framed' = [framed EXCEPT ![o] = dedicated[o]]
        /\ dedicated[o] \in {Exact, Evicted}
        /\ UNCHANGED <<journalVars, receipt, source, serving, adopted, record, terminal, repairs,
                       handled, acks, forgone, ackRequest, opsLeft>>
    BY <1>8 DEF ReceiveDedicated
  <2>2. /\ dedicated' \in [Op -> D] /\ dedicated'[o] = "served"
        /\ framed' \in [Op -> {NotQueued, Exact, Evicted}] /\ framed'[o] = dedicated[o]
        /\ \A x \in Op : x # o => dedicated'[x] = dedicated[x] /\ framed'[x] = framed[x]
        /\ dedicated[o] \notin {"none", NotQueued}
    BY <1>2, <2>1 DEF D, Exact, Evicted, NotQueued
  <2>3. MovedOnly(q, dedicated', framed', repairs') /\ SetOpsPage(q)
    BY <1>1, <1>2, <2>1, <2>2, MovedPage DEF D
  <2> HIDE DEF q, p
  <2>4. /\ q.record = p.record /\ q.terminal = p.terminal
        /\ q.handled = p.handled /\ q.acks = p.acks /\ q.forgone = p.forgone /\ q \in PageType
        /\ q.dedicated = dedicated' /\ q.framed = framed' /\ q.repairs = repairs
        /\ p.dedicated = dedicated /\ p.framed = framed /\ p.repairs = repairs
    BY <2>1, <2>3, OpsPageIs DEF MovedOnly, p
  <2>5. o \in q.repairs => o \in E BY <1>1, <2>4 DEF PageOK, PageSound
  <2>6. IsResultOf(o, q.framed[o], E, A) BY <1>3, <2>1, <2>2, <2>4 DEF Results
  <2>7. HeldByPage(q, o) BY <2>2, <2>4 DEF HeldByPage
  <2>8. PageStep(p, q, receipt, E, A, revised) BY <1>1, <2>2, <2>4, <2>5, <2>6, <2>7, Moving
  <2> QED BY <1>4, <1>5, <2>1, <2>2, <2>3, <2>8
<1>9. CASE DedicatedErrs(o)
  <2>1. /\ dedicated' = [dedicated EXCEPT ![o] = "none"] /\ repairs' = repairs \cup {o}
        /\ dedicated[o] = "lost"
        /\ UNCHANGED <<journalVars, receipt, source, serving, adopted, record, terminal, framed,
                       handled, acks, forgone, ackRequest, opsLeft>>
    BY <1>9 DEF DedicatedErrs
  <2>2. /\ dedicated' \in [Op -> D] /\ dedicated'[o] = "none" /\ repairs' \in SUBSET Op /\ o \in repairs'
        /\ \A x \in Op : x # o => dedicated'[x] = dedicated[x] /\ (x \in repairs' <=> x \in repairs)
    BY <1>2, <2>1 DEF D
  <2>3. MovedOnly(q, dedicated', framed', repairs') /\ SetOpsPage(q)
    BY <1>1, <1>2, <2>1, <2>2, MovedPage DEF D
  <2> HIDE DEF q, p
  <2>4. /\ q.record = p.record /\ q.terminal = p.terminal
        /\ q.handled = p.handled /\ q.acks = p.acks /\ q.forgone = p.forgone /\ q \in PageType
        /\ q.dedicated = dedicated' /\ q.framed = framed /\ q.repairs = repairs'
        /\ p.dedicated = dedicated /\ p.framed = framed /\ p.repairs = repairs
    BY <2>1, <2>3, OpsPageIs DEF MovedOnly, p
  <2>5. o \in E BY <1>3, <2>1
  <2>6. q.framed[o] # NotQueued => IsResultOf(o, q.framed[o], E, A)
    BY <1>1, <2>4 DEF PageOK, PageSound, HeldSound
  <2>7. HeldByPage(q, o) BY <2>2, <2>4 DEF HeldByPage
  <2>8. PageStep(p, q, receipt, E, A, revised) BY <1>1, <2>2, <2>4, <2>5, <2>6, <2>7, Moving
  <2> QED BY <1>4, <1>5, <2>1, <2>2, <2>3, <2>8
<1> QED BY <1>6, <1>7, <1>8, <1>9

\* flushQueuedClientPushEvents.
LEMMA FlushStep ==
  ASSUME IInv, NEW o \in Op, ApplyFramed(o)
  PROVE  IInv'
<1> DEFINE p == OpsPage  b == framed[o]
           a == ApplyApiOperationTerminal(p, o, b)
           q == [a EXCEPT !.framed[o] = NotQueued]
<1>1. p \in PageType /\ PageOK(p, receipt, Ended, Acknowledged) /\ revised \in SUBSET Op
  BY DEF IInv, JournalOK, Ended, PageOK, PageSound
<1>2. b \in Results /\ p.framed[o] = b
  <2>1. framed \in [Op -> {NotQueued, Exact, Evicted}] BY <1>1, PageFields, OpsPageIs
  <2> QED BY <2>1, OpsPageIs DEF ApplyFramed, Results
<1>3. /\ SetOpsPage(q)
      /\ UNCHANGED <<journalVars, receipt, source, serving, adopted, ackRequest, opsLeft>>
  BY DEF ApplyFramed
<1>4. serving \in BOOLEAN /\ opsLeft \in [{"operations", "faults", "restarts", "turns"} -> Nat]
  BY DEF IInv, JournalOK
<1> HIDE DEF p, b
<1>5. /\ PageStep(p, q, receipt, Ended, Acknowledged, revised)
      /\ \A x \in Op : /\ q.dedicated[x] \in {p.dedicated[x], "none"} /\ q.repairs = p.repairs
                       /\ q.framed[x] \in {p.framed[x], NotQueued}
  BY <1>1, <1>2, Flushing
<1> HIDE DEF q
<1>6. NewEpoch(q, revised, adopted = process)
  <2>1. NewEpoch(p, revised, adopted = process) BY DEF IInv, p
  <2> QED BY <1>1, <1>5, <2>1 DEF NewEpoch
<1> QED BY <1>3, <1>4, <1>5, <1>6, PageAction DEF p

\* ping: after it nothing of a process that the page does not know is asked for.
LEMMA PingStep ==
  ASSUME IInv, Ping
  PROVE  IInv'
<1>1. /\ PageOK(OpsPage, receipt, Ended, Acknowledged) /\ revised \in SUBSET Op
      /\ ServedIsFramed(OpsPage, revised) /\ OpsPage \in PageType
  BY DEF IInv, JournalOK, Ended, PageOK, PageSound
<1>2. repairs \in SUBSET Op /\ repairs \subseteq Ended /\ Retried \in SUBSET Op
  <2>1. repairs \subseteq Ended BY <1>1, OpsPageIs DEF PageOK, PageSound
  <2> QED BY <2>1 DEF Retried, Ended
<1>3. PICK e \in Evictions(OpsPage, repairs, Retried) : SetOpsPage(RepairTerminals(OpsPage, repairs, e))
  BY DEF Ping
<1>4. e \in SUBSET Op BY <1>1, <1>2, EvictionsAre
<1> DEFINE q == RepairTerminals(OpsPage, repairs, e)
<1>5. PageStep(OpsPage, q, receipt, Ended, Acknowledged, revised) BY <1>1, <1>2, <1>4, Repairing
<1>6. SetOpsPage(q) /\ serving' = TRUE /\ UNCHANGED <<journalVars, receipt, source, adopted, ackRequest, opsLeft>>
  BY <1>3 DEF Ping
<1>7. adopted = process
  <2>1. source["active"] # NoSource /\ source["active"].link = "open" /\ source["active"].fenced
        /\ source["active"].wire = <<>>
    BY DEF Ping, LinkIs, InUse, Live
  <2> QED BY <2>1 DEF IInv, StreamsOK, UnreadOrOld, FirstReady
<1> HIDE DEF q
<1>8. NewEpoch(q, revised, adopted = process) BY <1>7 DEF NewEpoch
<1>9. opsLeft \in [{"operations", "faults", "restarts", "turns"} -> Nat] BY DEF IInv, JournalOK
<1> QED BY <1>5, <1>6, <1>8, <1>9, PageAction

\* A frame m is handled, of a stream s that is then the active one, less m.
LEMMA FrameStep ==
  ASSUME IInv, NEW n \in Streaming, source[n] # NoSource, source[n].wire # <<>>,
         NEW m, m = Head(source[n].wire),
         n = "candidate" => m.type = "ready", adopted # process => m.type = "ready",
         NEW e \in SUBSET Op, SetOpsPage(HandleFrame(m, e)), serving' = TRUE, adopted' = IF m.type = "ready" THEN m.process ELSE adopted,
         source' = IF n = "active" THEN [source EXCEPT !["active"] = Consumed(source["active"])]
                   ELSE [active |-> Consumed(source["candidate"]), candidate |-> NoSource],
         UNCHANGED <<journalVars, receipt, ackRequest, opsLeft>>
  PROVE  IInv'
<1> DEFINE q == HandleFrame(m, e)  s == source[n]  t == Consumed(s)  E == Ended  A == Acknowledged
<1> USE DEF journalVars
<1>1. s \in SourceType /\ SourceSound(s, E, A, process) BY DEF IInv, StreamsOK
<1>2. /\ t \in SourceType /\ t # NoSource /\ SourceSound(t, E, A, process)
      /\ m \in OpMessageType /\ MessageSound(m, E, A, process)
      /\ \A o \in revised : Bears(s, o, revised) => Brings(m, o) \/ Bears(t, o, revised)
  <2> HIDE DEF s, t, E, A
  <2>1. s.wire # <<>> /\ m = Head(s.wire) BY DEF s
  <2> QED BY <1>1, <2>1, Consuming DEF t
<1>3. /\ PageOK(OpsPage, receipt, E, A) /\ revised \subseteq Op /\ ServedIsFramed(OpsPage, revised)
      /\ NewEpoch(OpsPage, revised, adopted = process) /\ E \subseteq Op
  BY DEF IInv, JournalOK, Ended
<1> HIDE DEF q, s, t, E, A
<1>4. /\ PageStep(OpsPage, q, receipt, E, A, revised)
      /\ \A o \in revised : Brings(m, o) => ~Lacks(q, receipt, o)
  BY <1>2, <1>3, Framing DEF q
<1>5. PageOK(q, receipt, E, A) /\ PageKeeps(OpsPage, q, receipt, receipt, revised)
  BY <1>4 DEF PageStep
<1>6. OpsPage' = q BY <1>5, SetOpsPageIs DEF PageOK, PageSound, q
<1>7. adopted' \in {adopted, process} /\ (adopted # process => adopted' = process) /\ process' = process
  BY <1>2 DEF MessageSound
<1>8. Ended' = E /\ Acknowledged' = A BY JournalStays DEF E, A
<1>9. JournalOK' BY <1>7, <1>8 DEF IInv, JournalOK, E
<1>10. adopted' = process BY <1>7
<1>11. source' \in [Streaming -> {NoSource} \cup SourceType]
       /\ source'["active"] = t
       /\ source'["candidate"] = IF n = "active" THEN source["candidate"] ELSE NoSource
  BY <1>2 DEF IInv, StreamsOK, Streaming, s, t
<1>12. StreamsOK(source', E, A, process, adopted' = process')
  BY <1>2, <1>7, <1>10, <1>11 DEF IInv, StreamsOK, Streaming, SourceSound, Unread, E, A
<1>13. RequestOK(ackRequest, q, A)
  BY <1>5 DEF IInv, RequestOK, PageKeeps, RequestType, A
<1>14. NewEpoch(q, revised, adopted' = process') BY <1>7, <1>10 DEF NewEpoch
<1>15. ServedIsFramed(q, revised) BY <1>3, <1>5 DEF PageKeeps
<1>16. Reach(source', q, receipt, revised)
  <2>1. Reach(source, OpsPage, receipt, revised) BY DEF IInv
  <2>2. \A o \in revised : Lacks(q, receipt, o) => Lacks(OpsPage, receipt, o) BY <1>5 DEF PageKeeps
  <2>3. \A o \in revised : Lacks(q, receipt, o) => Bears(s, o, revised)
    <3>1. CASE n = "active" BY <3>1, <2>1, <2>2 DEF Reach, s
    <3>2. CASE n # "active"
      <4>1. n = "candidate" BY <3>2 DEF Streaming
      <4>2. \A o \in Op : Lacks(q, receipt, o) => o \notin q.forgone BY DEF Lacks, Misses
      <4>3. OpsPage.forgone \subseteq q.forgone BY <1>5 DEF PageKeeps
      <4> QED BY <4>1, <4>2, <4>3, <2>1, <1>3 DEF Reach, s
    <3> QED BY <3>1, <3>2
  <2>4. \A o \in revised : Lacks(q, receipt, o) => Bears(t, o, revised) BY <1>2, <1>4, <2>3
  <2>5. OpsPage.forgone \subseteq q.forgone BY <1>5 DEF PageKeeps
  <2> QED BY <1>2, <1>11, <2>1, <2>4, <2>5 DEF Reach
<1>17. receipt' = receipt /\ ackRequest' = ackRequest /\ revised' = revised OBVIOUS
<1> QED
  <2>1. StreamsOK(source, Ended, Acknowledged, process, adopted = process)' BY <1>8, <1>12
  <2>2. PageOK(OpsPage, receipt, Ended, Acknowledged)' BY <1>5, <1>6, <1>8, <1>17
  <2>3. RequestOK(ackRequest, OpsPage, Acknowledged)' BY <1>6, <1>8, <1>13, <1>17
  <2>4. NewEpoch(OpsPage, revised, adopted = process)' BY <1>6, <1>14, <1>17
  <2>5. ServedIsFramed(OpsPage, revised)' BY <1>6, <1>15, <1>17
  <2>6. Reach(source, OpsPage, receipt, revised)' BY <1>6, <1>16, <1>17
  <2> QED BY <1>9, <2>1, <2>2, <2>3, <2>4, <2>5, <2>6 DEF IInv

\* A frame of the active stream; the first frame of the candidate.
LEMMA FrameSteps ==
  ASSUME IInv, ReceiveFrame \/ Promote
  PROVE  IInv'
<1>0. ASSUME NEW n \in Streaming, source[n] # NoSource, source[n].wire # <<>>,
             NEW e \in Evicting(Head(source[n].wire))
      PROVE  e \in SUBSET Op
  <2> DEFINE m == Head(source[n].wire)  ops == IF m.type = "terminal" THEN {} ELSE m.ops
  <2>1. source[n] \in SourceType BY <1>0 DEF IInv, StreamsOK
  <2>2. m \in OpMessageType BY <1>0, <2>1, HeadTailProperties DEF SourceType
  <2>3. ops \in SUBSET Op BY <2>2 DEF OpMessageType
  <2>4. OpsPage \in PageType BY DEF IInv, PageOK, PageSound
  <2>5. e \in Evictions(OpsPage, ops, {}) BY <1>0 DEF Evicting
  <2> HIDE DEF ops
  <2> QED BY <2>3, <2>4, <2>5, EvictionsAre
<1>1. CASE ReceiveFrame
  <2> DEFINE m == Head(source["active"].wire)
  <2>1. /\ source["active"] # NoSource /\ source["active"].wire # <<>> /\ "active" \in Streaming
        /\ \E e \in Evicting(m) : SetOpsPage(HandleFrame(m, e))
        /\ adopted' = IF m.type = "ready" THEN m.process ELSE adopted
        /\ source' = [source EXCEPT !["active"] = Consumed(source["active"])]
        /\ serving' = TRUE /\ UNCHANGED <<journalVars, receipt, ackRequest, opsLeft>>
    BY <1>1 DEF ReceiveFrame, InUse, Streaming
  <2>2. adopted # process => m.type = "ready"
    BY <2>1 DEF IInv, StreamsOK, UnreadOrOld, FirstReady
  <2>3. PICK e \in Evicting(m) : SetOpsPage(HandleFrame(m, e)) BY <2>1
  <2>4. e \in SUBSET Op BY <1>0, <2>1
  <2> HIDE DEF m
  <2> QED BY <2>1, <2>2, <2>3, <2>4, FrameStep DEF m
<1>2. CASE Promote
  <2> DEFINE m == Head(source["candidate"].wire)
  <2>1. /\ source["candidate"] # NoSource /\ source["candidate"].wire # <<>> /\ "candidate" \in Streaming
        /\ \E e \in Evicting(m) : SetOpsPage(HandleFrame(m, e))
        /\ adopted' = m.process
        /\ source' = [active |-> Consumed(source["candidate"]), candidate |-> NoSource]
        /\ serving' = TRUE /\ UNCHANGED <<journalVars, receipt, ackRequest, opsLeft>>
    BY <1>2 DEF Promote, InUse, Streaming, Streams
  <2>2. m.type = "ready"
    BY <2>1 DEF IInv, StreamsOK, Unread, FirstReady, SourceSound
  <2>3. PICK e \in Evicting(m) : SetOpsPage(HandleFrame(m, e)) BY <2>1
  <2>4. e \in SUBSET Op BY <1>0, <2>1
  <2> HIDE DEF m
  <2> QED BY <2>1, <2>2, <2>3, <2>4, FrameStep DEF m
<1> QED BY <1>1, <1>2

\* registerApiOperationReceipt, in both of its branches.
LEMMA RegisterStep ==
  ASSUME IInv, NEW o \in Op, RegisterApiOperationReceipt(o)
  PROVE  IInv'
<1> DEFINE rc2 == [receipt EXCEPT ![o] = "received"]  E == Ended  A == Acknowledged
<1> USE DEF journalVars
<1>1. /\ PageOK(OpsPage, receipt, E, A) /\ revised \subseteq Op /\ receipt \in ReceiptType
      /\ ServedIsFramed(OpsPage, revised) /\ NewEpoch(OpsPage, revised, adopted = process)
      /\ source \in [Streaming -> {NoSource} \cup SourceType]
  BY DEF IInv, JournalOK, Ended, StreamsOK
<1>2. /\ receipt[o] = "sent" /\ receipt' = rc2
      /\ UNCHANGED <<journalVars, serving, adopted, ackRequest, opsLeft>>
  BY DEF RegisterApiOperationReceipt
<1>3. Ended' = E /\ Acknowledged' = A BY <1>2, JournalStays
<1>4. rc2 \in ReceiptType BY <1>1 DEF ReceiptType
<1>5. JournalOK' BY <1>2, <1>3, <1>4 DEF IInv, JournalOK
<1> HIDE DEF E, A, rc2
<1>6. ASSUME NEW q, SetOpsPage(q), PageOK(q, rc2, E, A), PageKeeps(OpsPage, q, receipt, rc2, revised),
             NewEpoch(q, revised, adopted = process), Reopened(source, source'),
             (\E x \in Op : q.record[x] = "accepted") => source'["active"] # NoSource
      PROVE  IInv'
  <2>1. OpsPage' = q BY <1>6, SetOpsPageIs DEF PageOK, PageSound
  <2>2. RequestOK(ackRequest, q, A)
    BY <1>6 DEF IInv, RequestOK, PageKeeps, RequestType, A
  <2>3. ServedIsFramed(q, revised) BY <1>1, <1>6 DEF PageKeeps
  <2>4. StreamsOK(source', E, A, process, adopted = process) BY <1>6, ReopenedStreams DEF IInv, E, A
  <2>5. Reach(source', q, rc2, revised)
    <3>1. "active" \in Streaming /\ "candidate" \in Streaming BY DEF Streaming
    <3>2. Reach(source, OpsPage, receipt, revised) BY DEF IInv
    <3>3. source'["active"] # NoSource =>
            \/ source'["active"] = source["active"]
            \/ \A x \in revised : Bears(source'["active"], x, revised)
      BY <1>6, <3>1, ReopenedBear
    <3>4. source'["candidate"] # NoSource =>
            \/ source'["candidate"] = source["candidate"]
            \/ \A x \in revised : Bears(source'["candidate"], x, revised)
      BY <1>6, <3>1, ReopenedBear
    <3>5. /\ \A x \in revised : Lacks(q, rc2, x) => Lacks(OpsPage, receipt, x)
          /\ OpsPage.forgone \subseteq q.forgone
      BY <1>6 DEF PageKeeps
    <3> QED BY <1>6, <3>2, <3>3, <3>4, <3>5 DEF Reach
  <2> QED BY <1>2, <1>3, <1>5, <2>1, <2>2, <2>3, <2>4, <2>5, <1>6 DEF IInv
<1>7. ASSUME NEW i \in DOMAIN terminal, terminal[i].op = o, SetOpsPage(KeptRegistered(o, i)), UNCHANGED source
      PROVE  IInv'
  <2> DEFINE q == KeptRegistered(o, i)
  <2>1. /\ PageOK(q, rc2, E, A) /\ PageKeeps(OpsPage, q, receipt, rc2, revised)
        /\ \A x \in Op : q.record[x] = "accepted" => record[x] = "accepted"
        /\ \A x \in Op : q.dedicated[x] \in {dedicated[x], "none"}
        /\ q.framed = framed /\ q.repairs \subseteq repairs
    BY <1>1, <1>2, <1>7, RegisteringKept DEF rc2
  <2> HIDE DEF q
  <2>2. NewEpoch(q, revised, adopted = process) BY <1>1, <2>1, OpsPageIs DEF NewEpoch
  <2>3. Reopened(source, source') BY <1>1, <1>7 DEF Reopened
  <2>4. (\E x \in Op : q.record[x] = "accepted") => source'["active"] # NoSource
    BY <1>7, <2>1, OpsPageIs DEF IInv, Reach
  <2> QED BY <1>6, <1>7, <2>1, <2>2, <2>3, <2>4 DEF q
<1>8. ASSUME ~Seen(OpsPage, o), StartApiOperationTransport(o),
             SetOpsPage(IF o \in repairs THEN RepairTerminals(Accepted(o), {o}, {}) ELSE Accepted(o))
      PROVE  IInv'
  <2> DEFINE q == IF o \in repairs THEN RepairTerminals(Accepted(o), {o}, {}) ELSE Accepted(o)
  <2>1. /\ PageOK(q, rc2, E, A) /\ PageKeeps(OpsPage, q, receipt, rc2, revised)
        /\ \A x \in Op : q.dedicated[x] # dedicated[x] => x \in repairs
        /\ q.framed = framed /\ q.repairs \subseteq repairs
    BY <1>1, <1>2, <1>8, RegisteringAccepted DEF rc2
  <2>2. SetOpsPage(q) BY <1>8
  <2> HIDE DEF q
  <2>3. NewEpoch(q, revised, adopted = process) BY <1>1, <2>1, OpsPageIs DEF NewEpoch
  <2> DEFINE f == SourceWith(Pending \cup {o})
  <2>4. f \in SourceType /\ f # NoSource /\ Pending \cup {o} \in SUBSET Op
    BY FreshSource DEF Pending
  <2>5. \/ source' = [active |-> f, candidate |-> NoSource]
        \/ source' = source /\ source["active"] # NoSource
    BY <1>8 DEF StartApiOperationTransport, Streams, InUse
  <2>6. Reopened(source, source') /\ source'["active"] # NoSource
    BY <1>1, <2>4, <2>5 DEF Reopened, Streaming
  <2> QED BY <1>6, <2>1, <2>2, <2>3, <2>6
<1> QED BY <1>7, <1>8 DEF RegisterApiOperationReceipt, KeptRegistered

\* accept_operation: journalled and the receipt sent.
LEMMA AcceptStep ==
  ASSUME IInv, NEW o \in Op, AcceptOperation(o)
  PROVE  IInv'
<1> DEFINE p == OpsPage  E == Ended  A == Acknowledged  L == {"none", "queued", "terminal", "acknowledged"}
<1>1. /\ ledger' = [ledger EXCEPT ![o] = "queued"] /\ ledger[o] = "none"
      /\ receipt' = [receipt EXCEPT ![o] = "sent"] /\ Spend("operations")
      /\ UNCHANGED <<process, revised, source, serving, adopted, pageVars, ackRequest>>
  BY DEF AcceptOperation
<1>2. /\ ledger \in [Op -> L] /\ receipt \in ReceiptType /\ receipt[o] = "none"
      /\ revised \subseteq Op /\ \A x \in Op : ledger[x] = "none" => receipt[x] = "none"
  BY <1>1 DEF IInv, JournalOK, Ended
<1>3. Ended' = E /\ Acknowledged' = A BY <1>1, <1>2 DEF Ended, Acknowledged
<1>4. p' = p BY <1>1, PageStays
<1>5. opsLeft' \in [{"operations", "faults", "restarts", "turns"} -> Nat] BY <1>1, BudgetSpent DEF IInv
<1>6. JournalOK'
  <2>1. ledger' \in [Op -> L] /\ receipt' \in ReceiptType BY <1>1, <1>2 DEF ReceiptType
  <2>2. \A x \in Op : ledger'[x] = "none" => receipt'[x] = "none" BY <1>1, <1>2 DEF ReceiptType
  <2> QED BY <1>1, <1>3, <1>5, <2>1, <2>2 DEF IInv, JournalOK
<1> HIDE DEF p, E, A
<1>7. /\ PageOK(p, receipt', E, A)
      /\ \A x \in Op : Lacks(p, receipt', x) <=> Lacks(p, receipt, x)
  <2>1. \A x \in Op : (receipt[x] = "received") <=> (receipt'[x] = "received")
    BY <1>1, <1>2 DEF ReceiptType
  <2>2. PageOK(p, receipt, E, A) BY DEF IInv, p, E, A
  <2> QED BY <2>1, <2>2, PageOfReceipts
<1>8. Reach(source, p, receipt', revised)
  BY <1>2, <1>7 DEF IInv, Reach, p
<1> QED BY <1>1, <1>3, <1>4, <1>6, <1>7, <1>8 DEF IInv, p, E, A

\* terminalize_operation: whatever stream there is bears the new result from then on.
LEMMA TerminalizeStep ==
  ASSUME IInv, NEW o \in Op, TerminalizeOperation(o)
  PROVE  IInv'
<1> DEFINE p == OpsPage  E == Ended  A == Acknowledged  L == {"none", "queued", "terminal", "acknowledged"}
           R == revised
<1>1. /\ ledger' = [ledger EXCEPT ![o] = "terminal"] /\ ledger[o] = "queued"
      /\ revised' = R \cup {o}
      /\ source' = [n \in DOMAIN source |->
                      IF LinkIs(n, "open") THEN [source[n] EXCEPT !.unsent = @ \cup {o}] ELSE source[n]]
      /\ dedicated' = [dedicated EXCEPT ![o] = IF @ = "open" THEN Exact ELSE @]
      /\ UNCHANGED <<process, receipt, serving, adopted, record, terminal, repairs, framed,
                     handled, acks, forgone, ackRequest, opsLeft>>
  BY DEF TerminalizeOperation
<1>2. /\ ledger \in [Op -> L] /\ R \subseteq E /\ E \subseteq Op /\ A \subseteq E
      /\ source \in [Streaming -> {NoSource} \cup SourceType]
      /\ PageOK(p, receipt, E, A) /\ p \in PageType
  BY DEF IInv, JournalOK, Ended, Acknowledged, StreamsOK, PageOK, PageSound
<1>3. Ended' = E \cup {o} /\ Acknowledged' = A /\ o \notin E
  BY <1>1, <1>2 DEF Ended, Acknowledged
<1>4. dedicated \in [Op -> {"none", "connecting", "open", "served", "lost", Exact, Evicted}]
  BY <1>2, PageFields, OpsPageIs
<1>5. dedicated[o] = "none" /\ framed[o] = NotQueued /\ o \notin repairs
  BY <1>2, <1>3, OpsPageIs DEF PageOK, PageSound, HeldSound, IsResultOf
<1>6. dedicated' = dedicated BY <1>1, <1>4, <1>5
<1>7. p' = p BY <1>1, <1>6 DEF OpsPage
<1>8. JournalOK'
  <2>1. ledger' \in [Op -> L] BY <1>1, <1>2
  <2>2. \A x \in Op : ledger'[x] = "none" => receipt'[x] = "none" BY <1>1, <1>2 DEF IInv, JournalOK
  <2> QED BY <1>1, <1>2, <1>3, <2>1, <2>2 DEF IInv, JournalOK
<1> HIDE DEF p, E, A, R
<1>9. PageOK(p, receipt, E \cup {o}, A)
  <2>1. \A x \in A : p.handled[x] # <<>> BY <1>2 DEF PageOK, PageSound, AckedRightly
  <2> QED BY <1>2, <2>1, PageOfLaterJournal
<1>10. ASSUME NEW n \in Streaming, source[n] # NoSource
       PROVE  /\ source'[n] \in SourceType
              /\ SourceSound(source'[n], E \cup {o}, A, process)
              /\ Unread(source[n]) => Unread(source'[n])
              /\ UnreadOrOld(source[n]) => UnreadOrOld(source'[n])
              /\ \A x \in R : Bears(source[n], x, R) => Bears(source'[n], x, R \cup {o})
              /\ Bears(source'[n], o, R \cup {o})
  <2> DEFINE s == source[n]  t == source'[n]
  <2>1. s \in SourceType /\ SourceSound(s, E, A, process)
    BY <1>2, <1>10 DEF IInv, StreamsOK, E, A
  <2>2. s # NoSource BY <1>10
  <2>3. SourceSound(s, E \cup {o}, A, process)
    <3> HIDE DEF s
    <3> QED BY <2>1, SoundStays
  <2>4. t = IF s.link = "open" THEN [s EXCEPT !.unsent = @ \cup {o}] ELSE s
    BY <1>1, <1>2, <1>10 DEF LinkIs, InUse
  <2> HIDE DEF s, t
  <2>5. /\ t \in SourceType /\ t.link = s.link /\ t.ids = s.ids /\ t.owed = s.owed
        /\ t.fenced = s.fenced /\ t.unreplayed = s.unreplayed /\ t.wire = s.wire
        /\ t.unsent = IF s.link = "open" THEN s.unsent \cup {o} ELSE s.unsent
        /\ s.link \in {"connecting", "open", "lost"}
    BY <2>1, <2>4 DEF SourceType
  <2>6. t # NoSource BY <2>5, SourceIsNot
  <2>7. SourceSound(t, E \cup {o}, A, process) BY <2>2, <2>3, <2>5 DEF SourceSound
  <2>8. Unread(s) => Unread(t) BY <2>2, <2>5 DEF Unread, FirstReady
  <2>9. UnreadOrOld(s) => UnreadOrOld(t) BY <2>2, <2>5 DEF UnreadOrOld, FirstReady
  <2>10. \A x \in R : Bears(s, x, R) => Bears(t, x, R \cup {o}) BY <2>5, <2>6 DEF Bears
  <2>11. Bears(t, o, R \cup {o}) BY <2>2, <2>3, <2>5, <2>6 DEF Bears, SourceSound
  <2> QED BY <2>5, <2>7, <2>8, <2>9, <2>10, <2>11 DEF s, t
<1>11. \A n \in Streaming : source[n] = NoSource => source'[n] = NoSource
  BY <1>1, <1>2 DEF LinkIs, InUse
<1>12. source' \in [Streaming -> {NoSource} \cup SourceType]
  <2>1. DOMAIN source = Streaming BY <1>2
  <2>2. \A n \in Streaming : source'[n] \in {NoSource} \cup SourceType BY <1>10, <1>11
  <2>3. source' = [n \in Streaming |-> source'[n]] BY <1>1, <2>1
  <2> QED BY <2>2, <2>3
<1>13. StreamsOK(source', E \cup {o}, A, process, adopted = process)
  <2>1. \A n \in Streaming : SourceSound(source'[n], E \cup {o}, A, process)
    BY <1>10, <1>11 DEF SourceSound
  <2>2. Unread(source'["candidate"]) /\ (adopted # process => UnreadOrOld(source'["active"]))
    BY <1>10, <1>11 DEF IInv, StreamsOK, Streaming, Unread, UnreadOrOld
  <2> QED BY <1>12, <2>1, <2>2 DEF StreamsOK
<1>14. NewEpoch(p, R \cup {o}, adopted = process) /\ ServedIsFramed(p, R \cup {o})
  BY <1>5, OpsPageIs DEF IInv, NewEpoch, ServedIsFramed, p, R
<1>15. Reach(source', p, receipt, R \cup {o})
  <2>1. Reach(source, p, receipt, R) BY DEF IInv, p, R
  <2>2. "active" \in Streaming /\ "candidate" \in Streaming BY DEF Streaming
  <2>3. source["active"] # NoSource => source'["active"] # NoSource BY <1>10, <2>2, SourceIsNot
  <2>4. source'["active"] # NoSource =>
          \A x \in R \cup {o} : Lacks(p, receipt, x) => Bears(source'["active"], x, R \cup {o})
    BY <1>10, <1>11, <2>1, <2>2 DEF Reach
  <2>5. source'["candidate"] # NoSource =>
          \A x \in (R \cup {o}) \ p.forgone : Bears(source'["candidate"], x, R \cup {o})
    BY <1>10, <1>11, <2>1, <2>2 DEF Reach
  <2>6. (\E x \in Op : p.record[x] = "accepted") => source'["active"] # NoSource
    BY <2>1, <2>3 DEF Reach
  <2> QED BY <2>4, <2>5, <2>6 DEF Reach
<1>16. UNCHANGED <<process, receipt, adopted, ackRequest>> /\ revised' = R \cup {o} BY <1>1
<1>17. RequestOK(ackRequest, p, A) BY DEF IInv, p, A
<1> QED
  <2>1. StreamsOK(source, Ended, Acknowledged, process, adopted = process)' BY <1>3, <1>13, <1>16
  <2>2. PageOK(OpsPage, receipt, Ended, Acknowledged)' BY <1>3, <1>7, <1>9, <1>16 DEF p
  <2>3. RequestOK(ackRequest, OpsPage, Acknowledged)' BY <1>3, <1>7, <1>16, <1>17 DEF p
  <2>4. NewEpoch(OpsPage, revised, adopted = process)' BY <1>7, <1>14, <1>16 DEF p
  <2>5. ServedIsFramed(OpsPage, revised)' BY <1>7, <1>14, <1>16 DEF p
  <2>6. Reach(source, OpsPage, receipt, revised)' BY <1>7, <1>15, <1>16 DEF p
  <2> QED BY <1>8, <2>1, <2>2, <2>3, <2>4, <2>5, <2>6 DEF IInv

\* A new process has published nothing, and every stream it gets reads ready first.
LEMMA NewProcessStep ==
  ASSUME IInv, NewProcess
  PROVE  IInv'
<1> DEFINE p == OpsPage  E == Ended  A == Acknowledged  L == {"none", "queued", "terminal", "acknowledged"}
           d == [o \in Op |-> CutDedicated(dedicated[o])]
           q == [p EXCEPT !.dedicated = d]
<1>1. /\ ledger' = [o \in Op |-> IF ledger[o] = "queued" THEN "terminal" ELSE ledger[o]]
      /\ process' = process + 1 /\ revised' = {}
      /\ source' = [n \in DOMAIN source |-> Cut(source[n])]
      /\ \A n \in DOMAIN source : source[n] # NoSource => source[n].wire = <<>>
      /\ dedicated' = d /\ Spend("restarts")
      /\ ackRequest' = IF ackRequest = NoRequest THEN NoRequest ELSE [ackRequest EXCEPT !.answer = "failed"]
      /\ UNCHANGED <<receipt, serving, adopted, record, terminal, repairs, framed, handled, acks, forgone>>
  BY DEF NewProcess, InUse
<1>2. /\ ledger \in [Op -> L] /\ E \subseteq Op /\ process \in Nat \ {0} /\ adopted \in 0 .. process
      /\ receipt \in ReceiptType /\ serving \in BOOLEAN
      /\ source \in [Streaming -> {NoSource} \cup SourceType]
      /\ PageOK(p, receipt, E, A) /\ p \in PageType
      /\ \A x \in Op : ledger[x] = "none" => receipt[x] = "none"
  BY DEF IInv, JournalOK, Ended, StreamsOK, PageOK, PageSound
<1>3. E \subseteq Ended' /\ Ended' \subseteq Op /\ Acknowledged' = A
  BY <1>1, <1>2 DEF Ended, Acknowledged
<1>4. opsLeft' \in [{"operations", "faults", "restarts", "turns"} -> Nat] BY <1>1, BudgetSpent DEF IInv
<1>5. JournalOK'
  <2>1. ledger' \in [Op -> L] /\ \A x \in Op : ledger'[x] = "none" => receipt'[x] = "none"
    BY <1>1, <1>2
  <2>2. process' \in Nat \ {0} /\ adopted' \in 0 .. process' BY <1>1, <1>2
  <2> QED BY <1>1, <1>2, <1>4, <2>1, <2>2 DEF JournalOK
<1>6. dedicated \in [Op -> {"none", "connecting", "open", "served", "lost", Exact, Evicted}]
  BY <1>2, PageFields, OpsPageIs
<1>7. /\ d \in [Op -> {"none", "connecting", "open", "served", "lost", Exact, Evicted}]
      /\ \A o \in Op : d[o] \in {"none", "lost"} /\ (d[o] = "none" <=> dedicated[o] = "none")
  BY <1>6 DEF CutDedicated
<1> HIDE DEF p, E, A, d
<1>8. /\ q \in PageType /\ q.dedicated = d
      /\ q.record = p.record /\ q.terminal = p.terminal /\ q.framed = p.framed /\ q.repairs = p.repairs
      /\ q.handled = p.handled /\ q.acks = p.acks /\ q.forgone = p.forgone
  BY <1>2, <1>7 DEF PageType
<1> HIDE DEF q
<1>9. PageStep(p, q, receipt, E, A, {})
  <2>1. \A o \in Op : /\ q.dedicated[o] = "none" <=> p.dedicated[o] = "none"
                      /\ q.dedicated[o] = "served" => p.dedicated[o] = "served"
                      /\ q.dedicated[o] \in Results => IsResultOf(o, q.dedicated[o], E, A)
    BY <1>7, <1>8, OpsPageIs DEF p, Results, Exact, Evicted
  <2>2. {} \in SUBSET Op OBVIOUS
  <2> QED BY <1>2, <1>8, <2>1, <2>2, Redirecting
<1>10. OpsPage' = q
  <2>1. SetOpsPage(q) BY <1>1, <1>8, OpsPageIs DEF SetOpsPage, p
  <2> QED BY <1>8, <2>1, SetOpsPageIs
<1>11. PageOK(q, receipt, Ended', A)
  <2>1. PageOK(q, receipt, E, A) BY <1>9 DEF PageStep
  <2>2. \A o \in A : q.handled[o] # <<>> BY <2>1 DEF PageOK, PageSound, AckedRightly
  <2> QED BY <1>3, <2>1, <2>2, PageOfLaterJournal
<1>12. RequestOK(ackRequest', q, A)
  <2>1. RequestOK(ackRequest, p, A) BY DEF IInv, p, A
  <2>2. CASE ackRequest = NoRequest BY <1>1, <2>2 DEF RequestOK
  <2>3. CASE ackRequest # NoRequest
    <3>1. ackRequest \in RequestType /\ \A o \in ackRequest.batch : p.handled[o] # <<>>
      BY <2>1, <2>3 DEF RequestOK
    <3>2. ackRequest' = [ackRequest EXCEPT !.answer = "failed"] BY <1>1, <2>3
    <3>3. ackRequest' \in RequestType /\ ackRequest'.batch = ackRequest.batch /\ ackRequest'.answer = "failed"
      BY <3>1, <3>2 DEF RequestType
    <3> QED BY <1>8, <3>1, <3>3 DEF RequestOK
  <2> QED BY <2>2, <2>3
<1>13. ASSUME NEW n \in Streaming, source[n] # NoSource
       PROVE  /\ source'[n] \in SourceType
              /\ SourceSound(source'[n], Ended', A, process')
              /\ Unread(source[n]) => Unread(source'[n])
              /\ UnreadOrOld(source'[n])
  <2> DEFINE s == source[n]  t == source'[n]
  <2>1. s \in SourceType /\ SourceSound(s, E, A, process) /\ s # NoSource /\ s.wire = <<>>
    BY <1>1, <1>2, <1>13 DEF IInv, StreamsOK, E, A
  <2>2. t = IF s.link = "open" THEN [s EXCEPT !.link = "lost", !.unsent = {}, !.owed = {}] ELSE s
    BY <1>1, <1>2, <1>13 DEF Cut
  <2> HIDE DEF s, t
  <2>3. /\ t \in SourceType /\ t.fenced = s.fenced /\ t.wire = <<>> /\ t.link # "open"
        /\ t.link = "connecting" => s.link = "connecting"
        /\ t.unsent \subseteq s.unsent /\ t.owed \subseteq s.owed
    BY <2>1, <2>2 DEF SourceType
  <2>4. t # NoSource BY <2>3, SourceIsNot
  <2>5. Range(t.wire) = {} BY <2>3 DEF Range
  <2>6. SourceSound(t, Ended', A, process') BY <1>3, <2>1, <2>3, <2>4, <2>5 DEF SourceSound
  <2>7. Unread(s) => Unread(t) BY <2>1, <2>3, <2>4 DEF Unread, FirstReady
  <2>8. UnreadOrOld(t) BY <2>3, <2>4 DEF UnreadOrOld
  <2> QED BY <2>3, <2>6, <2>7, <2>8 DEF s, t
<1>14. \A n \in Streaming : source[n] = NoSource => source'[n] = NoSource
  BY <1>1, <1>2 DEF Cut
<1>15. source' \in [Streaming -> {NoSource} \cup SourceType]
  <2>1. DOMAIN source = Streaming BY <1>2
  <2>2. \A n \in Streaming : source'[n] \in {NoSource} \cup SourceType BY <1>13, <1>14
  <2>3. source' = [n \in Streaming |-> source'[n]] BY <1>1, <2>1
  <2> QED BY <2>2, <2>3
<1>16. StreamsOK(source', Ended', A, process', FALSE)
  <2>1. \A n \in Streaming : SourceSound(source'[n], Ended', A, process')
    BY <1>13, <1>14 DEF SourceSound
  <2>2. Unread(source'["candidate"]) /\ UnreadOrOld(source'["active"])
    BY <1>13, <1>14 DEF IInv, StreamsOK, Streaming, Unread, UnreadOrOld
  <2> QED BY <1>15, <2>1, <2>2 DEF StreamsOK
<1>17. (adopted' = process') = FALSE BY <1>1, <1>2
<1>18. Reach(source', q, receipt, {})
  <2>1. Reach(source, p, receipt, revised) BY DEF IInv, p
  <2>2. "active" \in Streaming BY DEF Streaming
  <2>3. source["active"] # NoSource => source'["active"] # NoSource BY <1>13, <2>2, SourceIsNot
  <2> QED BY <1>8, <2>1, <2>3 DEF Reach
<1> QED
  <2>1. StreamsOK(source, Ended, Acknowledged, process, adopted = process)' BY <1>3, <1>16, <1>17
  <2>2. PageOK(OpsPage, receipt, Ended, Acknowledged)' BY <1>1, <1>3, <1>10, <1>11
  <2>3. RequestOK(ackRequest, OpsPage, Acknowledged)' BY <1>3, <1>10, <1>12
  <2>4. NewEpoch(OpsPage, revised, adopted = process)' BY <1>1 DEF NewEpoch
  <2>5. ServedIsFramed(OpsPage, revised)' BY <1>1 DEF ServedIsFramed
  <2>6. Reach(source, OpsPage, receipt, revised)' BY <1>1, <1>10, <1>18
  <2> QED BY <1>5, <2>1, <2>2, <2>3, <2>4, <2>5, <2>6 DEF IInv

\* The acknowledgement: the journal takes it, or only the answer fails.
LEMMA AcknowledgeStep ==
  ASSUME IInv, Acknowledge
  PROVE  IInv'
<1> DEFINE p == OpsPage  E == Ended  A == Acknowledged  L == {"none", "queued", "terminal", "acknowledged"}
           b == ackRequest.batch
<1>1. /\ ackRequest # NoRequest
      /\ ledger' \in {ledger, [o \in Op |-> IF o \in b THEN "acknowledged" ELSE ledger[o]]}
      /\ \E w \in {"ok", "failed"} :
           /\ ackRequest' = [ackRequest EXCEPT !.answer = w]
           /\ w = "ok" => ledger' = [o \in Op |-> IF o \in b THEN "acknowledged" ELSE ledger[o]]
      /\ opsLeft' = opsLeft \/ Spend("faults")
      /\ UNCHANGED <<process, revised, receipt, source, serving, adopted, pageVars>>
  BY DEF Acknowledge
<1>2. /\ ledger \in [Op -> L] /\ E \subseteq Op /\ A \subseteq Op /\ revised \subseteq E
      /\ PageOK(p, receipt, E, A) /\ ackRequest \in RequestType
      /\ b \subseteq Op /\ \A o \in b : p.handled[o] # <<>>
      /\ \A x \in Op : ledger[x] = "none" => receipt[x] = "none"
  BY <1>1 DEF IInv, JournalOK, Ended, Acknowledged, RequestOK, RequestType
<1>3. b \subseteq E BY <1>2 DEF PageOK, PageSound, HandledRightly
<1>4. Ended' = E /\ Acknowledged' \in {A, A \cup b}
  <2>1. CASE ledger' = ledger BY <2>1 DEF Ended, Acknowledged
  <2>2. CASE ledger' = [o \in Op |-> IF o \in b THEN "acknowledged" ELSE ledger[o]]
    <3>1. \A o \in Op : ledger'[o] = IF o \in b THEN "acknowledged" ELSE ledger[o] BY <2>2
    <3>2. \A o \in Op : o \in b => ledger[o] \in {"terminal", "acknowledged"} BY <1>3 DEF Ended
    <3>3. Ended' = E BY <3>1, <3>2 DEF Ended
    <3>4. Acknowledged' = A \cup b BY <1>2, <3>1 DEF Acknowledged
    <3> QED BY <3>3, <3>4
  <2> QED BY <1>1, <2>1, <2>2
<1>5. /\ ackRequest' \in RequestType /\ ackRequest'.batch = b
      /\ ackRequest'.answer = "ok" => b \subseteq Acknowledged'
  <2>1. PICK w \in {"ok", "failed"} :
          /\ ackRequest' = [ackRequest EXCEPT !.answer = w]
          /\ w = "ok" => ledger' = [o \in Op |-> IF o \in b THEN "acknowledged" ELSE ledger[o]]
    BY <1>1
  <2>2. ackRequest' \in RequestType /\ ackRequest'.batch = b /\ ackRequest'.answer = w
    BY <1>2, <2>1 DEF RequestType
  <2>3. w = "ok" => b \subseteq Acknowledged' BY <1>2, <2>1 DEF Acknowledged
  <2> QED BY <2>2, <2>3
<1>6. p' = p BY <1>1, PageStays
<1>7. opsLeft' \in [{"operations", "faults", "restarts", "turns"} -> Nat]
  BY <1>1, BudgetSpent DEF IInv, JournalOK
<1>8. JournalOK'
  <2>1. ledger' \in [Op -> L] /\ \A x \in Op : ledger'[x] = "none" => receipt'[x] = "none"
    BY <1>1, <1>2
  <2> QED BY <1>1, <1>2, <1>4, <1>7, <2>1 DEF IInv, JournalOK
<1> HIDE DEF p, E, A
<1>9. A \subseteq Acknowledged' BY <1>4
<1>10. PageOK(p, receipt, E, Acknowledged')
  <2>1. \A o \in Acknowledged' : p.handled[o] # <<>>
    BY <1>2, <1>4 DEF PageOK, PageSound, AckedRightly
  <2> QED BY <1>2, <1>9, <2>1, PageOfLaterJournal
<1>11. RequestOK(ackRequest', p, Acknowledged') BY <1>2, <1>5 DEF RequestOK
<1>12. StreamsOK(source, E, Acknowledged', process, adopted = process)
  <2>1. \A n \in Streaming : SourceSound(source[n], E, Acknowledged', process)
    BY <1>9, SoundStays DEF IInv, StreamsOK, E, A
  <2> QED BY <2>1 DEF IInv, StreamsOK
<1> QED BY <1>1, <1>4, <1>6, <1>8, <1>10, <1>11, <1>12 DEF IInv, p, E

\* flushOperationTerminalAcks: what is sent was handled.
LEMMA FlushAcksStep ==
  ASSUME IInv, FlushOperationTerminalAcks
  PROVE  IInv'
<1>1. /\ ackRequest' = [answer |-> "awaited", batch |-> acks]
      /\ UNCHANGED <<journalVars, receipt, source, serving, adopted, pageVars, opsLeft>>
  BY DEF FlushOperationTerminalAcks
<1>2. Ended' = Ended /\ Acknowledged' = Acknowledged BY <1>1, JournalStays DEF journalVars
<1>3. OpsPage' = OpsPage BY <1>1, PageStays
<1>4. JournalOK' BY <1>1, <1>2 DEF IInv, JournalOK, journalVars
<1>5. RequestOK(ackRequest', OpsPage, Acknowledged)
  <2>1. acks \in SUBSET Op /\ \A o \in acks : OpsPage.handled[o] # <<>>
    BY OpsPageIs, PageFields DEF IInv, PageOK, PageSound, AckedRightly
  <2> QED BY <1>1, <2>1 DEF RequestOK, RequestType
<1> QED BY <1>1, <1>2, <1>3, <1>4, <1>5 DEF IInv, journalVars

\* The answer: what is no longer to be sent is in the journal.
LEMMA AcksAnsweredStep ==
  ASSUME IInv, AcksAnswered
  PROVE  IInv'
<1> DEFINE p == OpsPage  q == [p EXCEPT !.acks = acks']  E == Ended  A == Acknowledged
<1>1. /\ ackRequest' = NoRequest /\ ackRequest # NoRequest
      /\ acks' = IF ackRequest.answer = "ok" THEN acks \ ackRequest.batch ELSE acks
      /\ UNCHANGED <<journalVars, receipt, source, serving, adopted, record, terminal, repairs,
                     dedicated, framed, handled, forgone, opsLeft>>
  BY DEF AcksAnswered
<1>2. /\ PageOK(p, receipt, E, A) /\ p \in PageType /\ p.acks = acks
      /\ revised \subseteq E
  BY OpsPageIs DEF IInv, PageOK, PageSound, JournalOK
<1>3. acks' \subseteq acks /\ acks \ acks' \subseteq A
  BY <1>1 DEF IInv, RequestOK
<1> HIDE DEF p, E, A
<1>4. acks \in SUBSET Op BY <1>2, PageFields
<1>5. /\ q \in PageType /\ q.acks = acks' /\ q.dedicated = p.dedicated
      /\ q.record = p.record /\ q.terminal = p.terminal /\ q.framed = p.framed /\ q.repairs = p.repairs
      /\ q.handled = p.handled /\ q.forgone = p.forgone
  BY <1>2, <1>3, <1>4 DEF PageType
<1> HIDE DEF q
<1>6. SetOpsPage(q) BY <1>1, <1>5, OpsPageIs DEF SetOpsPage, p
<1>7. OpsPage' = q BY <1>5, <1>6, SetOpsPageIs
<1>8. AckedRightly(q, E, A) BY <1>2, <1>3, <1>5 DEF PageOK, PageSound, AckedRightly
<1>9. \A x : Seen(q, x) <=> Seen(p, x) BY <1>5, SeenIs
<1>10. PageOK(q, receipt, E, A)
  BY <1>2, <1>5, <1>8, <1>9 DEF PageOK, PageSound, HeldSound, HandledRightly
<1>11. \A o \in Op : Lacks(q, receipt, o) <=> Lacks(p, receipt, o)
  BY <1>5, <1>9 DEF Lacks, Misses, Due, HeldByPage
<1>12. Reach(source, q, receipt, revised)
  <2>1. Reach(source, p, receipt, revised) BY DEF IInv, p
  <2>2. revised \subseteq Op BY DEF IInv, JournalOK, Ended
  <2> QED BY <1>5, <1>11, <2>1, <2>2 DEF Reach
<1>13. NewEpoch(q, revised, adopted = process) /\ ServedIsFramed(q, revised)
  BY <1>5 DEF IInv, NewEpoch, ServedIsFramed, p
<1>14. Ended' = E /\ Acknowledged' = A BY <1>1, JournalStays DEF journalVars, E, A
<1>15. JournalOK' BY <1>1, <1>14 DEF IInv, JournalOK, journalVars, E
<1>16. RequestOK(ackRequest', q, A) BY <1>1 DEF RequestOK
<1>17. StreamsOK(source, E, A, process, adopted = process) BY DEF IInv, E, A
<1> QED BY <1>1, <1>7, <1>10, <1>12, <1>13, <1>14, <1>15, <1>16, <1>17 DEF IInv, journalVars

\* Every step of the program, and a step of nothing.
LEMMA StepsKeep ==
  ASSUME IInv, [OpsNext]_opsVars
  PROVE  IInv'
<1>1. ASSUME NEW o \in Op, OpServer(o) PROVE IInv'
  BY <1>1, AcceptStep, TerminalizeStep, MovingSteps DEF OpServer
<1>2. ASSUME NEW o \in Op, OpPage(o) PROVE IInv'
  BY <1>2, RegisterStep, MovingSteps, FlushStep DEF OpPage
<1>3. ASSUME NEW n \in Streaming, OpStream(n) PROVE IInv'
  BY <1>3, StreamSteps DEF OpStream
<1>4. ASSUME \/ NewProcess \/ Acknowledge
             \/ DemandChanges \/ DemandEnds \/ ReceiveFrame \/ Promote \/ Ping
             \/ ActiveErrs \/ CandidateErrs \/ FlushOperationTerminalAcks \/ AcksAnswered
      PROVE IInv'
  BY <1>4, NewProcessStep, AcknowledgeStep, DemandSteps, FrameSteps, PingStep, FlushAcksStep, AcksAnsweredStep
<1>5. CASE UNCHANGED opsVars
  <2>1. UNCHANGED <<journalVars, receipt, source, serving, adopted, pageVars, ackRequest, opsLeft>>
    BY <1>5 DEF opsVars
  <2>2. Ended' = Ended /\ Acknowledged' = Acknowledged BY <2>1, JournalStays DEF journalVars
  <2>3. OpsPage' = OpsPage BY <2>1, PageStays
  <2>4. JournalOK' BY <2>1, <2>2 DEF IInv, JournalOK, journalVars
  <2> QED BY <2>1, <2>2, <2>3, <2>4 DEF IInv, journalVars
<1> QED BY <1>1, <1>2, <1>3, <1>4, <1>5 DEF OpsNext, Streaming

-----------------------------------------------------------------------------
(* The theorems.                                                            *)

(***************************************************************************)
(* In every state, of the journal, the streams, the page and the request   *)
(* that acknowledges: results are the journal's, one that is not the exact *)
(* one was acknowledged, what is handled is acknowledged or to be, and     *)
(* what was published is borne to a page that lacks it.                    *)
(***************************************************************************)
THEOREM Invariance == OpsSpec => []IInv
<1>1. OpsInit => IInv BY InitIsSound
<1>2. IInv /\ [OpsNext]_opsVars => IInv' BY StepsKeep
<1> QED BY <1>1, <1>2, PTL DEF OpsSpec

(***************************************************************************)
(* apiOperationState keeps to its values and to its bound: an operation    *)
(* has one terminal in the map at most, and pruneApiOperationReplay keeps  *)
(* the map within apiOperationReplayLimit, whatever the limit is.          *)
(***************************************************************************)
THEOREM MapsAreBounded == OpsSpec => []OpsTypeOK
<1>1. IInv => OpsTypeOK
  <2> SUFFICES ASSUME IInv PROVE OpsTypeOK OBVIOUS
  <2>1. /\ OpsPage \in PageType /\ Len(terminal) <= ReplayLimit /\ Once(terminal)
    BY OpsPageIs DEF IInv, PageOK, PageSound
  <2>2. /\ record \in [Op -> {"none", "accepted", "terminal"}]
        /\ terminal \in Seq(KeptType) /\ repairs \in SUBSET Op
        /\ dedicated \in [Op -> {"none", "connecting", "open", "served", "lost", Exact, Evicted}]
        /\ framed \in [Op -> {NotQueued, Exact, Evicted}]
        /\ handled \in [Op -> Seq(Results)]
        /\ acks \in SUBSET Op /\ forgone \in SUBSET Op
    BY <2>1, PageFields, OpsPageIs
  <2>3. ackRequest \in {NoRequest} \cup [answer : {"awaited", "ok", "failed"}, batch : SUBSET Op]
    BY DEF IInv, RequestOK, RequestType
  <2>4. source \in [{"active", "candidate"} -> {NoSource} \cup SourceType]
    BY DEF IInv, StreamsOK, Streaming
  <2>5. JournalOK /\ revised \subseteq Op /\ receipt \in [Op -> {"none", "sent", "received"}]
    BY DEF IInv, JournalOK, Ended, ReceiptType
  <2>6. \A i, j \in DOMAIN terminal : terminal[i].op = terminal[j].op => i = j
    BY <2>1 DEF Once
  <2> QED BY <2>1, <2>2, <2>3, <2>4, <2>5, <2>6 DEF OpsTypeOK, JournalOK, KeptType, Results
<1> QED BY <1>1, Invariance, PTL

(***************************************************************************)
(* The handler that completeApiOperationRecord runs is run at most once    *)
(* for an operation, and with the exact result.                            *)
(***************************************************************************)
THEOREM HandlersRunOnce == OpsSpec => []HandledOnce
<1>1. IInv => HandledOnce
  BY OpsPageIs DEF IInv, PageOK, PageSound, HandledRightly, HandledOnce
<1> QED BY <1>1, Invariance, PTL

(***************************************************************************)
(* The journal takes an acknowledgement only of what was handled, and what *)
(* was handled flushOperationTerminalAcks sends until the journal has it.  *)
(***************************************************************************)
THEOREM AcknowledgedIsHandled == OpsSpec => []AckFollowsHandling
<1>1. IInv => AckFollowsHandling
  <2> SUFFICES ASSUME IInv, NEW o \in Op
               PROVE  /\ ledger[o] = "acknowledged" => handled[o] # <<>>
                      /\ handled[o] # <<>> /\ ledger[o] = "terminal" => o \in acks
    BY DEF AckFollowsHandling
  <2>1. AckedRightly(OpsPage, Ended, Acknowledged) BY DEF IInv, PageOK, PageSound
  <2> QED BY <2>1, OpsPageIs DEF AckedRightly, Ended, Acknowledged
<1> QED BY <1>1, Invariance, PTL

(***************************************************************************)
(* What the running process published and the page awaits is on its way,   *)
(* unless one of the three losses that the code allows threw it away.      *)
(***************************************************************************)
THEOREM PublishedIsOnItsWay == OpsSpec => []PublishedReachesPage
<1>1. IInv => PublishedReachesPage
  <2> SUFFICES ASSUME IInv, NEW o \in revised \ forgone, Awaited(o)
               PROVE  OnItsWay(o)
    BY DEF PublishedReachesPage
  <2> DEFINE s == source["active"]
  <2>1. o \in Op /\ o \in revised /\ record[o] = "accepted" BY DEF IInv, JournalOK, Ended, Awaited
  <2>2. ~Seen(OpsPage, o)
    BY <2>1, OpsPageIs DEF IInv, PageOK, PageSound, HandledRightly
  <2>3. Misses(OpsPage, receipt, o) BY <2>1, <2>2, OpsPageIs DEF Misses, Due
  <2>4. CASE HeldByPage(OpsPage, o) BY <2>4, OpsPageIs DEF HeldByPage, OnItsWay
  <2>5. CASE ~HeldByPage(OpsPage, o)
    <3>1. s # NoSource /\ Bears(s, o, revised)
      BY <2>1, <2>3, <2>5, OpsPageIs DEF IInv, Reach, Lacks
    <3>2. (\E m \in Range(s.wire) : Brings(m, o)) =>
            \E i \in DOMAIN s.wire : Brings(s.wire[i], o)
      BY DEF Range
    <3>3. Carries("active", o)
      BY <2>1, <3>1, <3>2 DEF Carries, InUse, Bears, Brings
    <3> QED BY <3>3 DEF OnItsWay
  <2> QED BY <2>4, <2>5
<1> QED BY <1>1, Invariance, PTL
=============================================================================
