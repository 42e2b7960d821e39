--------------------------- MODULE ApiOperations ---------------------------
(***************************************************************************)
(* Accepted operations.  A request that takes long is answered with a      *)
(* receipt (202, an operation id); the result, the operation's terminal,   *)
(* comes later over /api/client-events.  The server keeps terminals in a   *)
(* journal, publishes each once, replays those a stream's URL names, and   *)
(* may cut down a result once the page has acknowledged it.  The page may  *)
(* see a terminal before its receipt, twice, or not at all, and then has a *)
(* dedicated stream per operation to ask for it.                           *)
(*                                                                         *)
(* Source: 10_core_utils.js, 99_client_event_transport.js, and             *)
(* queued_delivery.py, app.py, client_events.py, server.py for the         *)
(* server's half.                                                          *)
(***************************************************************************)
EXTENDS Naturals, Sequences, FiniteSets

CONSTANTS Op,             \* the operations
          ReplayLimit,    \* apiOperationReplayLimit
          OpBudgets       \* bound: how many operations are accepted, how often a
                          \*   connection, a queue or an answer fails, the server
                          \*   restarts, the page's demand changes

ASSUME OperationConstants ==
  /\ ReplayLimit \in Nat
  /\ OpBudgets \subseteq [{"operations", "faults", "restarts", "turns"} -> Nat]

VARIABLES ledger,         \* the journal: how far each operation is
          process,        \* the server process
          revised,        \* the terminals this process has published
          receipt,        \* where the receipt of each operation is
          source,         \* clientEventTransportState.source, replacementSource
          serving,        \* clientEventTransportState.connected
          adopted,        \* clientEventTransportState.resourceEpoch
          record,         \* apiOperationState.records: the phase of each
          terminal,       \* apiOperationState.terminal, oldest first
          repairs,        \* apiOperationState.repairs
          dedicated,      \* record.source of each operation
          framed,         \* the terminals in the queue of the next frame
          handled,        \* history: the results the handler of each was given
          acks,           \* operationTerminalAckState.pending
          ackRequest,     \* operationTerminalAckState.request
          forgone,        \* history: terminals a bound of the code threw away
          opsLeft         \* what is left of the budget

journalVars == <<ledger, process, revised>>
pageVars == <<record, terminal, repairs, dedicated, framed, handled, acks, forgone>>
opsVars == <<journalVars, receipt, source, serving, adopted, pageVars, ackRequest, opsLeft>>

NoSource == [link |-> "none"]
NoRequest == [answer |-> "none"]
NoProcess == 0
Exact == "exact"
Evicted == "evicted"
NotQueued == "none"

(***************************************************************************)
(* An EventSource: ids are the operations its URL names, unsent what the   *)
(* broker has queued for it, owed its pending_repair_resources, fenced     *)
(* that ready was written, unreplayed the ids whose replay is still due,   *)
(* wire what the page has not received.                                    *)
(***************************************************************************)
SourceWith(ids) == [link |-> "connecting", ids |-> ids, unsent |-> {}, owed |-> {},
                    fenced |-> FALSE, unreplayed |-> {}, wire |-> <<>>]
Live(n) == source[n].fenced /\ source[n].unreplayed = {}
InUse(n) == source[n] # NoSource
LinkIs(n, l) == InUse(n) /\ source[n].link = l
Pending == {o \in Op : record[o] = "accepted"}
Spend(what) == opsLeft[what] > 0 /\ opsLeft' = [opsLeft EXCEPT ![what] = @ - 1]

OpsInit ==
  /\ ledger = [o \in Op |-> "none"]
  /\ process = 1
  /\ revised = {}
  /\ receipt = [o \in Op |-> "none"]
  /\ source = [active |-> SourceWith({}), candidate |-> NoSource]
  /\ serving = FALSE
  /\ adopted = NoProcess
  /\ record = [o \in Op |-> "none"]
  /\ terminal = <<>>
  /\ repairs = {}
  /\ dedicated = [o \in Op |-> "none"]
  /\ framed = [o \in Op |-> NotQueued]
  /\ handled = [o \in Op |-> <<>>]
  /\ acks = {}
  /\ ackRequest = NoRequest
  /\ forgone = {}
  /\ opsLeft \in OpBudgets

-----------------------------------------------------------------------------
(* The server.                                                             *)

(***************************************************************************)
(* accept_operation: the operation is in the journal before its receipt is *)
(* sent.                                                                   *)
(***************************************************************************)
AcceptOperation(o) ==
  /\ ledger[o] = "none"
  /\ Spend("operations")
  /\ ledger' = [ledger EXCEPT ![o] = "queued"]
  /\ receipt' = [receipt EXCEPT ![o] = "sent"]
  /\ UNCHANGED <<process, revised, source, serving, adopted, pageVars, ackRequest>>

(***************************************************************************)
(* terminalize_operation: journalled, then published to every subscriber   *)
(* and to the dedicated stream that waits for it.                          *)
(***************************************************************************)
TerminalizeOperation(o) ==
  /\ ledger[o] = "queued"
  /\ ledger' = [ledger EXCEPT ![o] = "terminal"]
  /\ revised' = revised \cup {o}
  /\ source' = [n \in DOMAIN source |->
                  IF LinkIs(n, "open") THEN [source[n] EXCEPT !.unsent = @ \cup {o}] ELSE source[n]]
  /\ dedicated' = [dedicated EXCEPT ![o] = IF @ = "open" THEN Exact ELSE @]
  /\ UNCHANGED <<process, receipt, serving, adopted, record, terminal, repairs, framed,
                 handled, acks, forgone, ackRequest, opsLeft>>

Subscribes(n) ==
  /\ LinkIs(n, "connecting")
  /\ source' = [source EXCEPT ![n].link = "open"]
  /\ UNCHANGED <<journalVars, receipt, serving, adopted, pageVars, ackRequest, opsLeft>>

Write(n, messages) == [source EXCEPT ![n].wire = @ \o messages]
Ready == [type |-> "ready", process |-> process, ops |-> revised]
Terminal(o, body) == [type |-> "terminal", op |-> o, body |-> body]

WriteReady(n) ==
  /\ LinkIs(n, "open") /\ ~source[n].fenced
  /\ source' = [Write(n, <<Ready>>) EXCEPT ![n].fenced = TRUE, ![n].unreplayed = source[n].ids]
  /\ UNCHANGED <<journalVars, receipt, serving, adopted, pageVars, ackRequest, opsLeft>>

(***************************************************************************)
(* What operation_replay_event gives for an operation: once it is          *)
(* acknowledged _bound_terminal_replays_locked may have put a result       *)
(* without content (operation_replay_evicted) in its place.                *)
(***************************************************************************)
Replay(o) == CASE ledger[o] = "terminal" -> {Exact}
               [] ledger[o] = "acknowledged" -> {Exact, Evicted}
               [] OTHER -> {}

WriteReplay(n, o) ==
  /\ LinkIs(n, "open") /\ source[n].fenced /\ o \in source[n].unreplayed
  /\ \E m \in IF Replay(o) = {} THEN {<<>>} ELSE {<<Terminal(o, body)>> : body \in Replay(o)} :
       source' = [Write(n, m) EXCEPT ![n].unreplayed = @ \ {o}]
  /\ UNCHANGED <<journalVars, receipt, serving, adopted, pageVars, ackRequest, opsLeft>>

(***************************************************************************)
(* A terminal from the subscriber's queue.  next_event takes the repairs   *)
(* the subscriber is owed with it, and a terminal's frame carries none.    *)
(***************************************************************************)
WriteTerminal(n, o) ==
  /\ LinkIs(n, "open") /\ Live(n) /\ o \in source[n].unsent
  /\ source' = [Write(n, <<Terminal(o, Exact)>>) EXCEPT ![n].unsent = @ \ {o}, ![n].owed = {}]
  /\ forgone' = forgone \cup source[n].owed
  /\ UNCHANGED <<journalVars, receipt, serving, adopted, record, terminal, repairs, dedicated,
                 framed, handled, acks, ackRequest, opsLeft>>

(***************************************************************************)
(* An event of another resource brings the repairs along.                  *)
(***************************************************************************)
WriteOther(n) ==
  /\ LinkIs(n, "open") /\ Live(n) /\ source[n].owed # {}
  /\ source' = [Write(n, <<[type |-> "other", ops |-> source[n].owed]>>) EXCEPT ![n].owed = {}]
  /\ UNCHANGED <<journalVars, receipt, serving, adopted, pageVars, ackRequest, opsLeft>>

(***************************************************************************)
(* enqueue on a full queue: the oldest event, this one, is dropped.        *)
(***************************************************************************)
QueueFull(n, o) ==
  /\ LinkIs(n, "open") /\ o \in source[n].unsent
  /\ Spend("faults")
  /\ source' = [source EXCEPT ![n].unsent = @ \ {o}, ![n].owed = @ \cup {o}]
  /\ UNCHANGED <<journalVars, receipt, serving, adopted, pageVars, ackRequest>>

Cut(s) == IF s # NoSource /\ s.link = "open" THEN [s EXCEPT !.link = "lost", !.unsent = {}, !.owed = {}]
          ELSE s
CutDedicated(d) == IF d = "none" THEN "none" ELSE "lost"

StreamBreaks(n) ==
  /\ LinkIs(n, "open")
  /\ Spend("faults")
  /\ source' = [source EXCEPT ![n] = Cut(@)]
  /\ UNCHANGED <<journalVars, receipt, serving, adopted, pageVars, ackRequest>>

(***************************************************************************)
(* The dedicated stream of an operation: connected, the server replays the *)
(* terminal or waits for it; it ends only when the page closes it.         *)
(***************************************************************************)
ConnectDedicated(o) ==
  /\ dedicated[o] = "connecting"
  /\ \E body \in IF Replay(o) = {} THEN {"open"} ELSE Replay(o) :
       dedicated' = [dedicated EXCEPT ![o] = body]
  /\ UNCHANGED <<journalVars, receipt, source, serving, adopted, record, terminal, repairs,
                 framed, handled, acks, forgone, ackRequest, opsLeft>>

DedicatedBreaks(o) ==
  /\ dedicated[o] \notin {"none", "lost"}
  /\ Spend("faults")
  /\ dedicated' = [dedicated EXCEPT ![o] = "lost"]
  /\ UNCHANGED <<journalVars, receipt, source, serving, adopted, record, terminal, repairs,
                 framed, handled, acks, forgone, ackRequest>>

(***************************************************************************)
(* A new process: abandon_recovered_operations makes what was queued       *)
(* terminal in the journal, and publishes nothing.  By the time it serves, *)
(* what the old one had written has been received.                         *)
(***************************************************************************)
NewProcess ==
  /\ Spend("restarts")
  /\ \A n \in DOMAIN source : InUse(n) => source[n].wire = <<>>
  /\ \A o \in Op : receipt[o] # "sent"
  /\ process' = process + 1
  /\ ledger' = [o \in Op |-> IF ledger[o] = "queued" THEN "terminal" ELSE ledger[o]]
  /\ revised' = {}
  /\ source' = [n \in DOMAIN source |-> Cut(source[n])]
  /\ dedicated' = [o \in Op |-> CutDedicated(dedicated[o])]
  /\ ackRequest' = IF ackRequest = NoRequest THEN NoRequest ELSE [ackRequest EXCEPT !.answer = "failed"]
  /\ UNCHANGED <<receipt, serving, adopted, record, terminal, repairs, framed, handled, acks,
                 forgone>>

(***************************************************************************)
(* acknowledge_operation_deliveries: the acknowledgement is committed, and *)
(* its answer may be lost; or it fails before.                             *)
(***************************************************************************)
Acknowledge ==
  /\ ackRequest # NoRequest /\ ackRequest.answer = "awaited"
  /\ \/ /\ ledger' = [o \in Op |-> IF o \in ackRequest.batch THEN "acknowledged" ELSE ledger[o]]
        /\ ackRequest' = [ackRequest EXCEPT !.answer = "ok"]
        /\ UNCHANGED opsLeft
     \/ /\ ledger' = [o \in Op |-> IF o \in ackRequest.batch THEN "acknowledged" ELSE ledger[o]]
        /\ ackRequest' = [ackRequest EXCEPT !.answer = "failed"]
        /\ Spend("faults")
     \/ /\ ackRequest' = [ackRequest EXCEPT !.answer = "failed"]
        /\ Spend("faults")
        /\ UNCHANGED ledger
  /\ UNCHANGED <<process, revised, receipt, source, serving, adopted, pageVars>>

-----------------------------------------------------------------------------
(* The page.  What a step does to the operations is built from functions   *)
(* of a record of the page's variables.                                    *)

OpsPage == [record |-> record, terminal |-> terminal, repairs |-> repairs,
            dedicated |-> dedicated, framed |-> framed, handled |-> handled,
            acks |-> acks, forgone |-> forgone]
SetOpsPage(p) ==
  /\ record' = p.record /\ terminal' = p.terminal /\ repairs' = p.repairs
  /\ dedicated' = p.dedicated /\ framed' = p.framed /\ handled' = p.handled
  /\ acks' = p.acks /\ forgone' = p.forgone

(***************************************************************************)
(* pruneApiOperationReplay: over the limit the oldest terminal is dropped, *)
(* and the record of the operation with it.  A terminal that has no record *)
(* yet is gone for the receipt that comes later.                           *)
(***************************************************************************)
\* Wrong variant: nothing is dropped.
Unpruned(p) == p
PruneApiOperationReplay(p) ==
  IF Len(p.terminal) <= ReplayLimit THEN p
  ELSE LET o == Head(p.terminal).op
       IN  [p EXCEPT !.terminal = Tail(@), !.record[o] = "none",
                     !.forgone = IF p.record[o] = "none" THEN @ \cup {o} ELSE @]

(***************************************************************************)
(* completeApiOperationRecord: the dedicated stream is closed, the handler *)
(* runs, the acknowledgement is queued.                                    *)
(***************************************************************************)
CompleteApiOperationRecord(p, o, body) ==
  [p EXCEPT !.record[o] = "terminal", !.dedicated[o] = "none",
            !.handled[o] = Append(@, body), !.acks = @ \cup {o}]

(***************************************************************************)
(* applyApiOperationTerminal: not for a record that is already terminal,   *)
(* and not for a cursor that the page has seen.                            *)
(***************************************************************************)
Without(s, i) == SubSeq(s, 1, i - 1) \o SubSeq(s, i + 1, Len(s))
Seen(p, o) == \E i \in DOMAIN p.terminal : p.terminal[i].op = o
\* Wrong variant: a terminal is applied whenever it comes.
AppliesAgain(p, o) == TRUE
Applies(p, o) == p.record[o] # "terminal" /\ ~Seen(p, o)
Keep(p, o, body) == [p EXCEPT !.terminal = Append(@, [op |-> o, body |-> body])]
ApplyApiOperationTerminal(p, o, body) ==
  LET q == Keep(p, o, body)
  IN  IF ~Applies(p, o) THEN p
      ELSE PruneApiOperationReplay(
             IF p.record[o] = "none" THEN q ELSE CompleteApiOperationRecord(q, o, body))

(***************************************************************************)
(* repairClientEventOperationTerminalResource, for one operation of ops    *)
(* after the other: one without a record waits in repairs for its receipt; *)
(* one that is accepted gets a dedicated stream, unless it has one.  What  *)
(* is evicted meanwhile is not repaired.                                   *)
(***************************************************************************)
Unknown(p, ops) == {o \in ops : p.record[o] = "none"}
Waiting(p, ops) == (p.repairs \ ops) \cup Unknown(p, ops)
RepairTerminals(p, ops, evicted) ==
  [p EXCEPT !.repairs = Waiting(p, ops) \ evicted,
            !.dedicated = [o \in Op |-> IF o \in ops \ evicted /\ p.record[o] = "accepted" /\ @[o] = "none"
                                         THEN "connecting" ELSE @[o]],
            !.forgone = @ \cup evicted]

(***************************************************************************)
(* The sets it may evict: whenever it notes an operation without a record  *)
(* it deletes the oldest of repairs down to apiOperationReplayLimit, those *)
(* of this call last; which of the others are oldest is left open.  A ping *)
(* passes over the accepted operations (retried) that it has evicted       *)
(* before their turn; a frame repairs them all the same.                   *)
(***************************************************************************)
Evictions(p, ops, retried) ==
  LET size == Cardinality(p.repairs \cup Unknown(p, ops))
  IN  IF Unknown(p, ops) = {} \/ size <= ReplayLimit THEN {{}}
      ELSE {e \in SUBSET (Waiting(p, ops) \cup retried) :
              /\ Cardinality(e) + ReplayLimit <= size
              /\ Cardinality(Waiting(p, ops) \ e) <= ReplayLimit
              /\ e \cap Unknown(p, ops) # {} => Waiting(p, ops) \ e \subseteq Unknown(p, ops)}

(***************************************************************************)
(* registerApiOperationReceipt: a terminal that came first completes the   *)
(* record at once.  Otherwise a stream that is not yet ready and whose URL *)
(* lacks the operation is replaced, a repair that was noted is started,    *)
(* and a stream is opened if there is none.                                *)
(***************************************************************************)
Streams == [active |-> NoSource, candidate |-> NoSource]
StartApiOperationTransport(o) ==
  LET stale == InUse("active") /\ ~serving /\ o \notin source["active"].ids
  IN  source' = IF stale \/ ~InUse("active")
                  THEN [Streams EXCEPT !.active = SourceWith(Pending \cup {o})] ELSE source

Accepted(o) == [OpsPage EXCEPT !.record[o] = "accepted"]
RegisterApiOperationReceipt(o) ==
  /\ receipt[o] = "sent"
  /\ receipt' = [receipt EXCEPT ![o] = "received"]
  /\ \/ \E i \in DOMAIN terminal :
          /\ terminal[i].op = o
          /\ LET others == Without(terminal, i)
                 p == [Accepted(o) EXCEPT !.repairs = @ \ {o}, !.terminal = Append(others, terminal[i])]
             IN  SetOpsPage(PruneApiOperationReplay(CompleteApiOperationRecord(p, o, terminal[i].body)))
          /\ UNCHANGED source
     \/ /\ ~Seen(OpsPage, o)
        /\ SetOpsPage(IF o \in repairs THEN RepairTerminals(Accepted(o), {o}, {}) ELSE Accepted(o))
        /\ StartApiOperationTransport(o)
  /\ UNCHANGED <<journalVars, serving, adopted, ackRequest, opsLeft>>

(***************************************************************************)
(* The demand changes: a candidate is opened beside the stream, or in the  *)
(* place of the candidate; or a page that is hidden and awaits nothing     *)
(* closes its stream.                                                      *)
(***************************************************************************)
DemandChanges ==
  /\ Spend("turns")
  /\ source' = IF InUse("active") THEN [source EXCEPT !["candidate"] = SourceWith(Pending)]
               ELSE [source EXCEPT !["active"] = SourceWith(Pending)]
  /\ UNCHANGED <<journalVars, receipt, serving, adopted, pageVars, ackRequest>>
DemandEnds ==
  /\ Pending = {} /\ InUse("active")
  /\ Spend("turns")
  /\ source' = Streams
  /\ serving' = FALSE
  /\ UNCHANGED <<journalVars, receipt, adopted, pageVars, ackRequest>>

(***************************************************************************)
(* A frame of the active stream.  ready: a new epoch turns stale what is   *)
(* queued for the next frame, and every terminal of its list is repaired,  *)
(* in the same epoch because the page counts no revision of a terminal.    *)
(***************************************************************************)
HandleFrame(m, evicted) ==
  CASE m.type = "ready" ->
         LET p == IF m.process = adopted THEN OpsPage
                  ELSE [OpsPage EXCEPT !.framed = [o \in Op |-> NotQueued]]
         IN  RepairTerminals(p, m.ops, evicted)
    [] m.type = "terminal" -> [OpsPage EXCEPT !.framed[m.op] = m.body]
    [] m.type = "other" -> RepairTerminals(OpsPage, m.ops, evicted)
Evicting(m) == Evictions(OpsPage, IF m.type = "terminal" THEN {} ELSE m.ops, {})
Consumed(s) == [s EXCEPT !.wire = Tail(@)]
ReceiveFrame ==
  /\ InUse("active") /\ source["active"].wire # <<>>
  /\ LET m == Head(source["active"].wire)
     IN  /\ \E evicted \in Evicting(m) : SetOpsPage(HandleFrame(m, evicted))
         /\ adopted' = IF m.type = "ready" THEN m.process ELSE adopted
  /\ source' = [source EXCEPT !["active"] = Consumed(@)]
  /\ serving' = TRUE
  /\ UNCHANGED <<journalVars, receipt, ackRequest, opsLeft>>

Promote ==
  /\ InUse("candidate") /\ source["candidate"].wire # <<>>
  /\ LET m == Head(source["candidate"].wire)
     IN  /\ \E evicted \in Evicting(m) : SetOpsPage(HandleFrame(m, evicted))
         /\ adopted' = m.process
  /\ source' = [Streams EXCEPT !.active = Consumed(source["candidate"])]
  /\ serving' = TRUE
  /\ UNCHANGED <<journalVars, receipt, ackRequest, opsLeft>>

ReceiveDedicated(o) ==
  /\ dedicated[o] \in {Exact, Evicted}
  /\ dedicated' = [dedicated EXCEPT ![o] = "served"]
  /\ framed' = [framed EXCEPT ![o] = dedicated[o]]
  /\ UNCHANGED <<journalVars, receipt, source, serving, adopted, record, terminal, repairs,
                 handled, acks, forgone, ackRequest, opsLeft>>

(***************************************************************************)
(* flushQueuedClientPushEvents, for one operation after the other.         *)
(***************************************************************************)
ApplyFramed(o) ==
  /\ framed[o] # NotQueued
  /\ SetOpsPage([ApplyApiOperationTerminal(OpsPage, o, framed[o]) EXCEPT !.framed[o] = NotQueued])
  /\ UNCHANGED <<journalVars, receipt, source, serving, adopted, ackRequest, opsLeft>>

(***************************************************************************)
(* ping: what waits in repairs is tried again                              *)
(* (retryPendingOperationTerminalRepairs).                                 *)
(***************************************************************************)
Retried == {o \in repairs : record[o] = "accepted" /\ dedicated[o] = "none"}
Ping ==
  /\ LinkIs("active", "open") /\ Live("active") /\ source["active"].wire = <<>>
  /\ repairs # {}
  /\ \E evicted \in Evictions(OpsPage, repairs, Retried) :
       SetOpsPage(RepairTerminals(OpsPage, repairs, evicted))
  /\ serving' = TRUE
  /\ UNCHANGED <<journalVars, receipt, source, adopted, ackRequest, opsLeft>>

(***************************************************************************)
(* The errors of the streams.  An EventSource connects again by itself,    *)
(* with the URL it was made with.                                          *)
(***************************************************************************)
StreamErrs(n) == LinkIs(n, "lost") /\ source[n].wire = <<>>
ActiveErrs ==
  /\ StreamErrs("active")
  /\ source' = [source EXCEPT !["active"] = SourceWith(@.ids)]
  /\ serving' = FALSE
  /\ UNCHANGED <<journalVars, receipt, adopted, pageVars, ackRequest, opsLeft>>
CandidateErrs ==
  /\ StreamErrs("candidate")
  /\ \/ /\ source' = [source EXCEPT !["candidate"] = SourceWith(@.ids)]
        /\ UNCHANGED serving
     \/ /\ source' = [source EXCEPT !["candidate"] = SourceWith(Pending)]
        /\ serving' = FALSE
  /\ UNCHANGED <<journalVars, receipt, adopted, pageVars, ackRequest, opsLeft>>
\* Wrong variant: nothing is left to be tried again.
DedicatedForgets(o) ==
  /\ dedicated[o] = "lost"
  /\ dedicated' = [dedicated EXCEPT ![o] = "none"]
  /\ UNCHANGED <<journalVars, receipt, source, serving, adopted, record, terminal, repairs,
                 framed, handled, acks, forgone, ackRequest, opsLeft>>
DedicatedErrs(o) ==
  /\ dedicated[o] = "lost"
  /\ dedicated' = [dedicated EXCEPT ![o] = "none"]
  /\ repairs' = repairs \cup {o}
  /\ UNCHANGED <<journalVars, receipt, source, serving, adopted, record, terminal, framed,
                 handled, acks, forgone, ackRequest, opsLeft>>

(***************************************************************************)
(* flushOperationTerminalAcks: one request at a time; a failed one leaves  *)
(* its batch to be sent again.                                             *)
(***************************************************************************)
FlushOperationTerminalAcks ==
  /\ ackRequest = NoRequest /\ acks # {}
  /\ ackRequest' = [answer |-> "awaited", batch |-> acks]
  /\ UNCHANGED <<journalVars, receipt, source, serving, adopted, pageVars, opsLeft>>
\* Wrong variant: a batch is done with whatever the answer.
AcksForgotten ==
  /\ ackRequest # NoRequest /\ ackRequest.answer # "awaited"
  /\ ackRequest' = NoRequest
  /\ acks' = acks \ ackRequest.batch
  /\ UNCHANGED <<journalVars, receipt, source, serving, adopted, record, terminal, repairs,
                 dedicated, framed, handled, forgone, opsLeft>>
AcksAnswered ==
  /\ ackRequest # NoRequest /\ ackRequest.answer # "awaited"
  /\ ackRequest' = NoRequest
  /\ acks' = IF ackRequest.answer = "ok" THEN acks \ ackRequest.batch ELSE acks
  /\ UNCHANGED <<journalVars, receipt, source, serving, adopted, record, terminal, repairs,
                 dedicated, framed, handled, forgone, opsLeft>>

-----------------------------------------------------------------------------
OpServer(o) ==
  \/ AcceptOperation(o) \/ TerminalizeOperation(o) \/ ConnectDedicated(o) \/ DedicatedBreaks(o)
OpStream(n) ==
  \/ Subscribes(n) \/ WriteReady(n) \/ WriteOther(n) \/ StreamBreaks(n)
  \/ \E o \in Op : WriteReplay(n, o) \/ WriteTerminal(n, o) \/ QueueFull(n, o)
OpPage(o) ==
  \/ RegisterApiOperationReceipt(o) \/ ReceiveDedicated(o) \/ ApplyFramed(o) \/ DedicatedErrs(o)

OpsNext ==
  \/ \E o \in Op : OpServer(o) \/ OpPage(o)
  \/ \E n \in {"active", "candidate"} : OpStream(n)
  \/ NewProcess \/ Acknowledge
  \/ DemandChanges \/ DemandEnds \/ ReceiveFrame \/ Promote \/ Ping
  \/ ActiveErrs \/ CandidateErrs \/ FlushOperationTerminalAcks \/ AcksAnswered
OpsSpec == OpsInit /\ [][OpsNext]_opsVars

-----------------------------------------------------------------------------
(***************************************************************************)
(* The page's maps keep to their values; an operation is in                *)
(* apiOperationState.terminal at most once, and that map never exceeds     *)
(* apiOperationReplayLimit.  The same limit on repairs is not stated: a    *)
(* dedicated stream that errs adds to it beyond the limit, until an        *)
(* operation without a record is noted.                                    *)
(***************************************************************************)
OpMessageType ==
  [type : {"ready"}, process : Nat, ops : SUBSET Op]
  \cup [type : {"terminal"}, op : Op, body : {Exact, Evicted}]
  \cup [type : {"other"}, ops : SUBSET Op]
SourceType == [link : {"connecting", "open", "lost"}, ids : SUBSET Op, unsent : SUBSET Op,
               owed : SUBSET Op, fenced : BOOLEAN, unreplayed : SUBSET Op, wire : Seq(OpMessageType)]
OpsTypeOK ==
  /\ ledger \in [Op -> {"none", "queued", "terminal", "acknowledged"}]
  /\ process \in Nat \ {0}
  /\ revised \subseteq Op
  /\ receipt \in [Op -> {"none", "sent", "received"}]
  /\ source \in [{"active", "candidate"} -> {NoSource} \cup SourceType]
  /\ serving \in BOOLEAN
  /\ adopted \in 0 .. process
  /\ record \in [Op -> {"none", "accepted", "terminal"}]
  /\ terminal \in Seq([op : Op, body : {Exact, Evicted}])
  /\ Len(terminal) <= ReplayLimit
  /\ \A i, j \in DOMAIN terminal : terminal[i].op = terminal[j].op => i = j
  /\ repairs \subseteq Op
  /\ dedicated \in [Op -> {"none", "connecting", "open", "served", "lost", Exact, Evicted}]
  /\ framed \in [Op -> {NotQueued, Exact, Evicted}]
  /\ handled \in [Op -> Seq({Exact, Evicted})]
  /\ acks \subseteq Op
  /\ ackRequest \in {NoRequest} \cup [answer : {"awaited", "ok", "failed"}, batch : SUBSET Op]
  /\ forgone \subseteq Op
  /\ opsLeft \in [{"operations", "faults", "restarts", "turns"} -> Nat]

(***************************************************************************)
(* However often a terminal is replayed, published and received, the       *)
(* handler of its operation runs at most once, and with the result itself, *)
(* never with the replacement of a result that was evicted.                *)
(***************************************************************************)
HandledOnce == \A o \in Op : handled[o] \in {<<>>, <<Exact>>}

(***************************************************************************)
(* The server is told of a terminal only after the handler ran, and until  *)
(* the journal has the acknowledgement the page goes on sending it.        *)
(***************************************************************************)
AckFollowsHandling ==
  \A o \in Op : /\ ledger[o] = "acknowledged" => handled[o] # <<>>
                /\ handled[o] # <<>> /\ ledger[o] = "terminal" => o \in acks

(***************************************************************************)
(* A terminal that the page awaits is on its way: a stream has it or will  *)
(* ask for it.                                                             *)
(***************************************************************************)
Carries(n, o) ==
  /\ InUse(n)
  /\ \/ o \in source[n].unsent \cup source[n].owed \cup source[n].unreplayed
     \/ \E i \in DOMAIN source[n].wire :
          LET m == source[n].wire[i]
          IN  IF m.type = "terminal" THEN m.op = o ELSE o \in m.ops
     \/ ~source[n].fenced /\ o \in source[n].ids
     \/ ~source[n].fenced /\ o \in revised
     \/ source[n].link = "lost" /\ (o \in source[n].ids \/ o \in revised)
OnItsWay(o) ==
  \/ \E n \in {"active", "candidate"} : Carries(n, o)
  \/ dedicated[o] \notin {"none", "served"} \/ framed[o] # NotQueued \/ o \in repairs
Awaited(o) == record[o] = "accepted" /\ ledger[o] \in {"terminal", "acknowledged"}

(***************************************************************************)
(* Whatever breaks while a server process runs, a terminal it has          *)
(* published reaches the operation that awaits it, except for the three    *)
(* losses that forgone names: the repairs that leave the server with a     *)
(* terminal's frame, a terminal that is pruned before its receipt, and     *)
(* what is evicted from repairs.                                           *)
(***************************************************************************)
PublishedReachesPage == \A o \in revised \ forgone : Awaited(o) => OnItsWay(o)
=============================================================================
