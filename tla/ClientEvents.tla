---------------------------- MODULE ClientEvents ----------------------------
(***************************************************************************)
(* How a page keeps its copy of the tmux windows (tmuxSignalState) in step *)
(* with the server over /api/client-events.  The event watcher of the      *)
(* server publishes one keyed patch per revision of the resource           *)
(* tmux_signals_changed; the broker keeps at most one queued event of it   *)
(* per subscriber; the page accepts a patch only on the revision before    *)
(* it, applies what it has accepted once per frame, and reads the whole    *)
(* state back over HTTP when a patch or a reconnect leaves a gap.  The     *)
(* page has one active stream and, while its demand changes, a candidate   *)
(* that is not trusted before its ready fence.                             *)
(*                                                                         *)
(* Source: 99_client_event_transport.js, 00_bootstrap_state.js,            *)
(* 99_terminal_boot.js, and client_events.py, app.py, server.py for the    *)
(* server's half.                                                          *)
(***************************************************************************)
EXTENDS Naturals, Sequences, FiniteSets

CONSTANTS Window,         \* the tmux windows
          VisibleDemand,  \* demand signatures of a page in the foreground
          HiddenDemand,   \* ... of a page in the background
          QuietDemand,    \* the signatures without a channel
          RetryLimit,     \* clientEventCandidateRetryLimit
          MaxEpochs,      \* bound: server processes
          MaxWire,        \* bound: what a connection holds before the server waits
          Budgets         \* bound: how often the windows change, the connection,
                          \*   the server or a queue fails, the user turns to other panes

ASSUME EventConstants ==
  /\ MaxEpochs \in Nat \ {0}
  /\ Budgets \subseteq [changes : [Window -> Nat], faults : Nat, turns : Nat]
  /\ "none" \notin VisibleDemand \cup HiddenDemand

VARIABLES windows,         \* what tmux has: the version of every window
          epoch,           \* the server process
          payloads,        \* per epoch, its baseline and what it published since
          stream,          \* clientEventTransportState.source, replacementSource
          demand,          \* clientEventDemandDescriptor() of the page as it is
          demandSignature, \* ... as of the last applyClientEventDemand
          demandTimer,
          connected,
          resourceEpoch,
          revision,        \* resourceRevisions of the resource
          tmuxSignalState,
          queued,          \* the queue's event of the resource
          repair,          \* resourceRepairs of the resource
          stray,           \* the read of a repair that an adopted epoch dropped
          spoiled,         \* history: what damaged the copy unseen since its last repair
          left             \* what is left of the budget

serverVars == <<windows, epoch, payloads>>
demandVars == <<demand, demandSignature, demandTimer>>
copyVars == <<resourceEpoch, revision, tmuxSignalState, queued, repair, stray, spoiled>>
eventVars == <<serverVars, stream, demandVars, connected, copyVars, left>>

Demand  == VisibleDemand \cup HiddenDemand
Visible(d) == d \in VisibleDemand
Signals == [Window -> Nat]
Revisions(e) == 1 .. (Len(payloads[e]) - 1)
Payload(e, r) == payloads[e][r + 1]
Current(e) == IF payloads[e] = <<>> THEN 0 ELSE Len(payloads[e]) - 1

NoStream == [link |-> "none"]
NoEpoch  == 0
NoCopy   == [kept |-> FALSE]
Copy(data) == [windows |-> data]
NoEvent  == [rev |-> 0]
NoRepair == [target |-> 0]
Failed   == [phase |-> "failed"]
Asked    == [phase |-> "asked"]
Answered(data) == [phase |-> "answered", windows |-> data]

(***************************************************************************)
(* An EventSource as it is constructed: no subscriber yet, nothing sent.   *)
(* pending is the broker's one queued event of the resource, owed its      *)
(* place in pending_repair_resources, fenced that ready was written, wire  *)
(* what was written and not received, attempts the errors of a candidate.  *)
(***************************************************************************)
Opened(d) == [link |-> "connecting", demand |-> d, pending |-> 0, owed |-> FALSE,
              fenced |-> FALSE, wire |-> <<>>, attempts |-> 0]
Has(n)  == stream[n] # NoStream
Linked(n, l) == Has(n) /\ stream[n].link = l

Fault == left.faults > 0 /\ left' = [left EXCEPT !.faults = @ - 1]
Turn  == left.turns > 0 /\ left' = [left EXCEPT !.turns = @ - 1]

EventsInit ==
  /\ windows = [w \in Window |-> 0]
  /\ epoch = 1
  /\ payloads = [e \in 1 .. MaxEpochs |-> <<>>]
  /\ demand \in VisibleDemand
  /\ demandSignature = demand
  /\ demandTimer = FALSE
  /\ stream = [active |-> Opened(demand), candidate |-> NoStream]
  /\ connected = FALSE
  /\ resourceEpoch = NoEpoch
  /\ revision = 0
  /\ tmuxSignalState = NoCopy
  /\ queued = NoEvent
  /\ repair = NoRepair
  /\ stray = Failed
  /\ spoiled = {}
  /\ left \in Budgets

-----------------------------------------------------------------------------
(* The server.                                                             *)

TmuxChanges(w) ==
  /\ windows[w] < left.changes[w]
  /\ windows' = [windows EXCEPT ![w] = @ + 1]
  /\ UNCHANGED <<epoch, payloads, stream, demandVars, connected, copyVars, left>>

(***************************************************************************)
(* enqueue: a queued patch that is replaced leaves a base out, so its      *)
(* resource is owed a repair.                                              *)
(***************************************************************************)
Enqueue(s, r) == [s EXCEPT !.pending = r, !.owed = @ \/ s.pending # 0]
Subscribed(s) == s # NoStream /\ s.link = "open"

(***************************************************************************)
(* poll_tmux_signals_client_event_once: the first poll of a process sets   *)
(* the baseline and publishes nothing; a later one publishes a patch       *)
(* against the payload before it.                                          *)
(***************************************************************************)
HasDemand == \E n \in DOMAIN stream : Subscribed(stream[n])
PollTmuxSignals ==
  /\ HasDemand
  /\ ~(payloads[epoch] # <<>> /\ Payload(epoch, Current(epoch)) = windows)
  /\ payloads' = [payloads EXCEPT ![epoch] = Append(@, windows)]
  /\ stream' = IF payloads[epoch] = <<>> THEN stream
               ELSE [n \in DOMAIN stream |->
                       IF Subscribed(stream[n])
                         THEN Enqueue(stream[n], Current(epoch) + 1)
                         ELSE stream[n]]
  /\ UNCHANGED <<windows, epoch, demandVars, connected, copyVars, left>>

(***************************************************************************)
(* The subscriber's bounded queue is full of other resources' events: the  *)
(* oldest, this one, is dropped.  The repair it is owed travels with       *)
(* whichever event is read next; with another resource's, the page has no  *)
(* revision of this one to repair to and reads only the statuses again.    *)
(***************************************************************************)
Overflow(n) ==
  /\ Linked(n, "open") /\ stream[n].pending # 0
  /\ Fault
  /\ \E o \in BOOLEAN : stream' = [stream EXCEPT ![n].pending = 0, ![n].owed = o]
  /\ UNCHANGED <<serverVars, demandVars, connected, copyVars>>

Subscribe(n) ==
  /\ Linked(n, "connecting")
  /\ stream' = [stream EXCEPT ![n].link = "open"]
  /\ UNCHANGED <<serverVars, demandVars, connected, copyVars, left>>

Send(n, m) == [stream EXCEPT ![n].wire = Append(@, m)]

SendReady(n) ==
  /\ Linked(n, "open") /\ ~stream[n].fenced
  /\ stream' = [Send(n, [epoch |-> epoch, rev |-> Current(epoch), owed |-> FALSE, type |-> "ready"])
                 EXCEPT ![n].fenced = TRUE]
  /\ UNCHANGED <<serverVars, demandVars, connected, copyVars, left>>

NextEvent(n) ==
  /\ Linked(n, "open") /\ stream[n].fenced /\ stream[n].pending # 0
  /\ Len(stream[n].wire) < MaxWire
  /\ stream' = [Send(n, [epoch |-> epoch, rev |-> stream[n].pending, owed |-> stream[n].owed, type |-> "patch"])
                 EXCEPT ![n].pending = 0, ![n].owed = FALSE]
  /\ UNCHANGED <<serverVars, demandVars, connected, copyVars, left>>

(***************************************************************************)
(* The connection is lost: what was written may still arrive, what was     *)
(* queued does not.                                                        *)
(***************************************************************************)
Lost(s) == IF Subscribed(s) THEN [s EXCEPT !.link = "lost", !.pending = 0, !.owed = FALSE]
           ELSE s
Breaks(n) ==
  /\ Linked(n, "open")
  /\ Fault
  /\ stream' = [stream EXCEPT ![n] = Lost(@)]
  /\ UNCHANGED <<serverVars, demandVars, connected, copyVars>>

(***************************************************************************)
(* A new server process: every stream is lost, every read fails.           *)
(***************************************************************************)
Restart ==
  /\ epoch < MaxEpochs
  /\ Fault
  /\ epoch' = epoch + 1
  /\ stream' = [n \in DOMAIN stream |-> Lost(stream[n])]
  /\ repair' = IF repair = NoRepair THEN repair ELSE [repair EXCEPT !.read = Failed]
  /\ stray' = Failed
  /\ UNCHANGED <<windows, payloads, demandVars, connected, resourceEpoch, revision,
                 tmuxSignalState, queued, spoiled>>

-----------------------------------------------------------------------------
(* The page: demand.                                                       *)

(***************************************************************************)
(* applyClientEventDemand with the demand d, after its caller has brought  *)
(* the streams and the signature to what is given.                         *)
(***************************************************************************)
ApplyClientEventDemand(d, streams, signature, on) ==
  LET same == d = signature
      replaces == ~same /\ streams.active # NoStream
      role == IF replaces THEN "candidate" ELSE "active"
  IN  /\ demandTimer' = FALSE
      /\ demandSignature' = IF same /\ streams.active # NoStream THEN signature ELSE d
      /\ \/ /\ same
            /\ streams.active # NoStream \/ d \in QuietDemand
            /\ stream' = streams
            /\ connected' = on
         \/ /\ ~same /\ d \in QuietDemand
            /\ stream' = [n \in DOMAIN streams |-> NoStream]
            /\ connected' = FALSE
         \/ /\ ~same \/ streams.active = NoStream
            /\ d \notin QuietDemand
            /\ stream' = [streams EXCEPT ![role] = Opened(d)]
            /\ connected' = on

(***************************************************************************)
(* The user looks at other panes: the demand is applied after a debounce.  *)
(***************************************************************************)
ChangePanes(d) ==
  /\ Turn
  /\ d # demand /\ Visible(d) = Visible(demand)
  /\ demand' = d
  /\ demandTimer' = TRUE
  /\ UNCHANGED <<serverVars, stream, demandSignature, connected, copyVars>>

DemandTimer ==
  /\ demandTimer
  /\ ApplyClientEventDemand(demand, stream, demandSignature, connected)
  /\ UNCHANGED <<serverVars, demand, copyVars, left>>

(***************************************************************************)
(* visibilitychange: the demand is applied at once.                        *)
(***************************************************************************)
VisibilityChange(d) ==
  /\ Turn
  /\ Visible(d) # Visible(demand)
  /\ demand' = d
  /\ ApplyClientEventDemand(d, stream, demandSignature, connected)
  /\ UNCHANGED <<serverVars, copyVars>>

-----------------------------------------------------------------------------
(* The page: its copy of the state.                                        *)

(***************************************************************************)
(* What one envelope does to the copy, a record of the page's variables,   *)
(* is built from these.                                                    *)
(***************************************************************************)
Page == [epoch |-> resourceEpoch, rev |-> revision, state |-> tmuxSignalState,
         event |-> queued, repair |-> repair, stray |-> stray, spoiled |-> spoiled]
SetPage(p) ==
  /\ resourceEpoch' = p.epoch /\ revision' = p.rev /\ tmuxSignalState' = p.state
  /\ queued' = p.event /\ repair' = p.repair /\ stray' = p.stray /\ spoiled' = p.spoiled

(***************************************************************************)
(* adoptServerEpoch: revisions and repairs restart with the epoch, and     *)
(* the epoch generation turns stale what is queued.  A repair that is      *)
(* dropped here still has its read on the way.  The copy is kept: unless   *)
(* the ready has a revision to repair to, the patches of the new process   *)
(* go over what the old one left.                                          *)
(***************************************************************************)
\* Wrong variant: the revision of another epoch is kept.
AdoptEpochOnly(p, e) == [p EXCEPT !.epoch = e]
AdoptServerEpoch(p, e) ==
  IF p.epoch = e THEN p
  ELSE [p EXCEPT !.epoch = e, !.rev = 0, !.repair = NoRepair,
                 !.event = IF p.event = NoEvent THEN NoEvent ELSE [p.event EXCEPT !.stale = TRUE],
                 !.stray = IF p.repair = NoRepair THEN p.stray ELSE p.repair.read,
                 !.spoiled = IF p.state = NoCopy THEN @ ELSE @ \cup {"carried"}]

(***************************************************************************)
(* repairClientEventPatchResource: one read at a time; a later target only *)
(* moves the goal of the one that runs.                                    *)
(***************************************************************************)
RepairClientEventPatchResource(p, e, r) ==
  IF r = 0 THEN p
  ELSE IF p.repair = NoRepair \/ p.repair.epoch # e
    THEN [p EXCEPT !.repair = [epoch |-> e, target |-> r, repairing |-> r, read |-> Asked]]
  ELSE [p EXCEPT !.repair.target = IF r > @ THEN r ELSE @]

(***************************************************************************)
(* applyClientEventKeyedPatch: the changed windows of revision r over the  *)
(* copy as it is; without a copy there is nothing to patch.                *)
(***************************************************************************)
Changed(e, r) == {w \in Window : Payload(e, r)[w] # Payload(e, r - 1)[w]}
ApplyClientEventKeyedPatch(state, m) ==
  IF state = NoCopy THEN NoCopy
  ELSE [state EXCEPT !.windows = [w \in Window |->
          IF w \in Changed(m.epoch, m.rev) THEN Payload(m.epoch, m.rev)[w] ELSE @[w]]]

(***************************************************************************)
(* flushQueuedClientPushEvents                                             *)
(***************************************************************************)
FlushQueuedClientPushEvents(p) ==
  [p EXCEPT !.event = NoEvent,
            !.state = IF p.event.stale THEN @ ELSE ApplyClientEventKeyedPatch(@, p.event)]

(***************************************************************************)
(* queueClientPushEvent: the queue holds one event of a resource, the last *)
(* one, and a page in the background has no frames and flushes at once.    *)
(***************************************************************************)
QueueClientPushEvent(p, m) ==
  LET next == [p EXCEPT !.event = [epoch |-> m.epoch, rev |-> m.rev, stale |-> FALSE],
                        !.spoiled = IF p.event # NoEvent /\ ~p.event.stale
                                      THEN @ \cup {"overwritten"} ELSE @]
  IN  IF Visible(demand) THEN next ELSE FlushQueuedClientPushEvents(next)

(***************************************************************************)
(* handleClientPushEvent and clientEventEnvelopeIsCurrent.                 *)
(***************************************************************************)
\* Wrong variant: a patch is accepted over a gap.
OnAnyBase(p, m) == m.rev > p.rev
OnBase(p, m) == m.rev = p.rev + 1
HandleClientPushEvent(p, m) ==
  IF m.owed THEN RepairClientEventPatchResource(p, m.epoch, m.rev)
  ELSE LET q == AdoptServerEpoch(p, m.epoch)
       IN  IF m.rev <= q.rev THEN q
           ELSE IF ~OnBase(q, m) THEN RepairClientEventPatchResource(q, m.epoch, m.rev)
           ELSE QueueClientPushEvent([q EXCEPT !.rev = m.rev], m)

(***************************************************************************)
(* The ready listener: in a new epoch every revision the server has, and   *)
(* in the same one every revision the page lacks, is repaired.             *)
(***************************************************************************)
HandleReady(p, m) ==
  LET q == AdoptServerEpoch(p, m.epoch)
  IN  IF m.rev > q.rev \/ p.epoch # m.epoch
        THEN RepairClientEventPatchResource(q, m.epoch, m.rev) ELSE q

Received(s) == [s EXCEPT !.wire = Tail(@)]

(***************************************************************************)
(* ready on the candidate: it takes the active stream's place, unless the  *)
(* demand has moved on, and then another one is opened.                    *)
(***************************************************************************)
DropCandidate ==
  /\ stream["candidate"].demand # demand
  /\ ApplyClientEventDemand(demand, [stream EXCEPT !["candidate"] = NoStream],
                            demandSignature, connected)
  /\ UNCHANGED copyVars
PromoteCandidate ==
  /\ stream["candidate"].demand = demand
  /\ stream' = [active |-> Received(stream["candidate"]), candidate |-> NoStream]
  /\ connected' = TRUE
  /\ SetPage(HandleReady(Page, Head(stream["candidate"].wire)))
  /\ UNCHANGED <<demandSignature, demandTimer>>
ReceiveOnCandidate ==
  /\ Has("candidate") /\ stream["candidate"].wire # <<>>
  /\ DropCandidate \/ PromoteCandidate
  /\ UNCHANGED <<serverVars, demand, left>>

Receive ==
  /\ Has("active") /\ stream["active"].wire # <<>>
  /\ LET m == Head(stream["active"].wire)
     IN  SetPage(IF m.type = "ready" THEN HandleReady(Page, m) ELSE HandleClientPushEvent(Page, m))
  /\ stream' = [stream EXCEPT !["active"] = Received(@)]
  /\ connected' = TRUE
  /\ UNCHANGED <<serverVars, demandVars, left>>

Frame ==
  /\ queued # NoEvent /\ Visible(demand)
  /\ SetPage(FlushQueuedClientPushEvents(Page))
  /\ UNCHANGED <<serverVars, stream, demandVars, connected, left>>

-----------------------------------------------------------------------------
(* The page: errors of a stream, and repairs.                              *)

Reconnecting(s) == [Opened(s.demand) EXCEPT !.attempts = s.attempts]

(***************************************************************************)
(* The EventSource reports the loss after what it had received, or a       *)
(* refused attempt to connect, and connects again by itself.               *)
(***************************************************************************)
Errs(n) ==
  \/ Linked(n, "lost") /\ stream[n].wire = <<>>
  \/ Linked(n, "connecting")

ActiveError ==
  /\ Errs("active")
  /\ stream' = [stream EXCEPT !["active"] = Reconnecting(@)]
  /\ connected' = FALSE
  /\ UNCHANGED <<serverVars, demandVars, copyVars, left>>

(***************************************************************************)
(* A candidate is given up after RetryLimit errors, and the demand is      *)
(* driven again as if it had never been applied.                           *)
(***************************************************************************)
Unapplied == "none"
\* Wrong variant: the signature stays that of the candidate.
AbandonInPlace ==
  ApplyClientEventDemand(demand, [stream EXCEPT !["candidate"] = NoStream], demandSignature, FALSE)
AbandonCandidate ==
  ApplyClientEventDemand(demand, [stream EXCEPT !["candidate"] = NoStream], Unapplied, FALSE)
CandidateError ==
  /\ Errs("candidate")
  /\ \/ /\ stream["candidate"].attempts + 1 < RetryLimit
        /\ stream' = [stream EXCEPT !["candidate"] =
                        [Reconnecting(@) EXCEPT !.attempts = stream["candidate"].attempts + 1]]
        /\ UNCHANGED <<demandSignature, demandTimer, connected>>
     \/ /\ stream["candidate"].attempts + 1 >= RetryLimit
        /\ AbandonCandidate
  /\ UNCHANGED <<serverVars, demand, copyVars, left>>

(***************************************************************************)
(* The server reads tmux for a repair.                                     *)
(***************************************************************************)
ServeRead ==
  /\ repair # NoRepair /\ repair.read = Asked
  /\ \/ repair' = [repair EXCEPT !.read = Answered(windows)]
     \/ repair' = [repair EXCEPT !.read = Failed]
  /\ UNCHANGED <<serverVars, stream, demandVars, connected, resourceEpoch, revision,
                 tmuxSignalState, queued, stray, spoiled, left>>

(***************************************************************************)
(* refreshTmuxSignalsSnapshot and the rest of the repair loop: the copy is *)
(* replaced; if the target has moved the read starts over, otherwise the   *)
(* revision is the one that was repaired, and whatever damaged the copy is *)
(* made good, unless a queued patch is older than what was read.  A failed *)
(* read ends the repair.                                                   *)
(***************************************************************************)
RepairEnds ==
  /\ repair # NoRepair
  /\ \/ /\ repair.read.phase = "answered"
        /\ tmuxSignalState' = Copy(repair.read.windows)
        /\ \/ /\ repair.target # repair.repairing
              /\ repair' = [repair EXCEPT !.repairing = repair.target, !.read = Asked]
              /\ UNCHANGED <<revision, spoiled>>
           \/ /\ repair.target = repair.repairing
              /\ repair' = NoRepair
              /\ revision' = repair.repairing
              /\ spoiled' = IF queued = NoEvent \/ queued.stale THEN {} ELSE spoiled \cup {"undone"}
     \/ /\ repair.read = Failed
        /\ repair' = NoRepair
        /\ spoiled' = spoiled \cup {"unrepaired"}
        /\ UNCHANGED <<tmuxSignalState, revision>>
  /\ UNCHANGED <<serverVars, stream, demandVars, connected, resourceEpoch, queued, stray, left>>

(***************************************************************************)
(* A stray read is answered: its snapshot is applied before the loop finds *)
(* that its epoch is over.  It may be older than the revision, which only  *)
(* a repair that runs makes good.                                          *)
(***************************************************************************)
StrayAnswer ==
  /\ stray # Failed
  /\ stray' = Failed
  /\ tmuxSignalState' = Copy(IF stray = Asked THEN windows ELSE stray.windows)
  /\ spoiled' = IF repair = NoRepair THEN spoiled \cup {"stray"} ELSE spoiled
  /\ UNCHANGED <<serverVars, stream, demandVars, connected, resourceEpoch, revision, queued, repair, left>>

-----------------------------------------------------------------------------
EventServer == (\E w \in Window : TmuxChanges(w)) \/ PollTmuxSignals \/ Restart \/ ServeRead
EventStream(n) == Overflow(n) \/ Subscribe(n) \/ SendReady(n) \/ NextEvent(n) \/ Breaks(n)
EventPage ==
  \/ \E d \in Demand : ChangePanes(d) \/ VisibilityChange(d)
  \/ DemandTimer \/ ReceiveOnCandidate \/ Receive \/ Frame
  \/ ActiveError \/ CandidateError \/ RepairEnds \/ StrayAnswer

EventsNext == EventServer \/ (\E n \in {"active", "candidate"} : EventStream(n)) \/ EventPage
EventsSpec == EventsInit /\ [][EventsNext]_eventVars

-----------------------------------------------------------------------------
(***************************************************************************)
(* The page's variables keep to their values, and the revision it counts   *)
(* up to is one that the server process it has adopted has published.      *)
(***************************************************************************)
MessageType == [epoch : 1 .. MaxEpochs, rev : Nat, owed : BOOLEAN, type : {"ready", "patch"}]
StreamType == [link : {"connecting", "open", "lost"}, demand : Demand, pending : Nat,
               owed : BOOLEAN, fenced : BOOLEAN, wire : Seq(MessageType), attempts : Nat]
ReadType == {Failed, Asked} \cup [phase : {"answered"}, windows : Signals]
EventsTypeOK ==
  /\ windows \in Signals
  /\ epoch \in 1 .. MaxEpochs
  /\ payloads \in [1 .. MaxEpochs -> Seq(Signals)]
  /\ stream \in [{"active", "candidate"} -> {NoStream} \cup StreamType]
  /\ demand \in Demand
  /\ demandSignature \in Demand
  /\ {demandTimer, connected} \subseteq BOOLEAN
  /\ resourceEpoch \in 0 .. MaxEpochs
  /\ revision \in {0} \cup UNION {Revisions(e) : e \in {resourceEpoch} \ {NoEpoch}}
  /\ tmuxSignalState \in {NoCopy} \cup [windows : Signals]
  /\ queued \in {NoEvent} \cup [epoch : 1 .. MaxEpochs, rev : Nat, stale : BOOLEAN]
  /\ repair \in {NoRepair} \cup
       [epoch : 1 .. MaxEpochs, target : Nat, repairing : Nat, read : ReadType]
  /\ stray \in ReadType
  /\ spoiled \subseteq {"overwritten", "undone", "unrepaired", "carried", "stray"}
  /\ left \in Budgets \cup [changes : {b.changes : b \in Budgets}, faults : Nat, turns : Nat]

(***************************************************************************)
(* Once what was accepted is applied and no repair runs, the copy has at   *)
(* least what the page's revision says: the base check, the revisions that *)
(* restart with the epoch and the epoch generation of the queue keep a     *)
(* patch from being applied over anything but its base.  The exceptions    *)
(* are what spoiled names, which no check of the page sees and the next    *)
(* repair makes good (README): a patch overwritten in the queue or older   *)
(* than the read it is applied over, a repair or its answer that failed or *)
(* came late, and a copy carried over into another server process.         *)
(***************************************************************************)
Settled == queued = NoEvent /\ repair = NoRepair
Trusted == tmuxSignalState # NoCopy /\ spoiled = {}
RevisionIsHonest ==
  Settled /\ Trusted =>
    /\ revision > 0
    /\ \A w \in Window : tmuxSignalState.windows[w] >= Payload(resourceEpoch, revision)[w]

(***************************************************************************)
(* An active stream with no candidate beside it was opened for what the    *)
(* page demands now, unless the change is still in its debounce: neither a *)
(* promotion, nor a candidate that is dropped or given up, leaves the page *)
(* on the stream of an old demand.                                         *)
(***************************************************************************)
CoversDemand ==
  Has("active") /\ ~Has("candidate") /\ ~demandTimer => stream["active"].demand = demand
=============================================================================
