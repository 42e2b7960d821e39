------------------------- MODULE BrokerAnswerProofs -------------------------
(***************************************************************************)
(* What becomes of a worker's answer, for every value of the constants:    *)
(* a running record is awaited, an answer that had arrived decides the     *)
(* record, a terminal state stays, and the product store keeps what it     *)
(* answered for.                                                           *)
(*                                                                         *)
(* None of these is inductive.  They rest on what the off-lock half of the *)
(* pump assumes without looking: a record that has a future was started    *)
(* and is never queued again, the record whose executor is in hand has no  *)
(* future yet, and a running record's future is of the executor that the   *)
(* record names.                                                           *)
(***************************************************************************)
EXTENDS BrokerTypeProofs

Started(j) == j \in dispatch \/ j \in attached \/ j \in finalizing \/ future[j] # "none"

StartedOnly == \A j \in Job : Started(j) => status[j] \notin {"absent", "queued"}

HeldIsUnsubmitted == \A j \in Job : Holds(j) => future[j] = "none"

\* Its own executor's live worker owes the answer, or the future has it.
Owed(j) ==
  /\ j \in dispatch \/ (j \in attached /\ future[j] # "none")
  /\ future[j] # "none" =>
       home[j] = sgen[j] /\ (future[j] \in Finished \/ <<slot[j], home[j]>> \in alive)

Awaited == ~ down => \A j \in Job : status[j] = "running" => Owed(j)

ArtifactKind ==
  \A j \in Job : future[j] = "artifact" \/ j \in finalizing => request[j].kind = "transfer"

\* What had been answered when the pass began is handled before a deadline is looked at.
AnsweredFirst ==
  \A j \in answered :
    /\ status[j] \notin {"absent", "queued"}
    /\ status[j] = "running" /\ request[j].kind # "transfer" => phase = "finish" /\ j \in due

WorkInv == StartedOnly /\ HeldIsUnsubmitted /\ Awaited /\ ArtifactKind /\ AnsweredFirst

\* The part of the state that WorkInv depends on.
workView == <<status, request, slot, sgen, attached, future, home, alive, phase, due, answered,
              finalizing, dispatch, holding, down>>

Futures == {"none"} \cup Unfinished \cup Finished

\* The types that a step needs, with the fence that a running record has not met (SlotInv).
WorkTypes ==
  /\ status \in [Job -> Statuses] /\ request \in [Job -> Request \cup {NoRequest}]
  /\ slot \in [Job -> Slot \cup {NoSlot}] /\ sgen \in [Job -> Nat]
  /\ future \in [Job -> Futures] /\ home \in [Job -> Nat]
  /\ attached \subseteq Job /\ finalizing \subseteq Job /\ dispatch \subseteq Job
  /\ answered \subseteq Job /\ due \subseteq Job
  /\ \A j \in Job : status[j] # "absent" => request[j] \in Request
  /\ \A j \in Job : status[j] = "running" => ~ Fenced(j)

\* While the broker is up its state is typed and no running record is fenced.
LEMMA TypesOfStep == SlotInv /\ TypeInv /\ ~ down => WorkTypes
BY DEF SlotInv, RunningUnfenced, TypeInv, TypeOK, Accepted, WorkTypes, Statuses, Futures, Fenced

\* No state of a future that exists is taken for its absence.
LEMMA FuturesAreTyped == \A f \in Finished \cup Unfinished : f # "none"
BY DEF Finished, Unfinished

\* A step that leaves the view alone keeps the invariant.
LEMMA WorkStutter == WorkInv /\ UNCHANGED workView => WorkInv'
BY DEF WorkInv, workView, StartedOnly, Started, HeldIsUnsubmitted, Holds, Awaited, Owed,
       ArtifactKind, AnsweredFirst

-----------------------------------------------------------------------------
(* Steps of a refresh *)

\* A step that starts nothing, settles some records, and only lets go of futures whose record
\* is settled keeps what the futures of the others promise.
LEMMA SettlingKeepsWork ==
  ASSUME WorkTypes, WorkInv, status' \in [Job -> Statuses],
         \A j \in Job : status'[j] = "running" => status[j] = "running",
         \A j \in Job : status'[j] \in {"absent", "queued"} => status[j] \in {"absent", "queued"},
         attached' \subseteq attached, \A j \in attached : status'[j] = "running" => j \in attached',
         dispatch' \subseteq dispatch, \A j \in dispatch : status'[j] = "running" => j \in dispatch',
         UNCHANGED <<slot, sgen, future, home, alive, holding, down>>
  PROVE  /\ (\A j \in finalizing' : j \in finalizing \/ future[j] = "artifact") => StartedOnly'
         /\ HeldIsUnsubmitted' /\ Awaited'
<1>1. (\A j \in finalizing' : j \in finalizing \/ future[j] = "artifact") => StartedOnly'
  BY DEF WorkInv, StartedOnly, Started
<1>2. HeldIsUnsubmitted'
  BY DEF WorkInv, HeldIsUnsubmitted, Holds
<1>3. Awaited'
  BY DEF WorkInv, Awaited, Owed
<1> QED
  BY <1>1, <1>2, <1>3

\* An answer settles the record that still runs, and is let go of only when no record waits for it;
\* a delivered inline answer always settles its record.
LEMMA HandleFinishedFutureWork ==
  ASSUME WorkTypes, WorkInv, NEW j \in Job, HandleFinishedFuture(j)
  PROVE  WorkInv'
<1>1. /\ UNCHANGED <<request, slot, sgen, future, home, alive, phase, answered, dispatch, holding, down>>
      /\ phase = "finish" /\ due' = due \ {j}
  BY DEF HandleFinishedFuture, workerVars, slotVars, lifeVars
<1>2. \/ /\ status[j] # "running" /\ attached' = attached \ {j}
         /\ UNCHANGED <<status, finalizing>>
      \/ /\ status[j] = "running" /\ status' \in {[status EXCEPT ![j] = r] : r \in {"completed", "failed"}}
         /\ UNCHANGED <<attached, finalizing>>
      \/ /\ status[j] = "running" /\ future[j] = "artifact"
         /\ finalizing' \in {finalizing, finalizing \cup {j}}
         /\ UNCHANGED <<status, attached>>
  <2>1. CASE Abandon(j)
    BY <2>1 DEF Abandon, WorkTypes, Settled
  <2>2. CASE Complete(j)
    BY <2>2 DEF Complete, Claimable
  <2>3. CASE FailWith(j)
    BY <2>3 DEF FailWith, Claimable
  <2>4. CASE ClaimArtifact(j)
    BY <2>4 DEF ClaimArtifact, Claimable
  <2> QED
    BY <2>1, <2>2, <2>3, <2>4 DEF HandleFinishedFuture
<1>3. /\ status' \in [Job -> Statuses]
      /\ \A i \in Job : status'[i] = "running" => status[i] = "running"
      /\ \A i \in Job : status'[i] \in {"absent", "queued"} => status[i] \in {"absent", "queued"}
  BY <1>2 DEF WorkTypes, Statuses, Settled
<1>4. attached' \subseteq attached /\ \A i \in attached : status'[i] = "running" => i \in attached'
  BY <1>2 DEF WorkTypes
<1>5. \A i \in finalizing' : i \in finalizing \/ future[i] = "artifact"
  BY <1>2
<1>6. StartedOnly' /\ HeldIsUnsubmitted' /\ Awaited'
  BY <1>1, <1>3, <1>4, <1>5, SettlingKeepsWork
<1>7. ArtifactKind'
  BY <1>1, <1>5 DEF WorkInv, ArtifactKind
<1>8. AnsweredFirst'
  <2>1. status[j] = "running" /\ request[j].kind # "transfer" => status'[j] # "running"
    BY <1>2 DEF WorkInv, ArtifactKind, WorkTypes
  <2> QED
    BY <1>1, <1>3, <2>1 DEF WorkInv, AnsweredFirst, WorkTypes
<1> QED
  BY <1>6, <1>7, <1>8 DEF WorkInv

\* A deadline settles its record and cancels at most what no worker had begun.
LEMMA ExpireDeadlineWork ==
  ASSUME WorkTypes, WorkInv, NEW j \in Job, ExpireDeadline(j)
  PROVE  WorkInv'
<1>1. /\ UNCHANGED <<request, slot, sgen, attached, home, alive, phase, answered, finalizing, dispatch,
                     holding, down>>
      /\ phase = "expire" /\ due' = due \ {j} /\ status' = [status EXCEPT ![j] = "timed_out"]
  BY DEF ExpireDeadline, pumpVars, lifeVars
<1>2. \A i \in Job : future'[i] = future[i] \/ (future[i] = "pending" /\ future'[i] = "cancelled")
  <2>1. CASE UNCHANGED future
    BY <2>1
  <2>2. CASE QuarantineSlot(slot[j])
    BY <2>2 DEF QuarantineSlot, WorkTypes
  <2> QED
    BY <2>1, <2>2 DEF ExpireDeadline
<1>3. /\ status' \in [Job -> Statuses] /\ status'[j] = "timed_out"
      /\ \A i \in Job \ {j} : status'[i] = status[i]
  BY <1>1 DEF WorkTypes, Statuses, Settled
<1>4. StartedOnly'
  BY <1>1, <1>2, <1>3 DEF WorkInv, StartedOnly, Started
<1>5. HeldIsUnsubmitted'
  BY <1>1, <1>2 DEF WorkInv, HeldIsUnsubmitted, Holds
<1>6. Awaited'
  BY <1>1, <1>2, <1>3 DEF WorkInv, Awaited, Owed, Finished
<1>7. ArtifactKind'
  BY <1>1, <1>2 DEF WorkInv, ArtifactKind
<1>8. AnsweredFirst'
  BY <1>1, <1>3 DEF WorkInv, AnsweredFirst, WorkTypes
<1> QED
  BY <1>4, <1>5, <1>6, <1>7, <1>8 DEF WorkInv

\* Deadlines are looked at once every answer has been handled.
LEMMA EndFinishedFuturesWork ==
  ASSUME WorkInv, EndFinishedFutures
  PROVE  WorkInv'
<1>1. /\ UNCHANGED <<status, request, slot, sgen, attached, future, home, alive, answered, finalizing,
                     dispatch, holding, down>>
      /\ due = {}
  BY DEF EndFinishedFutures, recordVars, workerVars, pumpVars, lifeVars
<1> QED
  BY <1>1 DEF WorkInv, StartedOnly, Started, HeldIsUnsubmitted, Holds, Awaited, Owed, ArtifactKind,
              AnsweredFirst

\* Pruning only takes settled records away.
LEMMA PruneRecordsWork ==
  ASSUME WorkTypes, WorkInv, PruneRecords
  PROVE  WorkInv'
<1>1. /\ UNCHANGED <<request, slot, sgen, attached, future, home, alive, answered, finalizing, dispatch,
                     holding, down>>
      /\ due = {} /\ phase = "expire"
  BY DEF PruneRecords, workerVars, slotVars, pumpVars, lifeVars
<1>2. PICK P \in SUBSET {i \in Job : status[i] \in Settled} :
        status' = [i \in Job |-> IF i \in P THEN "pruned" ELSE status[i]]
  BY DEF PruneRecords
<1>3. /\ status' \in [Job -> Statuses]
      /\ \A i \in Job : status'[i] = status[i] \/ status'[i] = "pruned"
  BY <1>2 DEF WorkTypes, Statuses
<1>4. StartedOnly' /\ HeldIsUnsubmitted' /\ Awaited'
  BY <1>1, <1>3, SettlingKeepsWork
<1>5. ArtifactKind'
  BY <1>1 DEF WorkInv, ArtifactKind
<1>6. AnsweredFirst'
  BY <1>1, <1>3 DEF WorkInv, AnsweredFirst, WorkTypes
<1> QED
  BY <1>4, <1>5, <1>6 DEF WorkInv

-----------------------------------------------------------------------------
(* Steps of a handler and of the pump *)

\* A pass begins with the futures that have finished, none of which is of a queued record.
LEMMA BeginWork ==
  ASSUME WorkTypes, WorkInv, BeginPump \/ BeginCall
  PROVE  WorkInv'
<1>1. /\ UNCHANGED <<status, request, slot, sgen, attached, future, home, alive, finalizing, dispatch,
                     holding, down>>
      /\ phase' = "finish" /\ due' = FinishedFutures /\ answered' = FinishedFutures
  BY DEF BeginPump, BeginCall, BeginRefresh, recordVars, workerVars, slotVars, pumpVars, lifeVars
<1>2. StartedOnly' /\ HeldIsUnsubmitted' /\ Awaited' /\ ArtifactKind'
  BY <1>1 DEF WorkInv, StartedOnly, Started, HeldIsUnsubmitted, Holds, Awaited, Owed, ArtifactKind
<1>3. AnsweredFirst'
  BY <1>1 DEF WorkInv, StartedOnly, Started, AnsweredFirst, FinishedFutures, WorkTypes
<1> QED
  BY <1>2, <1>3 DEF WorkInv

\* A pass ends: what it knew is forgotten.
LEMMA ReleaseWork ==
  ASSUME WorkInv, Release,
         UNCHANGED <<status, request, slot, sgen, attached, future, home, alive, finalizing, dispatch,
                     holding, down>>
  PROVE  WorkInv'
<1>1. answered' = {}
  BY DEF Release
<1> QED
  BY <1>1 DEF WorkInv, StartedOnly, Started, HeldIsUnsubmitted, Holds, Awaited, Owed, ArtifactKind,
              AnsweredFirst

\* The record a submission adds has never been started.
LEMMA QueueRecordWork ==
  ASSUME WorkTypes, WorkInv, NEW j \in Job, QueueRecord(j)
  PROVE  WorkInv'
<1>1. /\ UNCHANGED <<slot, sgen, attached, future, home, alive, finalizing, dispatch, holding, down>>
      /\ answered' = {} /\ status[j] = "absent"
      /\ request' = [request EXCEPT ![j] = call.req]
      /\ status' = [i \in Job |-> IF i = j THEN "queued"
                                  ELSE IF Supersedes(i, call.req) THEN "superseded" ELSE status[i]]
  BY DEF QueueRecord, EndCall, Release, Fresh, workerVars, slotVars, pumpVars, lifeVars
<1>2. /\ status'[j] = "queued" /\ ~ Started(j)
      /\ \A i \in Job \ {j} : /\ status'[i] = status[i] \/ (status[i] = "queued" /\ status'[i] = "superseded")
                              /\ request'[i] = request[i]
  BY <1>1 DEF Supersedes, WorkTypes, WorkInv, StartedOnly
<1>3. StartedOnly'
  BY <1>1, <1>2 DEF WorkInv, StartedOnly, Started
<1>4. HeldIsUnsubmitted'
  BY <1>1 DEF WorkInv, HeldIsUnsubmitted, Holds
<1>5. Awaited'
  BY <1>1, <1>2 DEF WorkInv, Awaited, Owed
<1>6. ArtifactKind'
  BY <1>1, <1>2 DEF WorkInv, ArtifactKind, Started
<1>7. AnsweredFirst'
  BY <1>1 DEF AnsweredFirst
<1> QED
  BY <1>3, <1>4, <1>5, <1>6, <1>7 DEF WorkInv

\* A cancel settles what has not begun, and cancels its future with it.
LEMMA CancelWork ==
  ASSUME WorkTypes, WorkInv, NEW j \in Job, Cancel(j)
  PROVE  WorkInv'
<1>1. UNCHANGED <<request, slot, sgen, attached, home, alive, phase, due, answered, finalizing, dispatch,
                  holding, down>>
  BY DEF Cancel, slotVars, lockVars, pumpVars, lifeVars
<1>2. \/ UNCHANGED <<status, future>>
      \/ /\ status' = [status EXCEPT ![j] = "cancelled"]
         /\ future' = future \/ (future[j] = "pending" /\ future' = [future EXCEPT ![j] = "cancelled"])
  BY DEF Cancel, CancelQueued, CancelPending, RefuseCancel, CancelNothing
<1>3. \A i \in Job : status'[i] = status[i] \/ status'[i] = "cancelled"
  BY <1>2 DEF WorkTypes
<1>4. \A i \in Job : future'[i] = future[i] \/ (future[i] = "pending" /\ future'[i] = "cancelled")
  BY <1>2 DEF WorkTypes
<1>5. StartedOnly'
  BY <1>1, <1>3, <1>4 DEF WorkInv, StartedOnly, Started
<1>6. HeldIsUnsubmitted'
  BY <1>1, <1>4 DEF WorkInv, HeldIsUnsubmitted, Holds
<1>7. Awaited'
  BY <1>1, <1>3, <1>4 DEF WorkInv, Awaited, Owed, Finished
<1>8. ArtifactKind'
  BY <1>1, <1>4 DEF WorkInv, ArtifactKind
<1>9. AnsweredFirst'
  BY <1>1, <1>3 DEF WorkInv, AnsweredFirst, WorkTypes
<1> QED
  BY <1>5, <1>6, <1>7, <1>8, <1>9 DEF WorkInv

\* A queued record is settled, or set running and handed to the dispatch loop with no future.
LEMMA SelectQueuedWork ==
  ASSUME WorkTypes, WorkInv, NEW l \in Lane, NEW j \in Job, SelectQueued(l, j)
  PROVE  WorkInv'
<1>1. /\ UNCHANGED <<request, attached, future, home, alive, phase, due, answered, finalizing, holding, down>>
      /\ status[j] = "queued"
  BY DEF SelectQueued, IsNextQueued, workerVars, slotVars, lockVars, lifeVars
<1>2. ~ Started(j) /\ j \notin answered
  BY <1>1 DEF WorkInv, StartedOnly, AnsweredFirst
<1>3. \/ /\ \E r \in {"superseded", "timed_out", "failed"} : status' = [status EXCEPT ![j] = r]
         /\ UNCHANGED <<slot, sgen, dispatch>>
      \/ /\ status' = [status EXCEPT ![j] = "running"] /\ dispatch' = dispatch \cup {j}
         /\ \E s \in Slot : slot' = [slot EXCEPT ![j] = s] /\ sgen' = [sgen EXCEPT ![j] = egen[s]]
  BY DEF SelectQueued, FreeSlots, Supersede, ExpireAtDispatch, RefuseQuarantined, MarkRunning
<1>4. /\ status'[j] \notin {"absent", "queued"}
      /\ \A i \in Job \ {j} : status'[i] = status[i] /\ slot'[i] = slot[i] /\ sgen'[i] = sgen[i]
  BY <1>3 DEF WorkTypes
<1>5. dispatch' = dispatch \/ dispatch' = dispatch \cup {j}
  BY <1>3
<1>6. status'[j] = "running" => j \in dispatch'
  BY <1>3 DEF WorkTypes
<1>7. StartedOnly'
  BY <1>1, <1>4, <1>5 DEF WorkInv, StartedOnly, Started
<1>8. HeldIsUnsubmitted'
  BY <1>1, <1>2, <1>5 DEF WorkInv, HeldIsUnsubmitted, Holds, Started
<1>9. Awaited'
  BY <1>1, <1>2, <1>4, <1>5, <1>6 DEF WorkInv, Awaited, Owed, Started
<1>10. ArtifactKind'
  BY <1>1 DEF WorkInv, ArtifactKind
<1>11. AnsweredFirst'
  BY <1>1, <1>2, <1>4 DEF WorkInv, AnsweredFirst, WorkTypes
<1> QED
  BY <1>7, <1>8, <1>9, <1>10, <1>11 DEF WorkInv

\* Adopting an artifact settles a record that still runs, and lets go of its future.
LEMMA FinalizeArtifactWork ==
  ASSUME WorkTypes, WorkInv, NEW j \in Job, NEW verified \in BOOLEAN, FinalizeArtifact(j, verified)
  PROVE  WorkInv'
<1>1. /\ UNCHANGED <<request, slot, sgen, future, home, alive, phase, due, answered, dispatch, holding, down>>
      /\ finalizing' = finalizing \ {j} /\ attached' = attached \ {j}
      /\ status' = status \/ \E r \in {"completed", "failed"} : status' = [status EXCEPT ![j] = r]
      /\ status[j] = "running" => \E r \in {"completed", "failed"} : status' = [status EXCEPT ![j] = r]
  BY DEF FinalizeArtifact, workerVars, slotVars, lockVars, lifeVars
<1>2. \A i \in Job : status'[i] = status[i] \/ status'[i] \in {"completed", "failed"}
  BY <1>1 DEF WorkTypes
<1>3. status'[j] # "running" /\ status' \in [Job -> Statuses]
  BY <1>1 DEF WorkTypes, Statuses, Settled
<1>4. StartedOnly' /\ HeldIsUnsubmitted' /\ Awaited'
  BY <1>1, <1>2, <1>3, SettlingKeepsWork DEF WorkTypes
<1>5. ArtifactKind'
  BY <1>1 DEF WorkInv, ArtifactKind
<1>6. AnsweredFirst'
  BY <1>1, <1>2 DEF WorkInv, AnsweredFirst, WorkTypes
<1> QED
  BY <1>4, <1>5, <1>6 DEF WorkInv

\* A record has no future while its executor is being fetched, and submit gives it one.
LEMMA DispatchWork ==
  ASSUME WorkTypes, WorkInv, NEW j \in Job, TakeExecutor(j) \/ Submit(j) \/ Attach(j)
  PROVE  WorkInv'
<1>1. CASE TakeExecutor(j)
  <2>1. /\ UNCHANGED <<status, request, slot, sgen, attached, future, home, alive, phase, due, answered,
                       finalizing, dispatch, down>>
        /\ \A i \in dispatch : future[i] = "none"
    BY <1>1 DEF TakeExecutor, recordVars, workerVars, lockVars, lifeVars
  <2> QED
    BY <2>1 DEF WorkInv, StartedOnly, Started, HeldIsUnsubmitted, Holds, Awaited, Owed, ArtifactKind,
                AnsweredFirst
<1>2. CASE Submit(j)
  <2>1. /\ UNCHANGED <<status, request, slot, sgen, attached, phase, due, answered, finalizing, dispatch, down>>
        /\ j \in dispatch /\ holding.generation = egen[slot[j]]
        /\ alive' = alive \cup {<<slot[j], egen[slot[j]]>>}
        /\ future' = [future EXCEPT ![j] = "pending"] /\ home' = [home EXCEPT ![j] = holding.generation]
        /\ holding' = NotHolding
    BY <1>2 DEF Submit, Holds, recordVars, lockVars, lifeVars
  <2>2. \A i \in Job \ {j} : future'[i] = future[i] /\ home'[i] = home[i]
    BY <2>1 DEF WorkTypes
  <2>3. future'[j] = "pending" /\ home'[j] = egen[slot[j]]
    BY <2>1 DEF WorkTypes
  <2>4. StartedOnly'
    BY <2>1, <2>2 DEF WorkInv, StartedOnly, Started
  <2>5. HeldIsUnsubmitted'
    BY <2>1 DEF HeldIsUnsubmitted, Holds, NotHolding, Job
  <2>6. Awaited'
    <3> SUFFICES ASSUME ~ down, NEW i \in Job, status[i] = "running" PROVE Owed(i)'
      BY <2>1 DEF Awaited
    <3>1. CASE i = j
      <4>1. sgen[j] = egen[slot[j]]
        BY <3>1 DEF WorkTypes, Fenced
      <4> QED
        BY <2>1, <2>3, <3>1, <4>1 DEF Owed
    <3>2. CASE i # j
      BY <2>1, <2>2, <3>2 DEF WorkInv, Awaited, Owed
    <3> QED
      BY <3>1, <3>2
  <2>7. ArtifactKind'
    BY <2>1, <2>2, <2>3 DEF WorkInv, ArtifactKind
  <2>8. AnsweredFirst'
    BY <2>1 DEF WorkInv, AnsweredFirst
  <2> QED
    BY <2>4, <2>5, <2>6, <2>7, <2>8 DEF WorkInv
<1>3. CASE Attach(j)
  <2>1. /\ UNCHANGED <<status, request, slot, sgen, future, home, alive, phase, due, answered, finalizing,
                       holding, down>>
        /\ j \in dispatch /\ future[j] # "none"
        /\ attached' = attached \cup {j} /\ dispatch' = dispatch \ {j}
    BY <1>3 DEF Attach, recordVars, workerVars, slotVars, lockVars, lifeVars
  <2> QED
    BY <2>1 DEF WorkInv, StartedOnly, Started, HeldIsUnsubmitted, Holds, Awaited, Owed, ArtifactKind,
                AnsweredFirst
<1> QED
  BY <1>1, <1>2, <1>3

\* A failed submit settles its record unseen.
LEMMA SubmitFailsWork ==
  ASSUME WorkTypes, WorkInv, NEW j \in Job, SubmitFails(j)
  PROVE  WorkInv'
<1>1. /\ UNCHANGED <<request, slot, sgen, attached, future, home, alive, phase, due, answered, finalizing, down>>
      /\ status' = [status EXCEPT ![j] = IF Recorded(j) THEN "failed" ELSE status[j]]
      /\ dispatch' = dispatch \ {j} /\ holding' = NotHolding /\ j \in dispatch
  BY DEF SubmitFails, Holds, workerVars, lockVars, lifeVars
<1>2. \A i \in Job : status'[i] = status[i] \/ status'[i] = "failed"
  BY <1>1 DEF WorkTypes
<1>3. status'[j] # "running"
  BY <1>1 DEF WorkTypes, Recorded
<1>4. StartedOnly'
  BY <1>1, <1>2 DEF WorkInv, StartedOnly, Started
<1>5. HeldIsUnsubmitted'
  BY <1>1 DEF HeldIsUnsubmitted, Holds, NotHolding, Job
<1>6. Awaited'
  BY <1>1, <1>2, <1>3 DEF WorkInv, Awaited, Owed
<1>7. ArtifactKind'
  BY <1>1 DEF WorkInv, ArtifactKind
<1>8. AnsweredFirst'
  BY <1>1, <1>2 DEF WorkInv, AnsweredFirst, WorkTypes
<1> QED
  BY <1>4, <1>5, <1>6, <1>7, <1>8 DEF WorkInv

-----------------------------------------------------------------------------
(* Workers, and the end of the broker *)

\* A worker takes up a pending future and answers it according to the kind of the task.
LEMMA WorkerWork ==
  ASSUME WorkTypes, WorkInv, NEW j \in Job, WorkerRun(j) \/ WorkerAnswer(j)
  PROVE  WorkInv'
<1>1. UNCHANGED <<status, request, slot, sgen, attached, home, alive, phase, due, answered, finalizing,
                  dispatch, holding, down>>
  BY DEF WorkerRun, WorkerAnswer, recordVars, slotVars, lockVars, pumpVars, lifeVars
<1>2. \E f \in Unfinished \cup Finished :
        /\ future' = [future EXCEPT ![j] = f]
        /\ f = "artifact" => request[j].kind = "transfer"
        /\ f \in Unfinished => future[j] \in Unfinished
  <2>1. CASE WorkerRun(j)
    BY <2>1 DEF WorkerRun, Unfinished
  <2>2. CASE WorkerAnswer(j)
    <3>1. PICK a \in Answers(request[j].kind) : future' = [future EXCEPT ![j] = a]
      BY <2>2 DEF WorkerAnswer
    <3>2. request[j].kind \in {"read", "transfer", "delete"}
      <4>1. status[j] # "absent"
        BY <2>2 DEF WorkerAnswer, WorkInv, StartedOnly, Started
      <4> QED
        BY <4>1, BrokerConstants DEF WorkTypes, BrokerConstants
    <3>3. a \in Finished /\ (a = "artifact" => request[j].kind = "transfer")
      BY <3>1, <3>2, Zenon DEF Answers, Finished
    <3>4. a \notin Unfinished
      BY <3>3 DEF Finished, Unfinished
    <3> QED
      BY <3>1, <3>3, <3>4
  <2> QED
    BY <2>1, <2>2
<1>3. future[j] # "none"
  BY DEF WorkerRun, WorkerAnswer
<1>4. PICK f \in Unfinished \cup Finished :
        /\ future' = [future EXCEPT ![j] = f]
        /\ f = "artifact" => request[j].kind = "transfer"
        /\ f \in Unfinished => future[j] \in Unfinished
  BY <1>2
<1>5. /\ future'[j] = f /\ f # "none"
      /\ \A i \in Job \ {j} : future'[i] = future[i]
  BY <1>4, FuturesAreTyped DEF WorkTypes
<1>6. StartedOnly'
  BY <1>1, <1>3, <1>5 DEF WorkInv, StartedOnly, Started
<1>7. HeldIsUnsubmitted'
  BY <1>1, <1>3, <1>5 DEF WorkInv, HeldIsUnsubmitted, Holds
<1>8. Awaited'
  BY <1>1, <1>3, <1>4, <1>5 DEF WorkInv, Awaited, Owed, Finished, Unfinished
<1>9. ArtifactKind'
  BY <1>1, <1>4, <1>5 DEF WorkInv, ArtifactKind
<1>10. AnsweredFirst'
  BY <1>1 DEF WorkInv, AnsweredFirst
<1> QED
  BY <1>6, <1>7, <1>8, <1>9, <1>10 DEF WorkInv

\* A worker that dies breaks what it owed; one that leaves owes nothing.
LEMMA WorkerEndWork ==
  ASSUME WorkTypes, WorkInv, NEW s, NEW g, WorkerCrash(s, g) \/ WorkerExit(s, g)
  PROVE  WorkInv'
<1>1. /\ UNCHANGED <<status, request, slot, sgen, attached, home, phase, due, answered, finalizing,
                     dispatch, holding, down>>
      /\ alive' = alive \ {<<s, g>>}
  BY DEF WorkerCrash, WorkerExit, recordVars, workerVars, slotVars, lockVars, pumpVars, lifeVars
<1>2. \A i \in Job : \/ future'[i] = future[i] /\ (slot[i] = s /\ home[i] = g => future[i] \notin Unfinished)
                     \/ future[i] \in Unfinished /\ future'[i] = "broken"
  BY DEF WorkerCrash, WorkerExit, On, workerVars
<1>3. \A i \in Job : future[i] \in Futures
  BY DEF WorkTypes
<1>4. StartedOnly'
  BY <1>1, <1>2 DEF WorkInv, StartedOnly, Started, Unfinished
<1>5. HeldIsUnsubmitted'
  BY <1>1, <1>2 DEF WorkInv, HeldIsUnsubmitted, Holds, Unfinished
<1>6. Awaited'
  <2> SUFFICES ASSUME ~ down, NEW i \in Job, status[i] = "running" PROVE Owed(i)'
    BY <1>1 DEF Awaited
  <2>1. Owed(i)
    BY DEF WorkInv, Awaited
  <2>2. CASE future[i] \in Unfinished /\ future'[i] = "broken"
    BY <1>1, <2>1, <2>2 DEF Owed, Finished, Unfinished
  <2>3. CASE future'[i] = future[i] /\ (slot[i] = s /\ home[i] = g => future[i] \notin Unfinished)
    <3>1. CASE future[i] \in Unfinished
      BY <1>1, <2>1, <2>3, <3>1 DEF Owed
    <3>2. CASE future[i] \notin Unfinished
      BY <1>1, <1>3, <2>1, <2>3, <3>2 DEF Owed, Futures
    <3> QED
      BY <3>1, <3>2
  <2> QED
    BY <1>2, <2>2, <2>3
<1>7. ArtifactKind'
  BY <1>1, <1>2 DEF WorkInv, ArtifactKind
<1>8. AnsweredFirst'
  BY <1>1 DEF WorkInv, AnsweredFirst
<1> QED
  BY <1>4, <1>5, <1>6, <1>7, <1>8 DEF WorkInv

\* Once _on_shutdown has run nothing is awaited.
LEMMA OnShutdownWork ==
  ASSUME WorkInv, OnShutdown
  PROVE  WorkInv'
<1>1. /\ UNCHANGED <<status, request, slot, sgen, attached, future, home, phase, due, answered, finalizing,
                     dispatch, holding>>
      /\ down'
  BY DEF OnShutdown, recordVars, workerVars, lockVars, pumpVars
<1> QED
  BY <1>1 DEF WorkInv, StartedOnly, Started, HeldIsUnsubmitted, Holds, Awaited, ArtifactKind, AnsweredFirst

-----------------------------------------------------------------------------
\* A broker under construction has no future, no dispatch and no pass.
LEMMA InitWork == Init => WorkInv
BY DEF Init, WorkInv, StartedOnly, Started, HeldIsUnsubmitted, Holds, Awaited, ArtifactKind, AnsweredFirst

\* Every step of the broker keeps it.
LEMMA NextKeepsWork == SlotInv /\ TypeInv /\ WorkInv /\ [Next]_vars => WorkInv'
<1> SUFFICES ASSUME SlotInv, TypeInv, WorkInv, [Next]_vars PROVE WorkInv'
  OBVIOUS
<1>1. CASE UNCHANGED vars
  BY <1>1, WorkStutter DEF vars, workView, recordVars, workerVars, slotVars, lockVars, pumpVars, lifeVars
<1>2. CASE ~ down /\ OnShutdown
  BY <1>2, OnShutdownWork
<1>3. ASSUME ~ down PROVE WorkTypes
  BY <1>3, TypesOfStep
<1>4. CASE ~ down /\ Refresh
  BY <1>3, <1>4, HandleFinishedFutureWork, ExpireDeadlineWork, EndFinishedFuturesWork, PruneRecordsWork
     DEF Refresh
<1>5. CASE ~ down /\ Rpc
  <2>1. CASE RefuseBusy
    BY <2>1, WorkStutter DEF RefuseBusy, workView, recordVars, workerVars, slotVars, lockVars, pumpVars, lifeVars
  <2>2. ASSUME NEW j \in Job, AnswerRead \/ RefuseSubmission \/ Coalesce(j) PROVE WorkInv'
    BY <2>2, ReleaseWork DEF AnswerRead, RefuseSubmission, Coalesce, EndCall, recordVars, workerVars,
                             slotVars, pumpVars, lifeVars
  <2>3. CASE AnswerRead \/ RefuseSubmission
    BY <2>3, ReleaseWork DEF AnswerRead, RefuseSubmission, EndCall, recordVars, workerVars,
                             slotVars, pumpVars, lifeVars
  <2> QED
    BY <1>3, <1>5, <2>1, <2>2, <2>3, BeginWork, QueueRecordWork, CancelWork DEF Rpc
<1>6. CASE ~ down /\ Pump
  <2>1. CASE LeaveLock
    BY <2>1, ReleaseWork DEF LeaveLock, recordVars, workerVars, slotVars, lifeVars
  <2>2. CASE EndPump
    BY <2>2, WorkStutter DEF EndPump, workView, recordVars, workerVars, slotVars, lockVars
  <2> QED
    BY <1>3, <1>6, <2>1, <2>2, BeginWork, SelectQueuedWork, FinalizeArtifactWork, DispatchWork,
       SubmitFailsWork DEF Pump
<1>7. CASE ~ down /\ Workers
  BY <1>3, <1>7, WorkerWork, WorkerEndWork DEF Workers
<1>8. CASE ~ down /\ Lifecycle
  <2>1. ASSUME NEW c, Lease(c) \/ ReleaseLease(c) \/ ClientDies(c) PROVE UNCHANGED workView
    BY <2>1 DEF Lease, ReleaseLease, ClientDies, workView, recordVars, workerVars, slotVars, lockVars, pumpVars
  <2>2. ASSUME ShutdownLocked \/ ShutdownContended \/ ShutdownIfIdle PROVE UNCHANGED workView
    BY <2>2 DEF ShutdownLocked, ShutdownContended, ShutdownIfIdle, workView, recordVars, workerVars,
                slotVars, lockVars, pumpVars
  <2>3. ASSUME IdleAges \/ IdleShouldStop \/ Retire PROVE UNCHANGED workView
    BY <2>3 DEF IdleAges, IdleShouldStop, Retire, workView, recordVars, workerVars, slotVars,
                lockVars, pumpVars
  <2> QED
    BY <1>8, <2>1, <2>2, <2>3, WorkStutter DEF Lifecycle
<1>9. ASSUME (\E c \in Calls : AcceptCall(c)) \/ (\E j \in Job : Tick(j))
      PROVE  WorkInv'
  BY <1>9, WorkStutter DEF AcceptCall, Tick, workView, recordVars, workerVars, slotVars, lockVars,
                           pumpVars, lifeVars
<1> QED
  BY <1>1, <1>2, <1>4, <1>5, <1>6, <1>7, <1>8, <1>9 DEF Next, Running

\* What the off-lock half of the pump assumes holds in every state of the broker.
LEMMA WorkInvIsInvariant == Spec => []WorkInv
BY InitWork, NextKeepsWork, SlotInvIsInvariant, TypeInvIsInvariant, PTL DEF Spec

-----------------------------------------------------------------------------
(* What follows for the records *)

\* However slots are retired, deadlines pass, workers die and threads let go of the lock, a running
\* record is still to be dispatched, has its answer, or has a live worker that owes it (_pump,
\* _handle_finished_futures, _retire_broken_slot).
THEOREM RunningIsAwaitedAlways == Spec => []RunningIsAwaited
<1>1. SlotInv /\ WorkInv => RunningIsAwaited
  <2> SUFFICES ASSUME SlotInv, WorkInv, ~ down, NEW j \in Job, status[j] = "running"
               PROVE  \/ j \in dispatch /\ (pumping \/ lock = "pump")
                      \/ /\ j \in attached /\ home[j] = egen[slot[j]]
                         /\ future[j] \in Finished \/ <<slot[j], home[j]>> \in alive
    BY DEF RunningIsAwaited
  <2>1. Owed(j) /\ sgen[j] = egen[slot[j]]
    BY DEF SlotInv, RunningUnfenced, WorkInv, Awaited
  <2>2. j \in dispatch => pumping \/ lock = "pump"
    BY DEF SlotInv, LockDiscipline
  <2> QED
    BY <2>1, <2>2 DEF Owed
<1> QED
  BY <1>1, SlotInvIsInvariant, WorkInvIsInvariant, PTL

\* What one step may do to the status of one record.
Revised(j) ==
  /\ status[j] \in Settled =>
       \/ status'[j] \in {status[j], "pruned"}
       \/ Holds(j) /\ status'[j] = "failed"
  /\ status[j] = "running" /\ status'[j] = "timed_out" => phase = "expire"

\* Every thread that settles a record looks at its status first; only a failed submit does not.
LEMMA NextRevises == SlotTypes /\ [Next]_vars => \A j \in Job : Revised(j)
<1> SUFFICES ASSUME SlotTypes, [Next]_vars PROVE \A j \in Job : Revised(j)
  OBVIOUS
<1>1. ASSUME UNCHANGED status PROVE \A j \in Job : Revised(j)
  BY <1>1 DEF Revised
<1>2. ASSUME NEW i \in Job, NEW r \in Statuses,
             status' = [status EXCEPT ![i] = r],
             status[i] \notin Settled \/ (Holds(i) /\ r = "failed"),
             r = "timed_out" /\ status[i] = "running" => phase = "expire"
      PROVE  \A j \in Job : Revised(j)
  BY <1>2 DEF SlotTypes, Revised
<1>3. {"completed", "failed", "cancelled", "superseded", "timed_out", "running"} \subseteq Statuses
  BY DEF Statuses, Active, Settled
<1>4. "running" \notin Settled /\ "queued" \notin Settled
  BY DEF Settled
<1>5. ASSUME NEW i \in Job, HandleFinishedFuture(i) PROVE \A j \in Job : Revised(j)
  <2>1. \/ UNCHANGED status
        \/ status[i] = "running" /\ \E r \in {"completed", "failed"} : status' = [status EXCEPT ![i] = r]
    BY <1>5 DEF HandleFinishedFuture, Abandon, Complete, FailWith, ClaimArtifact, Claimable
  <2> QED
    BY <1>1, <1>2, <1>3, <1>4, <2>1
<1>6. ASSUME NEW i \in Job, ExpireDeadline(i) PROVE \A j \in Job : Revised(j)
  <2>1. status[i] \in Active /\ phase = "expire" /\ status' = [status EXCEPT ![i] = "timed_out"]
    BY <1>6 DEF ExpireDeadline
  <2> QED
    BY <1>2, <1>3, <1>4, <2>1 DEF Active
<1>7. CASE PruneRecords
  <2>1. \E P \in SUBSET {j \in Job : status[j] \in Settled} :
          status' = [j \in Job |-> IF j \in P THEN "pruned" ELSE status[j]]
    BY <1>7 DEF PruneRecords
  <2> QED
    BY <2>1, <1>4 DEF Revised
<1>8. ASSUME NEW i \in Job, QueueRecord(i) PROVE \A j \in Job : Revised(j)
  <2>1. /\ status[i] = "absent"
        /\ status' = [j \in Job |-> IF j = i THEN "queued"
                                    ELSE IF Supersedes(j, call.req) THEN "superseded" ELSE status[j]]
    BY <1>8 DEF QueueRecord, Fresh
  <2> QED
    BY <2>1 DEF Supersedes, Revised, Settled
<1>9. ASSUME NEW i \in Job, Cancel(i) PROVE \A j \in Job : Revised(j)
  <2>1. \/ UNCHANGED status
        \/ status[i] \in {"queued", "running"} /\ status' = [status EXCEPT ![i] = "cancelled"]
    BY <1>9 DEF Cancel, CancelQueued, CancelPending, RefuseCancel, CancelNothing
  <2> QED
    BY <1>1, <1>2, <1>3, <1>4, <2>1
<1>10. ASSUME NEW l \in Lane, NEW i \in Job, SelectQueued(l, i) PROVE \A j \in Job : Revised(j)
  <2>1. /\ status[i] = "queued"
        /\ \E r \in {"superseded", "timed_out", "failed", "running"} : status' = [status EXCEPT ![i] = r]
    BY <1>10 DEF SelectQueued, IsNextQueued, Supersede, ExpireAtDispatch, RefuseQuarantined, MarkRunning
  <2> QED
    BY <1>2, <1>3, <1>4, <2>1
<1>11. ASSUME NEW i \in Job, NEW verified \in BOOLEAN, FinalizeArtifact(i, verified)
       PROVE  \A j \in Job : Revised(j)
  <2>1. \/ UNCHANGED status
        \/ status[i] = "running" /\ \E r \in {"completed", "failed"} : status' = [status EXCEPT ![i] = r]
    BY <1>11 DEF FinalizeArtifact
  <2> QED
    BY <1>1, <1>2, <1>3, <1>4, <2>1
<1>12. ASSUME NEW i \in Job, SubmitFails(i) PROVE \A j \in Job : Revised(j)
  <2>1. Holds(i) /\ status' = [status EXCEPT ![i] = IF Recorded(i) THEN "failed" ELSE status[i]]
    BY <1>12 DEF SubmitFails
  <2>2. CASE Recorded(i)
    BY <1>2, <1>3, <2>1, <2>2
  <2>3. CASE ~ Recorded(i)
    BY <1>1, <2>1, <2>3 DEF SlotTypes
  <2> QED
    BY <2>2, <2>3
<1>13. ASSUME EndFinishedFutures \/ RefuseBusy \/ BeginCall \/ AnswerRead \/ RefuseSubmission
              \/ BeginPump \/ LeaveLock \/ EndPump \/ Lifecycle \/ Workers \/ OnShutdown
       PROVE  UNCHANGED status
  BY <1>13 DEF EndFinishedFutures, RefuseBusy, BeginCall, AnswerRead, RefuseSubmission, BeginPump,
               LeaveLock, EndPump, Lifecycle, Lease, ReleaseLease, ClientDies, ShutdownLocked,
               ShutdownContended, ShutdownIfIdle, IdleAges, IdleShouldStop, Retire, Workers,
               WorkerRun, WorkerAnswer, WorkerCrash, WorkerExit, OnShutdown, recordVars
<1>14. ASSUME NEW j \in Job, Coalesce(j) \/ TakeExecutor(j) \/ Submit(j) \/ Attach(j) \/ Tick(j)
       PROVE  UNCHANGED status
  BY <1>14 DEF Coalesce, TakeExecutor, Submit, Attach, Tick, recordVars
<1>15. ASSUME UNCHANGED vars \/ \E c \in Calls : AcceptCall(c)
       PROVE  UNCHANGED status
  BY <1>15 DEF AcceptCall, vars, recordVars
<1> QED
  BY <1>1, <1>5, <1>6, <1>7, <1>8, <1>9, <1>10, <1>11, <1>12, <1>13, <1>14, <1>15
  DEF Next, Running, Refresh, Rpc, Pump

\* The terminal state of a record is not revised by any refresh, finalizer, deadline or cancel that
\* finds it late; a submit that fails is the one exception (_mark_terminal's callers).
THEOREM TerminalIsFinalAlways == Spec => TerminalIsFinal
<1>1. SlotInv /\ [Next]_vars =>
        [\A j \in Job : status[j] \in Settled =>
            \/ status'[j] \in {status[j], "pruned"}
            \/ Holds(j) /\ status'[j] = "failed"]_vars
  BY NextRevises DEF SlotInv, Revised
<1> QED
  BY <1>1, SlotInvIsInvariant, PTL DEF Spec, TerminalIsFinal

\* An inline answer that had arrived when a refresh began is never relabelled timed out
\* (_refresh_records: "Collect answers first").
THEOREM DeliveredInlineOwnsTerminalAlways == Spec => DeliveredInlineOwnsTerminal
<1>1. SlotInv /\ TypeInv /\ WorkInv /\ [Next]_vars =>
        [\A j \in answered : request[j].kind # "transfer" /\ status[j] = "running"
           => status'[j] # "timed_out"]_vars
  BY NextRevises DEF SlotInv, Revised, TypeInv, TypeOK, WorkInv, AnsweredFirst
<1> QED
  BY <1>1, SlotInvIsInvariant, TypeInvIsInvariant, WorkInvIsInvariant, PTL
  DEF Spec, DeliveredInlineOwnsTerminal

-----------------------------------------------------------------------------
(* The product store *)

\* What store_inline leaves: the products beside the key, less the ones it dropped, and the new one.
Stores(k, g, gone) ==
  /\ inline' = [x \in Key |-> IF x \in gone THEN Absent ELSE IF x = k THEN g ELSE inline[x]]
  /\ evicted' = evicted \cup {j \in Job : status'[j] = "completed" /\ request[j].key \in gone}

\* store_inline does that, however many of the oldest it drops.
LEMMA StoreInlineStores ==
  ASSUME NEW k \in Key, NEW g, ~ KeepsNewer(k, g), StoreInline(k, g)
  PROVE  \E gone : Stores(k, g, gone)
<1>1. PICK n \in 0 .. Len(MovedToEnd(k)) - 1 :
        LET gone == {MovedToEnd(k)[m] : m \in 1 .. n}
        IN  /\ inline' = [x \in Key |-> IF x \in gone THEN Absent ELSE IF x = k THEN g ELSE inline[x]]
            /\ evicted' = evicted \cup {j \in Job : status'[j] = "completed" /\ request[j].key \in gone}
  BY DEF StoreInline
<1>2. Stores(k, g, {MovedToEnd(k)[m] : m \in 1 .. n})
  BY <1>1 DEF Stores
<1> QED
  BY <1>2

\* Completing a job stores its product unless a newer one is retained.
LEMMA CompleteKeepsStore ==
  ASSUME TypeInv, ProductCoversCompleted, NEW j \in Job, Complete(j), UNCHANGED request
  PROVE  ProductCoversCompleted'
<1> DEFINE k == request[j].key
           g == request[j].generation
<1>1. /\ status[j] = "running" /\ status' = [status EXCEPT ![j] = "completed"] /\ StoreInline(k, g)
      /\ status \in [Job -> Statuses] /\ inline \in [Key -> Nat \cup {Absent}]
  BY DEF Complete, Claimable, TypeInv, TypeOK, Statuses
<1>2. request[j] \in Request /\ k \in Key /\ g \in Nat
  <2>1. request[j] \in Request
    BY <1>1 DEF TypeInv, Accepted
  <2> QED
    BY <2>1, BrokerConstants DEF BrokerConstants, Key
<1>3. /\ status'[j] = "completed"
      /\ \A i \in Job \ {j} : status'[i] = status[i]
  BY <1>1
<1>4. \A i \in Job : status[i] = "completed" => request[i].key \in Key /\ request[i].generation \in Nat
  <2>1. \A i \in Job : status[i] = "completed" => request[i] \in Request
    BY DEF TypeInv, Accepted
  <2> QED
    BY <2>1, BrokerConstants DEF BrokerConstants, Key
<1>5. \A i \in Job \ evicted : status[i] = "completed" /\ request[i].kind # "transfer" =>
        inline[request[i].key] >= request[i].generation
  BY DEF ProductCoversCompleted
<1> HIDE DEF k, g
<1>6. CASE KeepsNewer(k, g)
  <2>1. UNCHANGED <<inline, stored, evicted>> /\ g < inline[k] /\ inline[k] \in Nat \cup {Absent}
    BY <1>1, <1>2, <1>6 DEF StoreInline, KeepsNewer, productVars
  <2>2. inline[k] >= g
    BY <1>2, <2>1 DEF Absent
  <2> QED
    BY <1>3, <1>5, <2>1, <2>2 DEF ProductCoversCompleted, k, g
<1>7. CASE ~ KeepsNewer(k, g)
  <2>1. PICK gone : Stores(k, g, gone)
    BY <1>1, <1>2, <1>7, StoreInlineStores
  <2> SUFFICES ASSUME NEW i \in Job, i \notin evicted', status'[i] = "completed", request[i].kind # "transfer"
               PROVE  inline'[request[i].key] >= request[i].generation
    BY DEF ProductCoversCompleted
  <2>2. i \notin evicted /\ request[i].key \notin gone
    BY <2>1 DEF Stores
  <2>3. request[i].key \in Key /\ request[i].generation \in Nat
    BY <1>2, <1>3, <1>4 DEF k, g
  <2>4. inline'[request[i].key] = IF request[i].key = k THEN g ELSE inline[request[i].key]
    BY <2>1, <2>2, <2>3 DEF Stores
  <2>5. CASE i = j
    BY <1>2, <2>4, <2>5 DEF k, g
  <2>6. CASE i # j /\ request[i].key = k
    <3>1. inline[k] >= request[i].generation /\ inline[k] \in Nat \cup {Absent} /\ ~ (g < inline[k])
      BY <1>1, <1>2, <1>3, <1>5, <1>7, <2>2, <2>6 DEF KeepsNewer
    <3>2. g >= request[i].generation
      BY <1>2, <2>3, <3>1 DEF Absent
    <3> QED
      BY <2>4, <2>6, <3>2
  <2>7. CASE i # j /\ request[i].key # k
    BY <1>3, <1>5, <2>2, <2>4, <2>7
  <2> QED
    BY <2>5, <2>6, <2>7
<1> QED
  BY <1>6, <1>7

\* A step that stores no inline product and completes none but transfers keeps the store.
LEMMA NothingStored ==
  ASSUME ProductCoversCompleted, UNCHANGED productVars,
         \A j \in Job : status'[j] = "completed" =>
           \/ status[j] = "completed" /\ request'[j] = request[j]
           \/ request'[j].kind = "transfer"
  PROVE  ProductCoversCompleted'
BY DEF ProductCoversCompleted, productVars

\* Only the answer of an inline task changes the store, and only it completes a job that is not a transfer.
LEMMA NextKeepsStore == TypeInv /\ WorkInv /\ ProductCoversCompleted /\ [Next]_vars => ProductCoversCompleted'
<1> SUFFICES ASSUME TypeInv, WorkInv, ProductCoversCompleted, [Next]_vars PROVE ProductCoversCompleted'
  OBVIOUS
<1> DEFINE Kept(j) == \/ status[j] = "completed" /\ request'[j] = request[j]
                      \/ request'[j].kind = "transfer"
           Quiet == UNCHANGED productVars /\ \A j \in Job : status'[j] = "completed" => Kept(j)
<1>1. status \in [Job -> Statuses] /\ request \in [Job -> Request \cup {NoRequest}]
  BY DEF TypeInv, TypeOK, Statuses
<1>2. ASSUME UNCHANGED <<productVars, status, request>> PROVE Quiet
  BY <1>2
<1>3. ASSUME NEW i \in Job, NEW r \in Statuses, status' = [status EXCEPT ![i] = r], r # "completed",
             UNCHANGED <<productVars, request>>
      PROVE  Quiet
  BY <1>1, <1>3
<1>4. {"failed", "cancelled", "superseded", "timed_out", "running"} \subseteq Statuses
  BY DEF Statuses, Active, Settled
<1>5. ASSUME NEW i \in Job, HandleFinishedFuture(i) PROVE Quiet \/ ProductCoversCompleted'
  <2>1. UNCHANGED request
    BY <1>5 DEF HandleFinishedFuture
  <2>2. CASE Complete(i)
    BY <2>1, <2>2, CompleteKeepsStore
  <2>3. CASE Abandon(i) \/ ClaimArtifact(i)
    BY <1>2, <2>1, <2>3 DEF Abandon, ClaimArtifact
  <2>4. CASE FailWith(i)
    BY <1>3, <1>4, <2>1, <2>4 DEF FailWith
  <2> QED
    BY <1>5, <2>2, <2>3, <2>4 DEF HandleFinishedFuture
<1>6. ASSUME NEW i \in Job, ExpireDeadline(i) PROVE Quiet
  BY <1>3, <1>4, <1>6 DEF ExpireDeadline, storeVars
<1>7. ASSUME PruneRecords PROVE Quiet
  <2>1. /\ UNCHANGED <<productVars, request>>
        /\ \E P \in SUBSET {j \in Job : status[j] \in Settled} :
             status' = [j \in Job |-> IF j \in P THEN "pruned" ELSE status[j]]
    BY <1>7 DEF PruneRecords, storeVars
  <2>2. \A j \in Job : status'[j] = status[j] \/ status'[j] = "pruned"
    BY <2>1
  <2> QED
    BY <2>1, <2>2
<1>8. ASSUME NEW i \in Job, QueueRecord(i) PROVE Quiet
  <2>1. /\ UNCHANGED productVars /\ status[i] = "absent"
        /\ request' = [request EXCEPT ![i] = call.req]
        /\ status' = [j \in Job |-> IF j = i THEN "queued"
                                    ELSE IF Supersedes(j, call.req) THEN "superseded" ELSE status[j]]
    BY <1>8 DEF QueueRecord, Fresh, storeVars
  <2> QED
    BY <1>1, <2>1
<1>9. ASSUME NEW i \in Job, Cancel(i) PROVE Quiet
  <2>1. /\ UNCHANGED <<productVars, request>>
        /\ UNCHANGED status \/ status' = [status EXCEPT ![i] = "cancelled"]
    BY <1>9 DEF Cancel, CancelQueued, CancelPending, RefuseCancel, CancelNothing, storeVars
  <2> QED
    BY <1>2, <1>3, <1>4, <2>1
<1>10. ASSUME NEW l \in Lane, NEW i \in Job, SelectQueued(l, i) PROVE Quiet
  <2>1. /\ UNCHANGED <<productVars, request>>
        /\ \E r \in {"superseded", "timed_out", "failed", "running"} : status' = [status EXCEPT ![i] = r]
    BY <1>10 DEF SelectQueued, Supersede, ExpireAtDispatch, RefuseQuarantined, MarkRunning, storeVars
  <2> QED
    BY <1>3, <1>4, <2>1
<1>11. ASSUME NEW i \in Job, NEW verified \in BOOLEAN, FinalizeArtifact(i, verified) PROVE Quiet
  <2>1. /\ UNCHANGED <<productVars, request>> /\ i \in finalizing
        /\ UNCHANGED status \/ \E r \in {"completed", "failed"} : status' = [status EXCEPT ![i] = r]
    BY <1>11 DEF FinalizeArtifact
  <2>2. request[i].kind = "transfer"
    BY <2>1 DEF WorkInv, ArtifactKind
  <2> QED
    BY <1>1, <2>1, <2>2
<1>12. ASSUME NEW i \in Job, SubmitFails(i) PROVE Quiet
  <2>1. /\ UNCHANGED <<productVars, request>>
        /\ status' = [status EXCEPT ![i] = IF Recorded(i) THEN "failed" ELSE status[i]]
    BY <1>12 DEF SubmitFails, storeVars
  <2> QED
    BY <1>1, <2>1
<1>13. ASSUME EndFinishedFutures \/ RefuseBusy \/ BeginCall \/ AnswerRead \/ RefuseSubmission
              \/ BeginPump \/ LeaveLock \/ EndPump \/ Lifecycle \/ Workers \/ OnShutdown
       PROVE  UNCHANGED <<productVars, status, request>>
  BY <1>13 DEF EndFinishedFutures, RefuseBusy, BeginCall, AnswerRead, RefuseSubmission, BeginPump,
               LeaveLock, EndPump, Lifecycle, Lease, ReleaseLease, ClientDies, ShutdownLocked,
               ShutdownContended, ShutdownIfIdle, IdleAges, IdleShouldStop, Retire, Workers,
               WorkerRun, WorkerAnswer, WorkerCrash, WorkerExit, OnShutdown, recordVars, storeVars
<1>14. ASSUME NEW j \in Job, Coalesce(j) \/ TakeExecutor(j) \/ Submit(j) \/ Attach(j) \/ Tick(j)
       PROVE  UNCHANGED <<productVars, status, request>>
  BY <1>14 DEF Coalesce, TakeExecutor, Submit, Attach, Tick, recordVars, storeVars
<1>15. ASSUME UNCHANGED vars \/ \E c \in Calls : AcceptCall(c)
       PROVE  UNCHANGED <<productVars, status, request>>
  BY <1>15 DEF AcceptCall, vars, recordVars, storeVars
<1>16. Quiet => ProductCoversCompleted'
  BY NothingStored
<1> HIDE DEF Quiet
<1> QED
  BY <1>2, <1>5, <1>6, <1>7, <1>8, <1>9, <1>10, <1>11, <1>12, <1>13, <1>14, <1>15, <1>16
  DEF Next, Running, Refresh, Rpc, Pump

\* Whatever order generations finish in and keys are evicted in, the store covers every completed
\* job whose key it has not dropped since (store_inline).
THEOREM ProductCoversCompletedAlways == Spec => []ProductCoversCompleted
<1>1. Init => ProductCoversCompleted
  BY DEF Init, ProductCoversCompleted
<1> QED
  BY <1>1, NextKeepsStore, TypeInvIsInvariant, WorkInvIsInvariant, PTL DEF Spec

=============================================================================
