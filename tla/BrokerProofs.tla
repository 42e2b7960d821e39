---------------------------- MODULE BrokerProofs ----------------------------
(***************************************************************************)
(* Proofs about Broker for every value of its constants.                   *)
(*                                                                         *)
(* SlotExclusive is not inductive: the step that retires a broken slot or  *)
(* reports a failed submit bumps a slot's generation on the word of a      *)
(* record that need not be running any more.  The strengthening says that  *)
(* every record that may still speak for a slot (running, being            *)
(* dispatched, or to be retired at the end of this pass) speaks for it     *)
(* alone, unless its executor has been replaced since.                     *)
(***************************************************************************)
EXTENDS Broker, TLAPS

\* The part of the state that slot ownership depends on.
slotView == <<status, request, slot, sgen, egen, restart, lock, phase, pumping, dispatch, down>>

Statuses == {"absent", "pruned"} \cup Active \cup Settled

SlotTypes ==
  /\ status \in [Job -> Statuses]
  /\ request = [j \in Job |-> request[j]]
  /\ slot \in [Job -> Slot \cup {NoSlot}] /\ sgen \in [Job -> Nat] /\ egen \in [Slot -> Nat]
  /\ dispatch \subseteq Job /\ restart \subseteq Job

\* Who may be dispatching or retiring, and when.
LockDiscipline ==
  /\ dispatch # {} => pumping \/ (lock = "pump" /\ phase = "body")
  /\ pumping => lock # "pump"
  /\ lock = "pump" => \A j \in dispatch : status[j] = "running"
  /\ restart # {} => phase = "finish"
  /\ \A j \in restart : status[j] # "running"

SpeaksFor(j) == status[j] = "running" \/ j \in dispatch \/ j \in restart

SpeaksAlone ==
  \A j \in Job : SpeaksFor(j) =>
    /\ slot[j] \in Slot /\ sgen[j] <= egen[slot[j]]
    /\ sgen[j] = egen[slot[j]] =>
         \A i \in Job \ {j} : status[i] = "running" => slot[i] # slot[j]

RunningUnfenced ==
  ~ down => \A j \in Job : status[j] = "running" =>
    sgen[j] = egen[slot[j]] /\ LaneOfSlot[slot[j]] = LaneOfJob(j)

SlotInv == SlotTypes /\ LockDiscipline /\ SpeaksAlone /\ RunningUnfenced

-----------------------------------------------------------------------------
\* Every priority belongs to exactly one lane (BATCHD_PRIORITY_LANES).
LEMMA LaneOfPriority ==
  ASSUME NEW l \in Lane, NEW n \in DOMAIN LanePriorities[l]
  PROVE  LaneOf(LanePriorities[l][n]) = l
<1> DEFINE P(k) == \E m \in DOMAIN LanePriorities[k] : LanePriorities[k][m] = LanePriorities[l][n]
<1>1. \E k \in Lane : P(k)
  OBVIOUS
<1>2. LaneOf(LanePriorities[l][n]) \in Lane /\ P(LaneOf(LanePriorities[l][n]))
  BY <1>1 DEF LaneOf
<1> QED
  BY <1>2, BrokerConstants DEF BrokerConstants

\* A broker under construction (__init__) runs nothing and has no pass under way.
LEMMA InitSlotInv == Init => SlotInv
BY DEF Init, SlotInv, SlotTypes, LockDiscipline, SpeaksAlone, SpeaksFor, RunningUnfenced, Statuses,
       NoSlot, Active, Settled

\* A step that leaves the view alone keeps the invariant.
LEMMA SlotStutter == SlotInv /\ UNCHANGED slotView => SlotInv'
BY DEF slotView, SlotInv, SlotTypes, LockDiscipline, SpeaksAlone, SpeaksFor, RunningUnfenced,
       LaneOfJob

\* A step that starts no job, replaces no executor and adds no spokesman keeps what the slots
\* are told.
LEMMA SettlingKeepsSlots ==
  ASSUME SlotInv, status' \in [Job -> Statuses],
         \A j \in Job : status'[j] = "running" => status[j] = "running" /\ request'[j] = request[j],
         \A j \in Job : SpeaksFor(j)' => SpeaksFor(j),
         UNCHANGED <<slot, sgen, egen, down>>
  PROVE  SpeaksAlone' /\ RunningUnfenced'
BY DEF SlotInv, SpeaksAlone, RunningUnfenced, LaneOfJob

-----------------------------------------------------------------------------
(* One lemma per group of actions that move the view *)

\* BeginPump and BeginCall start a pass with nothing to retire.
LEMMA BeginKeeps ==
  ASSUME SlotInv, BeginPump \/ BeginCall
  PROVE  SlotInv'
<1>1. /\ UNCHANGED <<status, request, slot, sgen, egen, pumping, dispatch, down>>
      /\ restart' = {} /\ phase' = "finish" /\ lock = "free"
      /\ lock' = "rpc" \/ (lock' = "pump" /\ ~ pumping)
  BY DEF BeginPump, BeginCall, BeginRefresh, recordVars, slotVars, pumpVars, lifeVars
<1>2. SlotTypes' /\ LockDiscipline'
  BY <1>1 DEF SlotInv, SlotTypes, LockDiscipline
<1>3. SpeaksAlone' /\ RunningUnfenced'
  BY <1>1, SettlingKeepsSlots DEF SlotInv, SlotTypes, SpeaksFor
<1> QED
  BY <1>2, <1>3 DEF SlotInv

\* A finished future only settles the record that ran it; a broken one also asks for the slot
\* of a record that was running until now to be retired.
LEMMA HandleFinishedFutureKeeps ==
  ASSUME SlotInv, NEW j \in Job, HandleFinishedFuture(j)
  PROVE  SlotInv'
<1>1. UNCHANGED <<request, slot, sgen, egen, lock, phase, pumping, dispatch, down>> /\ phase = "finish"
  BY DEF HandleFinishedFuture, slotVars, lifeVars
<1>2. \/ UNCHANGED <<status, restart>>
      \/ /\ status[j] = "running"
         /\ \E r \in {"completed", "failed"} : status' = [status EXCEPT ![j] = r]
         /\ restart' = restart \/ restart' = restart \cup {j}
  BY DEF HandleFinishedFuture, Abandon, Complete, FailWith, ClaimArtifact, Claimable
<1>3. SlotTypes'
  BY <1>1, <1>2 DEF SlotInv, SlotTypes, Statuses, Settled
<1>4. LockDiscipline'
  BY <1>1, <1>2 DEF SlotInv, SlotTypes, LockDiscipline
<1>5. SpeaksAlone' /\ RunningUnfenced'
  <2>1. \A i \in Job : status'[i] = "running" => status[i] = "running" /\ request'[i] = request[i]
    BY <1>1, <1>2 DEF SlotInv, SlotTypes
  <2>2. \A i \in Job : SpeaksFor(i)' => SpeaksFor(i)
    BY <1>1, <1>2, <2>1 DEF SpeaksFor
  <2> QED
    BY <1>1, <1>3, <2>1, <2>2, SettlingKeepsSlots DEF SlotTypes
<1> QED
  BY <1>3, <1>4, <1>5 DEF SlotInv

\* Retiring broken slots bumps generations of slots that no running record holds.
LEMMA EndFinishedFuturesKeeps ==
  ASSUME SlotInv, EndFinishedFutures
  PROVE  SlotInv'
<1>1. /\ UNCHANGED <<status, request, slot, sgen, lock, pumping, dispatch, down>>
      /\ restart' = {} /\ phase = "finish" /\ phase' = "expire"
      /\ egen' = [s \in Slot |-> IF s \in BrokenSlots THEN egen[s] + 1 ELSE egen[s]]
  BY DEF EndFinishedFutures, recordVars, pumpVars, lifeVars
<1>2. SlotTypes' /\ LockDiscipline'
  BY <1>1 DEF SlotInv, SlotTypes, LockDiscipline
<1>3. \A i \in Job : status[i] = "running" => slot[i] \in Slot /\ slot[i] \notin BrokenSlots
  BY DEF SlotInv, SlotTypes, LockDiscipline, SpeaksAlone, SpeaksFor, BrokenSlots, Fenced
<1>4. RunningUnfenced'
  BY <1>1, <1>3 DEF SlotInv, RunningUnfenced, LaneOfJob
<1>5. SpeaksAlone'
  <2> SUFFICES ASSUME NEW j \in Job, SpeaksFor(j)'
               PROVE  /\ slot[j] \in Slot /\ sgen[j] <= egen'[slot[j]]
                      /\ sgen[j] = egen'[slot[j]] =>
                           \A i \in Job \ {j} : status[i] = "running" => slot[i] # slot[j]
    BY <1>1 DEF SpeaksAlone
  <2>1. SpeaksFor(j)
    BY <1>1 DEF SpeaksFor
  <2>2. slot[j] \in Slot /\ sgen[j] \in Nat /\ egen[slot[j]] \in Nat /\ sgen[j] <= egen[slot[j]]
    BY <2>1 DEF SlotInv, SlotTypes, SpeaksAlone
  <2>3. egen'[slot[j]] = egen[slot[j]] \/ egen'[slot[j]] = egen[slot[j]] + 1
    BY <1>1, <2>2
  <2> QED
    BY <2>1, <2>2, <2>3 DEF SlotInv, SpeaksAlone
<1> QED
  BY <1>2, <1>4, <1>5 DEF SlotInv

\* A deadline settles its record; quarantine replaces the executor of the one running record of
\* the slot, so no other running record is fenced with it.
LEMMA ExpireDeadlineKeeps ==
  ASSUME SlotInv, NEW j \in Job, ExpireDeadline(j)
  PROVE  SlotInv'
<1>1. /\ UNCHANGED <<request, slot, sgen, restart, lock, phase, pumping, dispatch, down>>
      /\ phase = "expire" /\ status' = [status EXCEPT ![j] = "timed_out"]
      /\ egen' = egen \/ (status[j] = "running" /\ egen' = [egen EXCEPT ![slot[j]] = @ + 1])
  BY DEF ExpireDeadline, QuarantineSlot, pumpVars, lifeVars
<1>2. restart = {} /\ (lock = "pump" => dispatch = {})
  BY <1>1 DEF SlotInv, LockDiscipline
<1>3. SlotTypes'
  BY <1>1 DEF SlotInv, SlotTypes, SpeaksAlone, SpeaksFor, Statuses, Settled
<1>4. LockDiscipline'
  BY <1>1, <1>2 DEF SlotInv, LockDiscipline
<1>5. \A i \in Job : /\ status'[i] = "running" => status[i] = "running" /\ i # j
                     /\ SpeaksFor(i)' => SpeaksFor(i)
  BY <1>1 DEF SlotInv, SlotTypes, SpeaksFor
<1>6. CASE egen' = egen
  BY <1>1, <1>3, <1>4, <1>5, <1>6, SettlingKeepsSlots DEF SlotInv, SlotTypes
<1>7. CASE status[j] = "running" /\ egen' = [egen EXCEPT ![slot[j]] = @ + 1]
  <2>1. slot[j] \in Slot /\ \A i \in Job \ {j} : status[i] = "running" => slot[i] # slot[j]
    <3>1. sgen[j] <= egen[slot[j]] /\ slot[j] \in Slot
      BY <1>7 DEF SlotInv, SpeaksAlone, SpeaksFor
    <3>2. ~ down => sgen[j] = egen[slot[j]]
      BY <1>7 DEF SlotInv, RunningUnfenced
    <3>3. Quarantinable(j)
      BY <1>7, <3>1 DEF ExpireDeadline, SlotInv, SlotTypes
    <3> QED
      BY <1>7, <3>1, <3>3 DEF SlotInv, SpeaksAlone, SpeaksFor, Quarantinable, Fenced
  <2>2. RunningUnfenced'
    BY <1>1, <1>5, <1>7, <2>1 DEF SlotInv, SpeaksAlone, SpeaksFor, SlotTypes, RunningUnfenced, LaneOfJob
  <2>3. SpeaksAlone'
    <3> SUFFICES ASSUME NEW k \in Job, SpeaksFor(k)'
                 PROVE  /\ slot[k] \in Slot /\ sgen[k] <= egen'[slot[k]]
                        /\ sgen[k] = egen'[slot[k]] =>
                             \A i \in Job \ {k} : status'[i] = "running" => slot[i] # slot[k]
      BY <1>1 DEF SpeaksAlone
    <3>1. slot[k] \in Slot /\ sgen[k] \in Nat /\ egen[slot[k]] \in Nat /\ sgen[k] <= egen[slot[k]]
      BY <1>5 DEF SlotInv, SlotTypes, SpeaksAlone
    <3>2. \/ slot[k] = slot[j] /\ egen'[slot[k]] = egen[slot[k]] + 1
          \/ egen'[slot[k]] = egen[slot[k]]
      BY <1>7, <3>1 DEF SlotInv, SlotTypes
    <3> QED
      BY <1>5, <3>1, <3>2 DEF SlotInv, SpeaksAlone
  <2> QED
    BY <1>3, <1>4, <2>2, <2>3 DEF SlotInv
<1> QED
  BY <1>1, <1>6, <1>7

\* The other steps of a refresh, the answers of the RPC handlers and cancel settle records.
LEMMA AnswersKeep ==
  ASSUME SlotInv,
         \/ PruneRecords \/ AnswerRead \/ RefuseSubmission
         \/ \E j \in Job : Coalesce(j) \/ QueueRecord(j) \/ Cancel(j)
  PROVE  SlotInv'
<1>1. CASE PruneRecords
  <2>1. /\ UNCHANGED <<request, slot, sgen, egen, restart, lock, pumping, dispatch, down>>
        /\ phase = "expire" /\ phase' = "body"
        /\ \E P \in SUBSET Job : status' = [j \in Job |-> IF j \in P THEN "pruned" ELSE status[j]]
    BY <1>1 DEF PruneRecords, slotVars, pumpVars, lifeVars
  <2>2. restart = {} /\ (lock = "pump" => dispatch = {})
    BY <2>1 DEF SlotInv, LockDiscipline
  <2>3. SlotTypes' /\ LockDiscipline'
    BY <2>1, <2>2 DEF SlotInv, SlotTypes, LockDiscipline, Statuses
  <2>4. \A i \in Job : /\ status'[i] = "running" => status[i] = "running" /\ request'[i] = request[i]
                       /\ SpeaksFor(i)' => SpeaksFor(i)
    BY <2>1 DEF SpeaksFor
  <2> QED
    BY <2>1, <2>3, <2>4, SettlingKeepsSlots DEF SlotInv, SlotTypes
<1>2. CASE AnswerRead \/ RefuseSubmission \/ \E j \in Job : Coalesce(j) \/ QueueRecord(j)
  <2>1. /\ UNCHANGED <<slot, sgen, egen, pumping, dispatch, down>>
        /\ lock = "rpc" /\ lock' = "free" /\ restart' = {}
    BY <1>2 DEF AnswerRead, RefuseSubmission, Coalesce, QueueRecord, SubmitValidated, Answering,
                EndCall, Release, recordVars, slotVars, pumpVars, lifeVars
  <2>2. \/ UNCHANGED <<status, request>>
        \/ \E r : \E j \in Job, S \in SUBSET Job :
             /\ status[j] = "absent" /\ request' = [request EXCEPT ![j] = r]
             /\ status' = [i \in Job |-> IF i = j THEN "queued"
                                         ELSE IF i \in S THEN "superseded" ELSE status[i]]
    <3>1. CASE AnswerRead \/ RefuseSubmission \/ \E j \in Job : Coalesce(j)
      BY <3>1 DEF AnswerRead, RefuseSubmission, Coalesce, recordVars
    <3>2. ASSUME NEW j \in Job, QueueRecord(j)
          PROVE  \E r : \E S \in SUBSET Job :
             /\ status[j] = "absent" /\ request' = [request EXCEPT ![j] = r]
             /\ status' = [i \in Job |-> IF i = j THEN "queued"
                                         ELSE IF i \in S THEN "superseded" ELSE status[i]]
      <4>1. status' = [i \in Job |-> IF i = j THEN "queued"
                        ELSE IF i \in {k \in Job : Supersedes(k, call.req)} THEN "superseded"
                        ELSE status[i]]
        BY <3>2 DEF QueueRecord
      <4>2. status[j] = "absent" /\ request' = [request EXCEPT ![j] = call.req]
        BY <3>2 DEF QueueRecord, Fresh
      <4>3. {k \in Job : Supersedes(k, call.req)} \in SUBSET Job
        OBVIOUS
      <4> QED
        BY <4>1, <4>2, <4>3
    <3> QED
      BY <1>2, <3>1, <3>2
  <2>3. SlotTypes'
    BY <2>1, <2>2 DEF SlotInv, SlotTypes, Statuses, Active, Settled
  <2>4. LockDiscipline'
    BY <2>1, <2>2 DEF SlotInv, LockDiscipline
  <2>5. \A i \in Job : /\ status'[i] = "running" => status[i] = "running" /\ request'[i] = request[i]
                       /\ SpeaksFor(i)' => SpeaksFor(i)
    BY <2>1, <2>2 DEF SlotInv, SlotTypes, SpeaksFor
  <2> QED
    BY <2>1, <2>3, <2>4, <2>5, SettlingKeepsSlots DEF SlotInv, SlotTypes
<1>3. ASSUME NEW j \in Job, Cancel(j) PROVE SlotInv'
  <2>1. /\ UNCHANGED <<request, slot, sgen, egen, restart, lock, phase, pumping, dispatch, down>>
        /\ lock = "free"
        /\ status' = status \/ status' = [status EXCEPT ![j] = "cancelled"]
    BY <1>3 DEF Cancel, CancelQueued, CancelPending, RefuseCancel, CancelNothing, slotVars, lockVars,
                pumpVars, lifeVars
  <2>2. SlotTypes' /\ LockDiscipline'
    BY <2>1 DEF SlotInv, SlotTypes, LockDiscipline, Statuses, Settled
  <2>3. \A i \in Job : /\ status'[i] = "running" => status[i] = "running" /\ request'[i] = request[i]
                       /\ SpeaksFor(i)' => SpeaksFor(i)
    BY <2>1 DEF SlotInv, SlotTypes, SpeaksFor
  <2> QED
    BY <2>1, <2>2, <2>3, SettlingKeepsSlots DEF SlotInv, SlotTypes
<1> QED
  BY <1>1, <1>2, <1>3

\* The slot chosen for a queued record is free: no running record has it, and in this phase only
\* running records speak for slots.
LEMMA MarkRunningKeeps ==
  ASSUME SlotInv, ~ down, NEW l \in Lane, NEW j \in Job, SelectQueued(l, j),
         NEW s \in FreeSlots(l), MarkRunning(j, s)
  PROVE  SlotInv'
<1>1. /\ UNCHANGED <<request, egen, restart, lock, phase, pumping, down>>
      /\ lock = "pump" /\ phase = "body" /\ status[j] = "queued" /\ LaneOfJob(j) = l
      /\ status' = [status EXCEPT ![j] = "running"] /\ dispatch' = dispatch \cup {j}
      /\ slot' = [slot EXCEPT ![j] = s] /\ sgen' = [sgen EXCEPT ![j] = egen[s]]
  <2>1. \E n \in DOMAIN LanePriorities[l] : request[j].priority = LanePriorities[l][n]
    BY DEF SelectQueued, IsNextQueued
  <2>2. LaneOfJob(j) = l
    BY <2>1, LaneOfPriority DEF LaneOfJob
  <2> QED
    BY <2>2 DEF SelectQueued, IsNextQueued, MarkRunning, lockVars, slotVars, lifeVars
<1>2. s \in Slot /\ LaneOfSlot[s] = l /\ \A i \in Job : status[i] = "running" => slot[i] # s
  BY DEF FreeSlots, Occupies, SlotInv, RunningUnfenced
<1>3. \A i \in Job : SpeaksFor(i) => status[i] = "running" /\ i # j
  BY <1>1 DEF SlotInv, LockDiscipline, SpeaksFor
<1>4. \A i \in Job : SpeaksFor(i)' => SpeaksFor(i) \/ i = j
  BY <1>1 DEF SlotInv, SlotTypes, SpeaksFor
<1>5. SlotTypes'
  BY <1>1, <1>2 DEF SlotInv, SlotTypes, Statuses, Active
<1>6. LockDiscipline'
  BY <1>1 DEF SlotInv, SlotTypes, LockDiscipline
<1>7. RunningUnfenced'
  BY <1>1, <1>2 DEF SlotInv, SlotTypes, RunningUnfenced, LaneOfJob
<1>8. SpeaksAlone'
  BY <1>1, <1>2, <1>3, <1>4 DEF SlotInv, SlotTypes, SpeaksAlone
<1> QED
  BY <1>5, <1>6, <1>7, <1>8 DEF SlotInv

\* Popping a queued record (_next_queued_record) settles it or starts it on a free slot.
LEMMA SelectQueuedKeeps ==
  ASSUME SlotInv, ~ down, NEW l \in Lane, NEW j \in Job, SelectQueued(l, j)
  PROVE  SlotInv'
<1>1. PICK s \in FreeSlots(l) :
        Supersede(j) \/ ExpireAtDispatch(j) \/ RefuseQuarantined(j, s) \/ MarkRunning(j, s)
  BY DEF SelectQueued
<1>2. CASE MarkRunning(j, s)
  BY <1>2, MarkRunningKeeps
<1>3. CASE Supersede(j) \/ ExpireAtDispatch(j) \/ RefuseQuarantined(j, s)
  <2>1. /\ UNCHANGED <<request, slot, sgen, egen, restart, lock, phase, pumping, dispatch, down>>
        /\ status[j] = "queued"
        /\ \E r \in Settled : status' = [status EXCEPT ![j] = r]
    BY <1>3 DEF SelectQueued, IsNextQueued, Supersede, ExpireAtDispatch, RefuseQuarantined, Settled,
                slotVars, lockVars, lifeVars
  <2>2. SlotTypes'
    BY <2>1 DEF SlotInv, SlotTypes, Statuses
  <2>3. \A i \in Job : status'[i] = "running" <=> status[i] = "running"
    BY <2>1 DEF SlotInv, SlotTypes, Settled
  <2>4. LockDiscipline'
    BY <2>1, <2>3 DEF SlotInv, SlotTypes, LockDiscipline
  <2>5. \A i \in Job : SpeaksFor(i)' => SpeaksFor(i)
    BY <2>1, <2>3 DEF SpeaksFor
  <2> QED
    BY <2>1, <2>2, <2>3, <2>4, <2>5, SettlingKeepsSlots DEF SlotInv, SlotTypes
<1> QED
  BY <1>1, <1>2, <1>3

\* The off-lock half: a failed submit retires its slot only while it still speaks for it.
LEMMA SubmitFailsKeeps ==
  ASSUME SlotInv, NEW j \in Job, SubmitFails(j)
  PROVE  SlotInv'
<1>1. /\ UNCHANGED <<request, slot, sgen, restart, lock, phase, pumping, down>>
      /\ lock = "free" /\ j \in dispatch /\ dispatch' = dispatch \ {j}
      /\ status' = [status EXCEPT ![j] = IF Recorded(j) THEN "failed" ELSE @]
      /\ egen' = egen \/ (~ Fenced(j) /\ egen' = [egen EXCEPT ![slot[j]] = @ + 1])
  BY DEF SubmitFails, Holds, lockVars, lifeVars
<1>2. \A i \in Job : /\ status'[i] = "running" => status[i] = "running" /\ i # j
                     /\ SpeaksFor(i)' => SpeaksFor(i)
  BY <1>1 DEF SlotInv, SlotTypes, SpeaksFor, Recorded
<1>3. /\ slot[j] \in Slot
      /\ ~ Fenced(j) => \A i \in Job \ {j} : status[i] = "running" => slot[i] # slot[j]
  BY <1>1 DEF SlotInv, SpeaksAlone, SpeaksFor, Fenced
<1>4. SlotTypes'
  BY <1>1, <1>3 DEF SlotInv, SlotTypes, Statuses, Settled
<1>5. LockDiscipline'
  BY <1>1, <1>2 DEF SlotInv, SlotTypes, LockDiscipline
<1>6. CASE egen' = egen
  BY <1>1, <1>2, <1>4, <1>5, <1>6, SettlingKeepsSlots DEF SlotInv, SlotTypes
<1>7. CASE ~ Fenced(j) /\ egen' = [egen EXCEPT ![slot[j]] = @ + 1]
  <2>1. RunningUnfenced'
    BY <1>1, <1>2, <1>3, <1>7 DEF SlotInv, SpeaksAlone, SpeaksFor, SlotTypes, RunningUnfenced, LaneOfJob
  <2>2. SpeaksAlone'
    <3> SUFFICES ASSUME NEW k \in Job, SpeaksFor(k)'
                 PROVE  /\ slot[k] \in Slot /\ sgen[k] <= egen'[slot[k]]
                        /\ sgen[k] = egen'[slot[k]] =>
                             \A i \in Job \ {k} : status'[i] = "running" => slot[i] # slot[k]
      BY <1>1 DEF SpeaksAlone
    <3>1. slot[k] \in Slot /\ sgen[k] \in Nat /\ egen[slot[k]] \in Nat /\ sgen[k] <= egen[slot[k]]
      BY <1>2 DEF SlotInv, SlotTypes, SpeaksAlone
    <3>2. \/ slot[k] = slot[j] /\ egen'[slot[k]] = egen[slot[k]] + 1
          \/ egen'[slot[k]] = egen[slot[k]]
      BY <1>7, <3>1 DEF SlotInv, SlotTypes
    <3> QED
      BY <1>2, <3>1, <3>2 DEF SlotInv, SpeaksAlone
  <2> QED
    BY <1>4, <1>5, <2>1, <2>2 DEF SlotInv
<1> QED
  BY <1>1, <1>6, <1>7

\* The scheduler's remaining steps.
LEMMA PumpKeeps ==
  ASSUME SlotInv,
         \/ LeaveLock \/ EndPump
         \/ \E j \in Job, verified \in BOOLEAN : FinalizeArtifact(j, verified)
         \/ \E j \in Job : Attach(j)
  PROVE  SlotInv'
<1>1. CASE LeaveLock
  <2>1. /\ UNCHANGED <<status, request, slot, sgen, egen, dispatch, down>>
        /\ lock' = "free" /\ restart' = {} /\ pumping'
    BY <1>1 DEF LeaveLock, Release, recordVars, slotVars, lifeVars
  <2>2. SlotTypes' /\ LockDiscipline'
    BY <2>1 DEF SlotInv, SlotTypes, LockDiscipline
  <2> QED
    BY <2>1, <2>2, SettlingKeepsSlots DEF SlotInv, SlotTypes, SpeaksFor
<1>2. CASE EndPump
  <2>1. /\ UNCHANGED <<status, request, slot, sgen, egen, restart, lock, phase, dispatch, down>>
        /\ dispatch = {} /\ ~ pumping'
    BY <1>2 DEF EndPump, recordVars, slotVars, lockVars
  <2>2. SlotTypes' /\ LockDiscipline'
    BY <2>1 DEF SlotInv, SlotTypes, LockDiscipline
  <2> QED
    BY <2>1, <2>2, SettlingKeepsSlots DEF SlotInv, SlotTypes, SpeaksFor
<1>3. ASSUME NEW j \in Job, NEW verified \in BOOLEAN, FinalizeArtifact(j, verified) PROVE SlotInv'
  <2>1. /\ UNCHANGED <<request, slot, sgen, egen, restart, lock, phase, pumping, dispatch, down>>
        /\ lock = "free"
        /\ status' = status \/ \E r \in {"completed", "failed"} : status' = [status EXCEPT ![j] = r]
    BY <1>3 DEF FinalizeArtifact, slotVars, lockVars, lifeVars
  <2>2. SlotTypes'
    BY <2>1 DEF SlotInv, SlotTypes, Statuses, Settled
  <2>3. \A i \in Job : /\ status'[i] = "running" => status[i] = "running"
                       /\ SpeaksFor(i)' => SpeaksFor(i)
    BY <2>1 DEF SlotInv, SlotTypes, SpeaksFor
  <2>4. LockDiscipline'
    BY <2>1, <2>3 DEF SlotInv, SlotTypes, LockDiscipline
  <2> QED
    BY <2>1, <2>2, <2>3, <2>4, SettlingKeepsSlots DEF SlotInv, SlotTypes
<1>4. ASSUME NEW j \in Job, Attach(j) PROVE SlotInv'
  <2>1. /\ UNCHANGED <<status, request, slot, sgen, egen, restart, lock, phase, pumping, down>>
        /\ pumping /\ dispatch' = dispatch \ {j}
    BY <1>4 DEF Attach, recordVars, slotVars, lockVars, lifeVars
  <2>2. SlotTypes' /\ LockDiscipline'
    BY <2>1 DEF SlotInv, SlotTypes, LockDiscipline
  <2> QED
    BY <2>1, <2>2, SettlingKeepsSlots DEF SlotInv, SlotTypes, SpeaksFor
<1> QED
  BY <1>1, <1>2, <1>3, <1>4

\* Retiring every pool leaves no record running on a current executor.
LEMMA OnShutdownKeeps ==
  ASSUME SlotInv, OnShutdown
  PROVE  SlotInv'
<1>1. /\ UNCHANGED <<status, request, slot, sgen, restart, lock, phase, pumping, dispatch>>
      /\ down' /\ egen' = [s \in Slot |-> egen[s] + 1]
  BY DEF OnShutdown, recordVars, lockVars, pumpVars
<1>2. SlotTypes' /\ LockDiscipline' /\ RunningUnfenced'
  BY <1>1 DEF SlotInv, SlotTypes, LockDiscipline, RunningUnfenced
<1>3. SpeaksAlone'
  <2> SUFFICES ASSUME NEW j \in Job, SpeaksFor(j)
               PROVE  slot[j] \in Slot /\ sgen[j] <= egen'[slot[j]] /\ sgen[j] # egen'[slot[j]]
    BY <1>1 DEF SpeaksAlone, SpeaksFor
  <2>1. slot[j] \in Slot /\ sgen[j] \in Nat /\ egen[slot[j]] \in Nat /\ sgen[j] <= egen[slot[j]]
    BY DEF SlotInv, SlotTypes, SpeaksAlone
  <2> QED
    BY <1>1, <2>1
<1> QED
  BY <1>2, <1>3 DEF SlotInv

-----------------------------------------------------------------------------
\* Every step of the broker keeps the invariant.
LEMMA NextKeepsSlotInv == SlotInv /\ [Next]_vars => SlotInv'
<1> SUFFICES ASSUME SlotInv, [Next]_vars PROVE SlotInv'
  OBVIOUS
<1>1. CASE UNCHANGED vars
  BY <1>1, SlotStutter DEF vars, slotView, recordVars, slotVars, lockVars, pumpVars, lifeVars
<1>2. CASE OnShutdown
  BY <1>2, OnShutdownKeeps
<1>3. CASE ~ down /\ Refresh
  BY <1>3, HandleFinishedFutureKeeps, ExpireDeadlineKeeps, EndFinishedFuturesKeeps, AnswersKeep
     DEF Refresh
<1>4. CASE ~ down /\ Rpc
  <2>1. CASE RefuseBusy
    BY <2>1, SlotStutter DEF RefuseBusy, slotView, recordVars, slotVars, lockVars, pumpVars, lifeVars
  <2> QED
    BY <1>4, <2>1, BeginKeeps, AnswersKeep DEF Rpc
<1>5. CASE ~ down /\ Pump
  <2>1. ASSUME NEW j \in Job, TakeExecutor(j) \/ Submit(j) PROVE SlotInv'
    BY <2>1, SlotStutter DEF TakeExecutor, Submit, slotView, recordVars, lockVars, lifeVars
  <2> QED
    BY <1>5, <2>1, BeginKeeps, SelectQueuedKeeps, SubmitFailsKeeps, PumpKeeps DEF Pump
<1>6. CASE ~ down /\ Workers
  <2>1. ASSUME NEW j \in Job, WorkerRun(j) \/ WorkerAnswer(j) PROVE SlotInv'
    BY <2>1, SlotStutter DEF WorkerRun, WorkerAnswer, slotView, recordVars, slotVars, lockVars,
                             pumpVars, lifeVars
  <2>2. ASSUME NEW s, NEW g, WorkerCrash(s, g) \/ WorkerExit(s, g) PROVE SlotInv'
    BY <2>2, SlotStutter DEF WorkerCrash, WorkerExit, slotView, recordVars, lockVars, pumpVars, lifeVars
  <2> QED
    BY <1>6, <2>1, <2>2 DEF Workers
<1>7. CASE ~ down /\ Lifecycle
  <2>1. ASSUME NEW c, Lease(c) \/ ReleaseLease(c) \/ ClientDies(c) PROVE SlotInv'
    BY <2>1, SlotStutter DEF Lease, ReleaseLease, ClientDies, slotView, recordVars, slotVars,
                             lockVars, pumpVars
  <2>2. CASE ShutdownLocked \/ ShutdownContended \/ ShutdownIfIdle
    BY <2>2, SlotStutter DEF ShutdownLocked, ShutdownContended, ShutdownIfIdle, slotView, recordVars,
                             slotVars, lockVars, pumpVars
  <2>3. CASE IdleAges \/ IdleShouldStop \/ Retire
    BY <2>3, SlotStutter DEF IdleAges, IdleShouldStop, Retire, slotView, recordVars, slotVars,
                             lockVars, pumpVars
  <2> QED
    BY <1>7, <2>1, <2>2, <2>3 DEF Lifecycle
<1>8. ASSUME (\E c \in Calls : AcceptCall(c)) \/ (\E j \in Job : Tick(j))
      PROVE  SlotInv'
  BY <1>8, SlotStutter DEF AcceptCall, Tick, slotView, recordVars, slotVars, lockVars,
                           pumpVars, lifeVars
<1> QED
  BY <1>1, <1>2, <1>3, <1>4, <1>5, <1>6, <1>7, <1>8 DEF Next, Running

\* The slot invariant holds in every state of the broker (_pump, _refresh_records, handle).
LEMMA SlotInvIsInvariant == Spec => []SlotInv
BY InitSlotInv, NextKeepsSlotInv, PTL DEF Spec

\* However records settle, executors break and deadlines fence, a running record owns its slot
\* alone and on the executor it was dispatched to (_pump, _quarantine_slot, _retire_broken_slot).
THEOREM SlotExclusiveHolds == Spec => []SlotExclusive
<1>1. SlotInv => SlotExclusive
  BY DEF SlotInv, SpeaksAlone, SpeaksFor, RunningUnfenced, SlotExclusive, Fenced
<1> QED
  BY <1>1, SlotInvIsInvariant, PTL

-----------------------------------------------------------------------------
(* The broker implements JobLedger.  What makes a stop clean: a drained broker has closed      *)
(* admission, and a broker that stopped for idleness has no handler that could still admit.    *)

StopInv ==
  /\ stop \in {"no", "drain", "idle", "retired"}
  /\ lock = "rpc" => call # NoCall
  /\ stop = "drain" => shutdown
  /\ stop = "idle" => call = NoCall
  /\ stop \in {"drain", "idle"} => \A j \in Job : status[j] \notin Active

\* No record leaves "absent" or becomes active again.
OnlySettles ==
  \A j \in Job : /\ status[j] = "absent" <=> status'[j] = "absent"
                 /\ status'[j] \in Active => status[j] \in Active

\* Settling records, as _mark_terminal does, is a step of the ledger.
LEMMA OnlySettlesSettles ==
  ASSUME OnlySettles, UNCHANGED <<shutdown, stop>>
  PROVE  Ledger!Settle
<1> DEFINE S == {j \in Job : status[j] \in Active /\ status'[j] \notin Active}
<1>1. S \in SUBSET Ledger!Owed
  BY DEF Ledger!Owed, ledgerView, Active
<1>2. ledgerView' = [j \in Job |-> IF j \in S THEN "settled" ELSE ledgerView[j]]
  BY DEF OnlySettles, ledgerView, Active
<1>3. UNCHANGED <<openView, endedView>>
  BY DEF openView, endedView
<1> QED
  BY <1>1, <1>2, <1>3 DEF Ledger!Settle

\* Most steps settle records or leave them alone.
LEMMA QuietStep ==
  ASSUME StopInv, OnlySettles, UNCHANGED <<shutdown, stop>>,
         lock' = "rpc" => call' # NoCall, stop = "idle" => call' = NoCall
  PROVE  StopInv' /\ Ledger!Next
<1>1. StopInv'
  BY DEF StopInv, OnlySettles
<1> QED
  BY <1>1, OnlySettlesSettles DEF Ledger!Next

\* The same for a step that leaves the call and the lock alone.
LEMMA QuietRecords ==
  ASSUME StopInv, OnlySettles, UNCHANGED <<shutdown, stop, lock, call>>
  PROVE  StopInv' /\ Ledger!Next
BY QuietStep DEF StopInv

\* A refresh (_refresh_records) only settles records, and admits or stops nothing.
LEMMA RefreshKeepsLedger ==
  ASSUME SlotInv, StopInv, Refresh
  PROVE  StopInv' /\ Ledger!Next
<1>1. ASSUME NEW j \in Job, HandleFinishedFuture(j) PROVE StopInv' /\ Ledger!Next
  <2>1. UNCHANGED <<shutdown, stop, lock, call>>
    BY <1>1 DEF HandleFinishedFuture, lifeVars
  <2>2. \/ status' = status
        \/ status[j] = "running" /\ \E r \in Settled : status' = [status EXCEPT ![j] = r]
    BY <1>1 DEF HandleFinishedFuture, Abandon, Complete, FailWith, ClaimArtifact, Claimable, Settled
  <2>3. OnlySettles
    BY <2>2 DEF OnlySettles, SlotInv, SlotTypes, Active, Settled
  <2> QED
    BY <2>1, <2>3, QuietRecords
<1>2. ASSUME NEW j \in Job, ExpireDeadline(j) PROVE StopInv' /\ Ledger!Next
  <2>1. UNCHANGED <<shutdown, stop, lock, call>> /\ status' = [status EXCEPT ![j] = "timed_out"]
    BY <1>2 DEF ExpireDeadline, lifeVars
  <2>2. OnlySettles
    BY <1>2, <2>1 DEF ExpireDeadline, OnlySettles, SlotInv, SlotTypes, Active
  <2> QED
    BY <2>1, <2>2, QuietRecords
<1>3. CASE EndFinishedFutures
  BY <1>3, QuietRecords DEF EndFinishedFutures, OnlySettles, recordVars, lifeVars
<1>4. CASE PruneRecords
  <2>1. UNCHANGED <<shutdown, stop, lock, call>>
    BY <1>4 DEF PruneRecords, lifeVars
  <2>2. OnlySettles
    BY <1>4 DEF PruneRecords, OnlySettles, Active, Settled
  <2> QED
    BY <2>1, <2>2, QuietRecords
<1> QED
  BY <1>1, <1>2, <1>3, <1>4 DEF Refresh

\* Admission: a queued record is owed from the moment lifecycle_admission_lock is released, and
\* that can happen neither after a drain nor after an idle stop.
LEMMA QueueRecordKeepsLedger ==
  ASSUME SlotInv, StopInv, NEW j \in Job, QueueRecord(j)
  PROVE  StopInv' /\ Ledger!Next
<1> DEFINE S == {i \in Job \ {j} : Supersedes(i, call.req)}
<1>1. /\ UNCHANGED <<shutdown, stop>> /\ ~ shutdown /\ status[j] = "absent"
      /\ lock = "rpc" /\ lock' = "free" /\ call' = NoCall /\ stop \notin {"drain", "idle"}
  BY DEF QueueRecord, SubmitValidated, Answering, Admitted, Fresh, EndCall, Release, lifeVars, StopInv
<1>2. status' = [i \in Job |-> IF i = j THEN "queued"
                               ELSE IF i \in S THEN "superseded" ELSE status[i]]
  BY DEF QueueRecord
<1>3. S \in SUBSET Ledger!Owed
  BY DEF Supersedes, Ledger!Owed, ledgerView, Active
<1>4. ledgerView' = [i \in Job |-> IF i = j THEN "owed"
                                   ELSE IF i \in S THEN "settled" ELSE ledgerView[i]]
  BY <1>2 DEF ledgerView, Supersedes, Active
<1>5. openView /\ endedView # "clean" /\ ledgerView[j] = "none" /\ UNCHANGED <<openView, endedView>>
  BY <1>1 DEF StopInv, openView, endedView, ledgerView
<1>6. Ledger!Accept(j)
  BY <1>3, <1>4, <1>5 DEF Ledger!Accept
<1> QED
  BY <1>1, <1>6 DEF StopInv, Ledger!Next

\* An RPC handler (handle) queues one record, settles some or changes none.
LEMMA RpcKeepsLedger ==
  ASSUME SlotInv, StopInv, Rpc
  PROVE  StopInv' /\ Ledger!Next
<1>1. CASE RefuseBusy
  BY <1>1, QuietStep DEF RefuseBusy, OnlySettles, recordVars, lockVars, lifeVars
<1>2. CASE BeginCall
  BY <1>2, QuietStep DEF BeginCall, BeginRefresh, OnlySettles, NoCall, StopInv, recordVars, lifeVars
<1>3. CASE AnswerRead \/ RefuseSubmission \/ \E j \in Job : Coalesce(j)
  BY <1>3, QuietStep DEF AnswerRead, RefuseSubmission, Coalesce, EndCall, Release, OnlySettles,
                         recordVars, lifeVars
<1>4. ASSUME NEW j \in Job, Cancel(j) PROVE StopInv' /\ Ledger!Next
  <2>1. /\ UNCHANGED <<shutdown, stop>> /\ lock = "free" /\ lock' = lock /\ call' = NoCall
        /\ \/ status' = status
           \/ status[j] \in Active /\ status' = [status EXCEPT ![j] = "cancelled"]
    BY <1>4 DEF Cancel, CancelQueued, CancelPending, RefuseCancel, CancelNothing, Active, lockVars,
                lifeVars
  <2>2. OnlySettles
    BY <2>1 DEF OnlySettles, SlotInv, SlotTypes, Active
  <2> QED
    BY <2>1, <2>2, QuietStep
<1> QED
  BY <1>1, <1>2, <1>3, <1>4, QueueRecordKeepsLedger DEF Rpc

\* The scheduler (_pump) settles records and stops the broker only when the work has drained.
LEMMA PumpKeepsLedger ==
  ASSUME SlotInv, StopInv, Pump
  PROVE  StopInv' /\ Ledger!Next
<1>1. CASE BeginPump
  BY <1>1, QuietStep DEF BeginPump, BeginRefresh, OnlySettles, StopInv, recordVars, lifeVars
<1>2. CASE LeaveLock
  BY <1>2, QuietStep DEF LeaveLock, Release, OnlySettles, StopInv, recordVars, lifeVars
<1>3. ASSUME NEW l \in Lane, NEW j \in Job, SelectQueued(l, j) PROVE StopInv' /\ Ledger!Next
  <2>1. /\ UNCHANGED <<shutdown, stop, lock, call>> /\ status[j] = "queued"
        /\ \E r \in Settled \cup {"running"} : status' = [status EXCEPT ![j] = r]
    BY <1>3 DEF SelectQueued, IsNextQueued, Supersede, ExpireAtDispatch, RefuseQuarantined,
                MarkRunning, Settled, lockVars, lifeVars
  <2>2. OnlySettles
    BY <2>1 DEF OnlySettles, SlotInv, SlotTypes, Active, Settled
  <2> QED
    BY <2>1, <2>2, QuietRecords
<1>4. ASSUME NEW j \in Job, NEW verified \in BOOLEAN, FinalizeArtifact(j, verified)
      PROVE  StopInv' /\ Ledger!Next
  <2>1. /\ UNCHANGED <<shutdown, stop, lock, call>>
        /\ \/ status' = status
           \/ status[j] = "running" /\ \E r \in Settled : status' = [status EXCEPT ![j] = r]
    BY <1>4 DEF FinalizeArtifact, Settled, lockVars, lifeVars
  <2>2. OnlySettles
    BY <2>1 DEF OnlySettles, SlotInv, SlotTypes, Active, Settled
  <2> QED
    BY <2>1, <2>2, QuietRecords
<1>5. ASSUME NEW j \in Job, TakeExecutor(j) \/ Submit(j) \/ Attach(j) PROVE StopInv' /\ Ledger!Next
  BY <1>5, QuietRecords DEF TakeExecutor, Submit, Attach, OnlySettles, recordVars, lockVars, lifeVars
<1>6. ASSUME NEW j \in Job, SubmitFails(j) PROVE StopInv' /\ Ledger!Next
  <2>1. /\ UNCHANGED <<shutdown, stop, lock, call>>
        /\ status' = [status EXCEPT ![j] = IF Recorded(j) THEN "failed" ELSE @]
    BY <1>6 DEF SubmitFails, lockVars, lifeVars
  <2>2. OnlySettles
    BY <2>1 DEF OnlySettles, SlotInv, SlotTypes, Recorded, Active
  <2> QED
    BY <2>1, <2>2, QuietRecords
<1>7. CASE EndPump
  <2>1. /\ UNCHANGED <<status, shutdown, lock, call>>
        /\ stop' = stop \/ (stop = "no" /\ stop' = "drain" /\ shutdown /\ ~ HasActiveWork)
    BY <1>7 DEF EndPump, Drained, recordVars, lockVars
  <2>2. CASE stop' = stop
    BY <2>1, <2>2, QuietRecords DEF OnlySettles
  <2>3. CASE stop = "no" /\ stop' = "drain" /\ shutdown /\ ~ HasActiveWork
    <3>1. StopInv'
      BY <2>1, <2>3 DEF StopInv, HasActiveWork
    <3>2. Ledger!EndClean
      BY <2>1, <2>3 DEF Ledger!EndClean, Ledger!Owed, ledgerView, openView, endedView, HasActiveWork
    <3> QED
      BY <3>1, <3>2 DEF Ledger!Next
  <2> QED
    BY <2>1, <2>2, <2>3
<1> QED
  BY <1>1, <1>2, <1>3, <1>4, <1>5, <1>6, <1>7 DEF Pump

\* Shutdown, idle retirement and signals end the broker cleanly only when it owes nothing.
LEMMA LifecycleKeepsLedger ==
  ASSUME StopInv, Lifecycle
  PROVE  StopInv' /\ Ledger!Next
<1>1. ASSUME NEW c, Lease(c) \/ ReleaseLease(c) \/ ClientDies(c) PROVE StopInv' /\ Ledger!Next
  BY <1>1, QuietRecords DEF Lease, ReleaseLease, ClientDies, OnlySettles, recordVars, lockVars
<1>2. CASE IdleAges
  BY <1>2, QuietRecords DEF IdleAges, OnlySettles, recordVars, lockVars
<1>3. CASE ShutdownLocked \/ ShutdownContended \/ ShutdownIfIdle
  <2>1. /\ UNCHANGED <<status, lock, call>> /\ stop = "no"
        /\ \/ UNCHANGED <<shutdown, stop>>
           \/ shutdown' = TRUE /\ stop' = stop
           \/ shutdown' = TRUE /\ stop' = "drain" /\ ~ HasActiveWork
    BY <1>3 DEF ShutdownLocked, ShutdownContended, ShutdownIfIdle, recordVars, lockVars
  <2>2. CASE UNCHANGED <<shutdown, stop>>
    BY <2>1, <2>2, QuietRecords DEF OnlySettles
  <2>3. CASE shutdown' = TRUE /\ stop' = stop
    <3>1. Ledger!Close
      BY <2>1, <2>3 DEF Ledger!Close, ledgerView, openView, endedView
    <3> QED
      BY <2>1, <2>3, <3>1 DEF StopInv, Ledger!Next
  <2>4. CASE shutdown' = TRUE /\ stop' = "drain" /\ ~ HasActiveWork
    <3>1. StopInv'
      BY <2>1, <2>4 DEF StopInv, HasActiveWork
    <3>2. Ledger!EndClean
      BY <2>1, <2>4 DEF Ledger!EndClean, Ledger!Owed, ledgerView, openView, endedView, HasActiveWork
    <3> QED
      BY <3>1, <3>2 DEF Ledger!Next
  <2> QED
    BY <2>1, <2>2, <2>3, <2>4
<1>4. CASE IdleShouldStop
  <2>1. /\ UNCHANGED <<status, shutdown, lock, call>> /\ stop = "no" /\ lock = "free" /\ call = NoCall
        /\ \/ stop' = stop
           \/ stop' = "drain" /\ shutdown /\ ~ HasActiveWork
           \/ stop' = "idle" /\ ~ HasActiveWork
    BY <1>4 DEF IdleShouldStop, NoHandler, Drained, recordVars, lockVars
  <2>2. CASE stop' = stop
    BY <2>1, <2>2, QuietRecords DEF OnlySettles
  <2>3. CASE stop' \in {"drain", "idle"} /\ (stop' = "drain" => shutdown) /\ ~ HasActiveWork
    <3>1. StopInv'
      BY <2>1, <2>3 DEF StopInv, HasActiveWork
    <3>2. Ledger!EndClean
      BY <2>1, <2>3 DEF Ledger!EndClean, Ledger!Owed, ledgerView, openView, endedView, HasActiveWork
    <3> QED
      BY <3>1, <3>2 DEF Ledger!Next
  <2> QED
    BY <2>1, <2>2, <2>3
<1>5. CASE Retire
  <2>1. UNCHANGED <<status, shutdown, lock, call>> /\ stop = "no" /\ stop' = "retired"
    BY <1>5 DEF Retire, recordVars, lockVars
  <2>2. Ledger!Kill
    BY <2>1 DEF Ledger!Kill, ledgerView, openView, endedView
  <2> QED
    BY <2>1, <2>2 DEF StopInv, Ledger!Next
<1> QED
  BY <1>1, <1>2, <1>3, <1>4, <1>5 DEF Lifecycle

\* Every step of the broker is a step of the ledger, or none, and keeps the stop invariant.
LEMMA NextKeepsLedger ==
  ASSUME SlotInv, StopInv, [Next]_vars
  PROVE  StopInv' /\ [Ledger!Next]_(Ledger!vars)
<1>1. CASE UNCHANGED vars
  BY <1>1 DEF vars, recordVars, lockVars, lifeVars, StopInv, Ledger!vars, ledgerView, openView, endedView
<1>2. CASE OnShutdown
  BY <1>2, QuietRecords DEF OnShutdown, OnlySettles, recordVars, lockVars
<1>3. CASE Workers
  <2>1. ASSUME NEW j \in Job, WorkerRun(j) \/ WorkerAnswer(j) PROVE StopInv' /\ Ledger!Next
    BY <2>1, QuietRecords DEF WorkerRun, WorkerAnswer, OnlySettles, recordVars, lockVars, lifeVars
  <2>2. ASSUME NEW s, NEW g, WorkerCrash(s, g) \/ WorkerExit(s, g) PROVE StopInv' /\ Ledger!Next
    BY <2>2, QuietRecords DEF WorkerCrash, WorkerExit, OnlySettles, recordVars, lockVars, lifeVars
  <2> QED
    BY <1>3, <2>1, <2>2 DEF Workers
<1>4. ASSUME NEW c \in Calls, AcceptCall(c) PROVE StopInv' /\ Ledger!Next
  BY <1>4, QuietStep DEF AcceptCall, Calls, NoCall, OnlySettles, StopInv, recordVars, lockVars, lifeVars
<1>5. CASE \E j \in Job : Tick(j)
  BY <1>5, QuietRecords DEF Tick, OnlySettles, recordVars, lockVars, lifeVars
<1> QED
  BY <1>1, <1>2, <1>3, <1>4, <1>5, RefreshKeepsLedger, RpcKeepsLedger, PumpKeepsLedger,
     LifecycleKeepsLedger DEF Next, Running

\* Once the broker has stopped by itself nothing is owed and no handler can queue a record any more.
LEMMA StopInvIsInvariant == Spec => []StopInv
<1>1. Init => StopInv
  BY DEF Init, StopInv, Active
<1>2. SlotInv /\ StopInv /\ [Next]_vars => StopInv'
  BY NextKeepsLedger
<1> QED
  BY <1>1, <1>2, SlotInvIsInvariant, PTL DEF Spec

\* A broker that stopped by itself, drained or idle, has left no accepted job behind
\* (_finish_requested_shutdown_if_drained, claim_gated_idle_due).
THEOREM CleanStopHolds == Spec => []CleanStop
<1>1. StopInv => CleanStop
  BY DEF StopInv, CleanStop
<1> QED
  BY <1>1, StopInvIsInvariant, PTL

\* The broker implements the ledger its clients see: jobs are accepted while admission is open,
\* settled once, and lost only to a kill.
THEOREM BrokerKeepsLedger == Spec => KeepsLedger
<1>1. Init => Ledger!Init
  BY DEF Init, Ledger!Init, ledgerView, openView, endedView
<1>2. SlotInv /\ StopInv /\ [Next]_vars => [Ledger!Next]_(Ledger!vars)
  BY NextKeepsLedger
<1> QED
  BY <1>1, <1>2, SlotInvIsInvariant, StopInvIsInvariant, PTL DEF Spec, Ledger!Spec, KeepsLedger
=============================================================================
