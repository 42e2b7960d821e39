-------------------------- MODULE BrokerTypeProofs --------------------------
(***************************************************************************)
(* The types of the broker's state, for every value of its constants.      *)
(***************************************************************************)
EXTENDS BrokerProofs

\* What the types rest on: a record, a future and a dispatch belong to an accepted submission, and
\* a handler that submits has a validated request.
Accepted ==
  /\ \A j \in Job : status[j] # "absent" => request[j] \in Request
  /\ \A j \in Job : future[j] # "none" \/ j \in dispatch => status[j] # "absent"
  /\ call.op \in {"submit", "produce"} => call.req \in Request

TypeInv == TypeOK /\ Accepted

\* A record that is being dispatched, or runs, has been given a slot.
LEMMA DispatchedHasSlot ==
  ASSUME SlotInv, NEW j \in Job, status[j] = "running" \/ j \in dispatch PROVE slot[j] \in Slot
BY DEF SlotInv, SpeaksAlone, SpeaksFor

\* A pass works on records.
LEMMA PassIsAboutJobs ==
  ASSUME attached \subseteq Job PROVE FinishedFutures \subseteq Job
BY DEF FinishedFutures

LEMMA ExpiredAreJobs == Expired \subseteq Job
BY DEF Expired

\* store_inline keeps the generation of a product or marks it dropped.
LEMMA StoreInlineTypes ==
  ASSUME inline \in [Key -> Nat \cup {Absent}], evicted \subseteq Job, NEW k, NEW g \in Nat,
         StoreInline(k, g)
  PROVE  inline' \in [Key -> Nat \cup {Absent}] /\ evicted' \subseteq Job
<1>1. CASE KeepsNewer(k, g)
  BY <1>1 DEF StoreInline, productVars
<1>2. CASE ~ KeepsNewer(k, g)
  <2>1. PICK G, D : /\ inline' = [x \in Key |-> IF x \in G THEN Absent ELSE IF x = k THEN g ELSE inline[x]]
                    /\ evicted' = evicted \cup {j \in Job : D[j]}
    <3>1. PICK n \in 0 .. Len(MovedToEnd(k)) - 1 :
            LET gone == {MovedToEnd(k)[m] : m \in 1 .. n}
            IN  /\ inline' = [x \in Key |-> IF x \in gone THEN Absent ELSE IF x = k THEN g ELSE inline[x]]
                /\ evicted' = evicted \cup {j \in Job : status'[j] = "completed" /\ request[j].key \in gone}
      BY <1>2 DEF StoreInline
    <3> DEFINE gone == {MovedToEnd(k)[m] : m \in 1 .. n}
               D == [j \in Job |-> status'[j] = "completed" /\ request[j].key \in gone]
    <3>2. {j \in Job : status'[j] = "completed" /\ request[j].key \in gone} = {j \in Job : D[j]}
      OBVIOUS
    <3> HIDE DEF gone
    <3> QED
      BY <3>1, <3>2 DEF gone
  <2> QED
    BY <2>1
<1> QED
  BY <1>1, <1>2

LEMMA TypeStep == SlotInv /\ TypeInv /\ [Next]_vars => TypeInv'
<1> SUFFICES ASSUME SlotInv, TypeInv, [Next]_vars PROVE TypeInv'
  OBVIOUS
<1> USE BrokerConstants 
  DEF TypeInv, TypeOK, Accepted, recordVars, workerVars, slotVars, lockVars, pumpVars, productVars, storeVars,
      lifeVars, Active, Settled, Unfinished, Finished, NoSlot, Absent, NoCall, NotHolding, Recorded
<1>1. ASSUME NEW j \in Job, HandleFinishedFuture(j) PROVE TypeInv'
  <2> USE <1>1 DEF HandleFinishedFuture, Claimable
  <2>1. CASE Abandon(j)
    BY <2>1 DEF Abandon
  <2>2. CASE Complete(j)
    <3>1. request[j] \in Request /\ request[j].generation \in Nat
      <4>1. status[j] = "running"
        BY <2>2 DEF Complete
      <4> QED
        BY <4>1
    <3>2. inline' \in [Key -> Nat \cup {Absent}] /\ evicted' \subseteq Job
      BY <2>2, <3>1, StoreInlineTypes DEF Complete
    <3>3. UNCHANGED <<artifact, attached, failure, restart, finalizing>>
      BY <2>2 DEF Complete
    <3>4. status' = [status EXCEPT ![j] = "completed"]
      BY <2>2 DEF Complete
    <3>5. \A i \in Job : status'[i] = status[i] \/ (status'[i] = "completed" /\ status[i] = "running")
      <4>1. status[j] = "running"
        BY <2>2 DEF Complete
      <4> QED
        BY <3>4, <4>1
    <3>6. Accepted'
      BY <3>3, <3>5
    <3>7. status' \in [Job -> {"absent", "pruned"} \cup Active \cup Settled]
      BY <3>4
    <3>8. /\ \A i \in Job : Recorded(i)' => request'[i] \in Request
          /\ \A i \in Job : status'[i] = "running" => slot'[i] \in Slot
      BY <3>5
    <3> HIDE <2>2, <3>4, <3>5
    <3>9. TypeOK'
      BY <3>2, <3>3, <3>7, <3>8
    <3> QED
      BY <3>6, <3>9
  <2>3. CASE FailWith(j)
    BY <2>3 DEF FailWith
  <2>4. CASE ClaimArtifact(j)
    BY <2>4 DEF ClaimArtifact
  <2> QED
    BY <2>1, <2>2, <2>3, <2>4
<1>2. ASSUME NEW j \in Job, ExpireDeadline(j) PROVE TypeInv'
  <2>1. CASE status[j] = "running" /\ Quarantinable(j)
    <3>1. slot[j] \in Slot
      BY <2>1
    <3>2. QuarantineSlot(slot[j])
      BY <1>2, <2>1 DEF ExpireDeadline
    <3>3. executor' \in [Slot -> {"none", "up", "broken"}]
      BY <3>2 DEF QuarantineSlot
    <3>4. egen' \in [Slot -> Nat]
      BY <3>1, <3>2 DEF QuarantineSlot
    <3>5. preds' \in [Slot -> SUBSET Nat]
      BY <3>1, <3>2 DEF QuarantineSlot
    <3>6. PICK C \in SUBSET Job :
            future' = [i \in Job |-> IF i \in C THEN "cancelled" ELSE future[i]]
          /\ \A i \in C : future[i] = "pending"
      BY <3>2 DEF QuarantineSlot
    <3>7. /\ future' \in [Job -> {"none"} \cup Unfinished \cup Finished]
          /\ \A i \in Job : future'[i] # "none" => future[i] # "none"
      BY <3>6
    <3>8. /\ status' \in [Job -> {"absent", "pruned"} \cup Active \cup Settled]
          /\ \A i \in Job : status'[i] = "running" => status[i] = "running"
          /\ \A i \in Job : status'[i] \in {"absent", "pruned"} <=> status[i] \in {"absent", "pruned"}
          /\ \A i \in Job : status'[i] = "absent" <=> status[i] = "absent"
      BY <1>2 DEF ExpireDeadline
    <3>9. TypeOK'
      BY <1>2, <3>3, <3>4, <3>5, <3>7, <3>8 DEF ExpireDeadline
    <3>10. Accepted'
      BY <1>2, <3>7, <3>8 DEF ExpireDeadline
    <3> QED
      BY <3>9, <3>10
  <2>2. CASE UNCHANGED <<future, executor, egen, preds>>
    BY <1>2, <2>2 DEF ExpireDeadline
  <2> QED
    BY <1>2, <2>1, <2>2 DEF ExpireDeadline
<1>3. ASSUME NEW j \in Job, Coalesce(j) PROVE TypeInv'
  BY <1>3 DEF Coalesce, EndCall, Release
<1>4. ASSUME NEW j \in Job, QueueRecord(j) PROVE TypeInv'
  <2>1. call.req \in Request /\ call' = NoCall
    BY <1>4 DEF QueueRecord, SubmitValidated, EndCall
  <2>2. /\ status' \in [Job -> {"absent", "pruned"} \cup Active \cup Settled] /\ status'[j] = "queued"
        /\ \A i \in Job : status'[i] = "running" => status[i] = "running"
        /\ \A i \in Job \ {j} : status'[i] = "absent" <=> status[i] = "absent"
    BY <1>4 DEF QueueRecord, Supersedes
  <2>3. /\ request' \in [Job -> Request \cup {NoRequest}]
        /\ \A i \in Job : status'[i] # "absent" => request'[i] \in Request
    BY <1>4, <2>1, <2>2 DEF QueueRecord
  <2> QED
    BY <1>4, <2>1, <2>2, <2>3 DEF QueueRecord, EndCall, Release
<1>5. ASSUME NEW j \in Job, Cancel(j) PROVE TypeInv'
  <2> USE <1>5 DEF Cancel
  <2>1. CASE CancelQueued(j)
    BY <2>1 DEF CancelQueued
  <2>2. CASE CancelPending(j)
    BY <2>2 DEF CancelPending
  <2>3. CASE RefuseCancel(j)
    BY <2>3 DEF RefuseCancel
  <2>4. CASE CancelNothing(j)
    BY <2>4 DEF CancelNothing
  <2> QED
    BY <2>1, <2>2, <2>3, <2>4
<1>6. ASSUME NEW j \in Job, TakeExecutor(j) PROVE TypeInv'
  <2>1. slot[j] \in Slot
    BY <1>6, DispatchedHasSlot DEF TakeExecutor
  <2>2. holding' \in [job : Job \cup {0}, generation : Nat]
    BY <1>6, <2>1 DEF TakeExecutor
  <2> QED
    BY <1>6, <2>1, <2>2 DEF TakeExecutor
<1>7. ASSUME NEW j \in Job, Submit(j) PROVE TypeInv'
  <2>1. slot[j] \in Slot /\ holding.generation \in Nat
    BY <1>7, DispatchedHasSlot DEF Submit, Holds
  <2>2. alive' \subseteq Slot \X Nat
    BY <1>7, <2>1 DEF Submit
  <2>3. holding' \in [job : Job \cup {0}, generation : Nat]
    BY <1>7 DEF Submit
  <2> QED
    BY <1>7, <2>1, <2>2, <2>3 DEF Submit, Holds
<1>8. ASSUME NEW j \in Job, Attach(j) PROVE TypeInv'
  BY <1>8 DEF Attach
<1>9. ASSUME NEW j \in Job, SubmitFails(j) PROVE TypeInv'
  <2>1. slot[j] \in Slot
    BY <1>9, DispatchedHasSlot DEF SubmitFails, Holds
  <2>2. executor' \in [Slot -> {"none", "up", "broken"}] /\ egen' \in [Slot -> Nat]
    <3>1. CASE UNCHANGED <<executor, egen>>
      BY <3>1
    <3>2. CASE /\ executor' = [executor EXCEPT ![slot[j]] = "none"]
               /\ egen' = [egen EXCEPT ![slot[j]] = @ + 1]
      BY <2>1, <3>2
    <3> QED
      BY <1>9, <3>1, <3>2 DEF SubmitFails
  <2>3. holding' \in [job : Job \cup {0}, generation : Nat]
    BY <1>9 DEF SubmitFails
  <2>4. status' \in [Job -> {"absent", "pruned"} \cup Active \cup Settled]
        /\ \A i \in Job : status'[i] = "absent" <=> status[i] = "absent"
    BY <1>9 DEF SubmitFails
  <2> QED
    BY <1>9, <2>2, <2>3, <2>4 DEF SubmitFails
<1>10. ASSUME NEW j \in Job, WorkerRun(j) PROVE TypeInv'
  BY <1>10 DEF WorkerRun
<1>11. ASSUME NEW j \in Job, WorkerAnswer(j) PROVE TypeInv'
  BY <1>11 DEF WorkerAnswer, Answers
<1>12. ASSUME NEW j \in Job, Tick(j) PROVE TypeInv'
  BY <1>12 DEF Tick
<1>13. ASSUME EndFinishedFutures PROVE TypeInv'
  BY <1>13, ExpiredAreJobs DEF EndFinishedFutures, Reaped
<1>14. ASSUME PruneRecords PROVE TypeInv'
  BY <1>14 DEF PruneRecords
<1>15. ASSUME RefuseBusy PROVE TypeInv'
  BY <1>15 DEF RefuseBusy
<1>16. ASSUME BeginCall PROVE TypeInv'
  BY <1>16, PassIsAboutJobs DEF BeginCall, BeginRefresh
<1>17. ASSUME AnswerRead PROVE TypeInv'
  BY <1>17 DEF AnswerRead, EndCall, Release
<1>18. ASSUME RefuseSubmission PROVE TypeInv'
  BY <1>18 DEF RefuseSubmission, EndCall, Release
<1>19. ASSUME BeginPump PROVE TypeInv'
  BY <1>19, PassIsAboutJobs DEF BeginPump, BeginRefresh
<1>20. ASSUME LeaveLock PROVE TypeInv'
  BY <1>20 DEF LeaveLock, Release
<1>21. ASSUME EndPump PROVE TypeInv'
  BY <1>21 DEF EndPump
<1>22. ASSUME ShutdownLocked PROVE TypeInv'
  BY <1>22 DEF ShutdownLocked
<1>23. ASSUME ShutdownContended PROVE TypeInv'
  BY <1>23 DEF ShutdownContended
<1>24. ASSUME ShutdownIfIdle PROVE TypeInv'
  BY <1>24 DEF ShutdownIfIdle
<1>25. ASSUME IdleAges PROVE TypeInv'
  BY <1>25 DEF IdleAges
<1>26. ASSUME IdleShouldStop PROVE TypeInv'
  BY <1>26 DEF IdleShouldStop
<1>27. ASSUME Retire PROVE TypeInv'
  BY <1>27 DEF Retire
<1>28. ASSUME OnShutdown PROVE TypeInv'
  BY <1>28 DEF OnShutdown
<1>29. ASSUME NEW c \in Client, Lease(c) PROVE TypeInv'
  BY <1>29 DEF Lease
<1>30. ASSUME NEW c \in Client, ReleaseLease(c) PROVE TypeInv'
  BY <1>30 DEF ReleaseLease
<1>31. ASSUME NEW c \in Client, ClientDies(c) PROVE TypeInv'
  BY <1>31 DEF ClientDies
<1>32. ASSUME NEW c \in Calls, AcceptCall(c) PROVE TypeInv'
  BY <1>32 DEF AcceptCall, Calls
<1>33. ASSUME NEW l \in Lane, NEW j \in Job, SelectQueued(l, j) PROVE TypeInv'
  <2>1. PICK s \in Slot : \/ Supersede(j) \/ ExpireAtDispatch(j) \/ RefuseQuarantined(j, s)
                            \/ MarkRunning(j, s)
    BY <1>33 DEF SelectQueued, FreeSlots
  <2>2. status[j] = "queued"
    BY <1>33 DEF SelectQueued, IsNextQueued
  <2>3. CASE Supersede(j) \/ ExpireAtDispatch(j) \/ RefuseQuarantined(j, s)
    <3>1. /\ \E r \in {"superseded", "timed_out", "failed"} : status' = [status EXCEPT ![j] = r]
          /\ UNCHANGED <<slot, sgen, dispatch>>
      BY <2>3 DEF Supersede, ExpireAtDispatch, RefuseQuarantined
    <3>2. UNCHANGED <<request, age, failure, attached, workerVars, slotVars, lockVars, call,
                      pumping, finalizing, holding, storeVars, lifeVars, told>>
      BY <1>33 DEF SelectQueued
    <3> HIDE <1>33
    <3> QED
      BY <2>2, <3>1, <3>2
  <2>4. CASE MarkRunning(j, s)
    BY <1>33, <2>2, <2>4 DEF SelectQueued, MarkRunning
  <2> QED
    BY <2>1, <2>3, <2>4
<1>34. ASSUME NEW j \in Job, NEW verified \in BOOLEAN, FinalizeArtifact(j, verified) PROVE TypeInv'
  BY <1>34 DEF FinalizeArtifact, Key
<1>35. ASSUME NEW x \in alive, WorkerCrash(x[1], x[2]) PROVE TypeInv'
  BY <1>35 DEF WorkerCrash
<1>36. ASSUME NEW x \in alive, WorkerExit(x[1], x[2]) PROVE TypeInv'
  BY <1>36 DEF WorkerExit
<1>37. CASE UNCHANGED vars
  BY <1>37 DEF vars
<1> HIDE DEF TypeInv, TypeOK, Accepted
<1> QED
  BY <1>1, <1>2, <1>3, <1>4, <1>5, <1>6, <1>7, <1>8, <1>9, <1>10, <1>11, <1>12, <1>13, <1>14,
     <1>15, <1>16, <1>17, <1>18, <1>19, <1>20, <1>21, <1>22, <1>23, <1>24, <1>25, <1>26, <1>27,
     <1>28, <1>29, <1>30, <1>31, <1>32, <1>33, <1>34, <1>35, <1>36, <1>37
  DEF Next, Running, Refresh, Rpc, Pump, Workers, Lifecycle

\* __init__ builds well-typed records and stores, and every step keeps them so.
LEMMA TypeInvIsInvariant == Spec => []TypeInv
<1>1. Init => TypeInv
  <2> SUFFICES ASSUME Init PROVE TypeOK /\ Accepted
    BY DEF TypeInv
  <2>1. Accepted
    BY DEF Init, Accepted
  <2>2. NotHolding \in [job : Job \cup {0}, generation : Nat] /\ Absent \in {Absent} /\ 0 \in 0 .. 2
    BY DEF NotHolding
  <2>3. TypeOK
    BY <2>2 DEF Init, TypeOK, Active, Settled, Unfinished, Finished, Recorded
  <2> QED
    BY <2>1, <2>3
<1> QED
  BY <1>1, TypeStep, SlotInvIsInvariant, PTL DEF Spec

\* The records, slots, stores and threads keep to the values that __init__ and the handlers give
\* them: among others, a running record has a slot and every live record a validated request.
THEOREM TypeCorrect == Spec => []TypeOK
<1>1. TypeInv => TypeOK
  BY DEF TypeInv
<1> QED
  BY <1>1, TypeInvIsInvariant, PTL

=============================================================================
