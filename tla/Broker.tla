------------------------------- MODULE Broker -------------------------------
(***************************************************************************)
(* The job broker `batchd`: yolomux_lib/infra/batchd.py, the class         *)
(* PersistentJobBroker and the inline half of its JobProductStore.         *)
(*                                                                         *)
(* One process, three kinds of thread: RPC handlers, which try-lock        *)
(* state_lock and are refused as busy when they lose; the scheduler        *)
(* thread, which runs _pump and holds state_lock only for part of it; and  *)
(* the listener, whose idle tick decides retirement.  Behind them, one     *)
(* single-worker process pool per executor slot.                           *)
(*                                                                         *)
(* A refresh of the records (_refresh_records) is a sequence of steps      *)
(* taken under state_lock, one per record it touches: worker processes,    *)
(* clocks and the scheduler's off-lock half keep moving in between.        *)
(*                                                                         *)
(* A definition marked "wrong variant" is in no action: it is the mistake  *)
(* that the properties are shown to catch in the definition after it.      *)
(***************************************************************************)
EXTENDS Integers, FiniteSets, Sequences

CONSTANTS
  MaxJobs,         \* bound: job ids are 1..MaxJobs, given out in submission order
  Lane,            \* scheduler lanes (BATCHD_LANE_PRIORITIES keys)
  LanePriorities,  \* lane -> its priorities, most urgent first
  Slots,           \* number of executor slots over all lanes
  LaneOfSlot,      \* slot -> the lane that owns it; lower slots are tried first
  Request,         \* the submissions clients may make
  ClientOps,       \* the job operations clients use: "submit", "produce", "read", "cancel"
  Client,          \* processes that may hold a service lease
  Stops,           \* the ways this run may end: "shutdown", "shutdown_if_idle", "idle", "retire"
  MaxQueue,        \* BATCHD_MAX_QUEUE, per lane
  MaxRecords,      \* BATCHD_MAX_RECORDS
  MaxProducts,     \* BATCHD_MAX_PRODUCTS
  MaxArtifacts,    \* BATCHD_MAX_ARTIFACTS
  MaxQuarantined   \* BATCHD_MAX_QUARANTINED_PREDECESSORS, daemon wide

Job == 1 .. MaxJobs
Slot == 1 .. Slots
Priority == UNION { {LanePriorities[l][n] : n \in DOMAIN LanePriorities[l]} : l \in Lane }
Key == {r.key : r \in Request}
NoSlot == 0
Absent == -1     \* the generation of a product that is not retained
NoRequest == [key |-> "none"]
NotHolding == [job |-> 0, generation |-> 0]

ASSUME BrokerConstants ==
  /\ MaxJobs \in Nat /\ Slots \in Nat \ {0}
  /\ LaneOfSlot \in [Slot -> Lane]
  /\ \A k, l \in Lane : \A m \in DOMAIN LanePriorities[k], n \in DOMAIN LanePriorities[l] :
        LanePriorities[k][m] = LanePriorities[l][n] => k = l
  /\ \A r \in Request :
        /\ r.generation \in Nat /\ r.timed \in BOOLEAN /\ r.fresh \in BOOLEAN
        /\ r.priority \in Priority /\ r.kind \in {"read", "transfer", "delete"}
  /\ {MaxQueue, MaxRecords, MaxArtifacts, MaxQuarantined} \subseteq Nat /\ MaxProducts \in Nat \ {0}

VARIABLES
  \* --- JobRecord
  status,      \* job -> record status; "absent" before acceptance, "pruned" after removal
  request,     \* job -> the validated submission it was queued for
  age,         \* job -> 0 in time, 1 past its deadline, 2 past the running backstop
  slot,        \* job -> executor_slot
  sgen,        \* job -> executor_generation
  failure,     \* job -> record.failure carries the paths a partial operation changed
  attached,    \* jobs whose record.future is set
  \* --- the future and the worker behind it
  future,      \* job -> state of its future
  home,        \* job -> generation of the executor the future was submitted to
  \* --- ExecutorSlot
  executor,    \* slot -> "none", "up" or "broken"
  egen,        \* slot -> generation
  preds,       \* slot -> generations of its quarantined predecessors
  alive,       \* <<slot, generation>> of every executor whose worker process lives
  \* --- state_lock and the threads that take it
  lock,        \* "free", "pump" or "rpc"
  phase,       \* how far the lock owner's refresh is
  due,         \* records this pass has still to handle
  answered,    \* jobs whose worker had answered when this refresh began
  restart,     \* restart_slots of this pass
  call,        \* the accepted RPC that has not finished
  pumping,     \* the scheduler is in the off-lock half of _pump
  finalizing,  \* records with artifact_finalizing set
  dispatch,    \* records selected to run and not yet attached to a future
  holding,     \* the record being dispatched and the executor fetched for it
  \* --- JobProductStore
  inline,      \* key -> generation of the retained inline product
  stored,      \* keys with an inline product, oldest stored_at first
  artifact,    \* key -> generation of the retained artifact
  \* --- lifecycle
  shutdown,    \* shutdown_requested
  stop,        \* why stop_event was set, "no" while it is not
  down,        \* _on_shutdown has run
  leases,      \* clients holding a lease
  dead,        \* clients that died without releasing
  idle,        \* idle_seconds passed since the last tick that saw a claim
  \* --- history, read by no action
  told,        \* jobs a cancel reported ok while they were not settled
  evicted      \* completed jobs whose key's inline product was dropped for space

recordVars == <<status, request, age, slot, sgen, failure>>
workerVars == <<future, home>>
slotVars   == <<executor, egen, preds, alive>>
lockVars   == <<lock, phase, due, answered, restart>>
pumpVars   == <<pumping, finalizing, dispatch, holding>>
productVars == <<inline, stored, evicted>>
storeVars  == <<productVars, artifact>>
lifeVars   == <<shutdown, stop, down, leases, dead, idle>>
vars == <<recordVars, attached, workerVars, slotVars, lockVars, call, pumpVars,
          storeVars, lifeVars, told>>

Active     == {"queued", "running"}
Settled    == {"completed", "failed", "cancelled", "superseded", "timed_out"}
Unfinished == {"pending", "running"}
Finished   == {"inline", "artifact", "error", "partial", "broken", "cancelled"}

-----------------------------------------------------------------------------
(* What the records and slots say *)

Recorded(j) == status[j] \notin {"absent", "pruned"}
\* records is walked in insertion order, which is the order of the ids.
IsFirst(j, S) == j \in S /\ \A i \in S : j <= i
LaneOf(p)   == CHOOSE l \in Lane : \E n \in DOMAIN LanePriorities[l] : LanePriorities[l][n] = p
LaneOfJob(j) == LaneOf(request[j].priority)

HasActiveWork ==
  \/ \E j \in Job : status[j] \in Active
  \/ \E s \in Slot : preds[s] # {}

QuarantinedCount == Cardinality(UNION {{<<s, g>> : g \in preds[s]} : s \in Slot})

\* A record's own executor has been replaced under it.
Fenced(j) == sgen[j] # egen[slot[j]]

FinishedFutures ==
  {j \in attached \ finalizing : Recorded(j) /\ future[j] \in Finished}

\* Wrong variant.
ExpiredQueuedOnly == {j \in Job : status[j] = "queued" /\ request[j].timed /\ age[j] >= 1}
Expired ==
  {j \in Job : /\ status[j] \in Active
               /\ request[j].timed
               /\ age[j] >= IF status[j] = "queued" THEN 1 ELSE 2}

\* Wrong variant.
OccupiesAnySlot(j, s) == status[j] = "running"
Occupies(j, s) == status[j] = "running" /\ slot[j] = s /\ sgen[j] = egen[s]
FreeSlots(l) == {s \in Slot : LaneOfSlot[s] = l /\ ~ \E j \in Job : Occupies(j, s)}

\* The head of the lane's most urgent nonempty queue: ids grow with submission, so the
\* head of a deque is its least live id.
IsNextQueued(j, l) ==
  \E n \in DOMAIN LanePriorities[l] :
     /\ status[j] = "queued" /\ request[j].priority = LanePriorities[l][n]
     /\ \A i \in Job : status[i] = "queued" =>
           /\ \A m \in 1 .. n-1 : request[i].priority # LanePriorities[l][m]
           /\ request[i].priority = LanePriorities[l][n] => j <= i

\* latest_generation[key] > generation: a newer submission of the key was accepted.
Outdated(j) ==
  \E i \in Job : /\ status[i] # "absent"
                 /\ request[i].key = request[j].key
                 /\ request[i].generation > request[j].generation

-----------------------------------------------------------------------------
(* Initial state: construction is single-threaded and publishes no work *)

Init ==
  /\ status = [j \in Job |-> "absent"] /\ request = [j \in Job |-> NoRequest]
  /\ age = [j \in Job |-> 0] /\ slot = [j \in Job |-> NoSlot] /\ sgen = [j \in Job |-> 0]
  /\ failure = [j \in Job |-> FALSE] /\ attached = {}
  /\ future = [j \in Job |-> "none"] /\ home = [j \in Job |-> 0]
  /\ executor = [s \in Slot |-> "none"] /\ egen = [s \in Slot |-> 0]
  /\ preds = [s \in Slot |-> {}] /\ alive = {}
  /\ lock = "free" /\ phase = "none" /\ due = {} /\ answered = {} /\ restart = {}
  /\ call = [op |-> "none"]
  /\ pumping = FALSE /\ finalizing = {} /\ dispatch = {} /\ holding = NotHolding
  /\ inline = [k \in Key |-> Absent] /\ stored = <<>> /\ artifact = [k \in Key |-> Absent]
  /\ shutdown = FALSE /\ stop = "no" /\ down = FALSE
  /\ leases = {} /\ dead = {} /\ idle = FALSE
  /\ told = {} /\ evicted = {}

-----------------------------------------------------------------------------
(* _refresh_records, under state_lock: collect answers, reap, expire, prune *)

\* Wrong variant.
BeginWithDeadlines(who) ==
  /\ lock = "free"
  /\ lock' = who /\ phase' = "expire"
  /\ due' = Expired /\ answered' = FinishedFutures /\ restart' = {}
BeginRefresh(who) ==
  /\ lock = "free"
  /\ lock' = who /\ phase' = "finish"
  /\ due' = FinishedFutures /\ answered' = FinishedFutures /\ restart' = {}

Release ==
  lock' = "free" /\ phase' = "none" /\ due' = {} /\ answered' = {} /\ restart' = {}

\* Wrong variant.
AbandonFuture(j) ==
  /\ Fenced(j) \/ status[j] \in Settled \/ lock = "rpc"
  /\ attached' = attached \ {j}
  /\ UNCHANGED <<status, failure, restart, finalizing, productVars>>
\* The answer of a replaced executor, or of a record that is already settled.
Abandon(j) ==
  /\ Fenced(j) \/ status[j] \in Settled
  /\ attached' = attached \ {j}
  /\ failure' = [failure EXCEPT ![j] = @ \/ (~Fenced(j) /\ future[j] = "partial")]
  /\ UNCHANGED <<status, restart, finalizing, productVars>>

Claimable(j) == ~Fenced(j) /\ status[j] = "running"

\* Wrong variant.
KeepsOlder(k, g) == FALSE
\* store_inline never replaces a newer generation.
KeepsNewer(k, g) == g < inline[k]
\* stored_at of key k is the newest.
MovedToEnd(k) ==
  LET n  == Len(stored)
      at == CHOOSE m \in 1 .. n : stored[m] = k
  IN  IF \E m \in 1 .. n : stored[m] = k
      THEN [m \in 1 .. n |-> IF m = n THEN k ELSE IF m < at THEN stored[m] ELSE stored[m + 1]]
      ELSE Append(stored, k)

\* The oldest products leave past the bound on their number, and as many more of them as the
\* bound on their bytes asks for; one result is far below that bound, so the new one stays.
StoreInline(k, g) ==
  IF KeepsNewer(k, g)
  THEN UNCHANGED productVars
  ELSE \E n \in 0 .. Len(MovedToEnd(k)) - 1 :
         LET order == MovedToEnd(k)
             gone  == {order[m] : m \in 1 .. n}
         IN  /\ Len(order) - n <= MaxProducts
             /\ stored' = SubSeq(order, n + 1, Len(order))
             /\ inline' = [x \in Key |-> IF x \in gone THEN Absent ELSE IF x = k THEN g ELSE inline[x]]
             /\ evicted' = evicted \cup {j \in Job : status'[j] = "completed" /\ request[j].key \in gone}

Complete(j) ==
  /\ Claimable(j) /\ future[j] = "inline"
  /\ status' = [status EXCEPT ![j] = "completed"]
  /\ StoreInline(request[j].key, request[j].generation)
  /\ UNCHANGED <<attached, failure, restart, finalizing>>

FailWith(j) ==
  /\ Claimable(j) /\ future[j] \in {"error", "partial", "cancelled", "broken"}
  /\ status' = [status EXCEPT ![j] = "failed"]
  /\ failure' = [failure EXCEPT ![j] = future[j] = "partial"]
  /\ restart' = IF future[j] = "broken" THEN restart \cup {j} ELSE restart
  /\ UNCHANGED <<attached, finalizing, productVars>>

\* Only the pump may adopt an artifact; an RPC's refresh leaves it for the pump.
ClaimArtifact(j) ==
  /\ Claimable(j) /\ future[j] = "artifact"
  /\ finalizing' = IF lock = "pump" THEN finalizing \cup {j} ELSE finalizing
  /\ UNCHANGED <<status, attached, failure, restart, productVars>>

HandleFinishedFuture(j) ==
  /\ phase = "finish" /\ IsFirst(j, due)
  /\ due' = due \ {j}
  /\ Abandon(j) \/ Complete(j) \/ FailWith(j) \/ ClaimArtifact(j)
  /\ UNCHANGED <<request, age, slot, sgen, workerVars, slotVars, lock, phase, answered,
                 call, pumping, dispatch, holding, artifact, lifeVars, told>>

\* Wrong variant.
BrokenLanes == {s \in Slot : \E j \in restart : ~Fenced(j) /\ LaneOfSlot[s] = LaneOfSlot[slot[j]]}
\* _retire_broken_slot for restart_slots, then _reap_slot_predecessors.
BrokenSlots == {slot[j] : j \in {i \in restart : ~Fenced(i)}}

\* Wrong variant.
ReapedNever(s) == preds[s]
\* A predecessor is kept while one of its workers lives, but shutdown() has cleared the process
\* map that _executor_workers reads: every predecessor passes for exited.
Reaped(s) == {}

EndFinishedFutures ==
  /\ phase = "finish" /\ due = {}
  /\ executor' = [s \in Slot |-> IF s \in BrokenSlots THEN "none" ELSE executor[s]]
  /\ egen' = [s \in Slot |-> IF s \in BrokenSlots THEN egen[s] + 1 ELSE egen[s]]
  /\ preds' = [s \in Slot |-> Reaped(s)]
  /\ phase' = "expire" /\ due' = Expired /\ restart' = {}
  /\ UNCHANGED <<recordVars, attached, workerVars, alive, lock, answered, call,
                 pumpVars, storeVars, lifeVars, told>>

\* _quarantine_slot's conditions, once the record is known to be running.
Quarantinable(j) ==
  /\ ~Fenced(j)
  /\ executor[slot[j]] # "none"
  /\ QuarantinedCount < MaxQuarantined

\* shutdown(wait=False, cancel_futures=True) cancels what the pool has not yet handed to
\* its worker: any part of the pending futures.
QuarantineSlot(s) ==
  /\ executor' = [executor EXCEPT ![s] = "none"]
  /\ egen' = [egen EXCEPT ![s] = @ + 1]
  /\ preds' = [preds EXCEPT ![s] = @ \cup {egen[s]}]
  /\ \E C \in SUBSET {i \in Job : future[i] = "pending" /\ slot[i] = s /\ home[i] = egen[s]} :
        future' = [i \in Job |-> IF i \in C THEN "cancelled" ELSE future[i]]

ExpireDeadline(j) ==
  /\ phase = "expire" /\ IsFirst(j, due) /\ status[j] \in Active
  /\ due' = due \ {j}
  /\ status' = [status EXCEPT ![j] = "timed_out"]
  /\ IF status[j] = "running" /\ Quarantinable(j)
     THEN QuarantineSlot(slot[j])
     ELSE UNCHANGED <<future, executor, egen, preds>>
  /\ UNCHANGED <<request, age, slot, sgen, failure, attached, home, alive, lock,
                 phase, answered, restart, call, pumpVars, storeVars, lifeVars, told>>

\* _prune_records drops the oldest settled records past the bound; the model lets any of
\* the settled ones be the oldest.  The retained-bytes bound is part of MaxRecords here.
PruneRecords ==
  LET records == {j \in Job : Recorded(j)}
      settled == {j \in Job : status[j] \in Settled}
      excess  == IF Cardinality(records) > MaxRecords THEN Cardinality(records) - MaxRecords ELSE 0
      removed == IF excess < Cardinality(settled) THEN excess ELSE Cardinality(settled)
  IN  /\ phase = "expire" /\ due = {}
      /\ \E P \in SUBSET settled :
            /\ Cardinality(P) = removed
            /\ status' = [j \in Job |-> IF j \in P THEN "pruned" ELSE status[j]]
      /\ phase' = "body"
      /\ UNCHANGED <<request, age, slot, sgen, failure, attached, workerVars, slotVars,
                     lock, due, answered, restart, call, pumpVars, storeVars, lifeVars, told>>

-----------------------------------------------------------------------------
(* RPC handlers.  A call is accepted by the listener, then tries state_lock once. *)

NoCall == [op |-> "none"]
Fresh(j) == status[j] = "absent" /\ \A i \in 1 .. j-1 : status[i] # "absent"

AcceptCall(c) ==
  /\ stop = "no" /\ call = NoCall
  /\ c.op \in {"submit", "produce"} => \E j \in Job : status[j] = "absent"   \* bound MaxJobs
  /\ call' = c
  /\ UNCHANGED <<recordVars, attached, workerVars, slotVars, lockVars, pumpVars,
                 storeVars, lifeVars, told>>

RefuseBusy ==
  /\ call # NoCall /\ lock = "pump"
  /\ call' = NoCall
  /\ UNCHANGED <<recordVars, attached, workerVars, slotVars, lockVars, pumpVars,
                 storeVars, lifeVars, told>>

\* submit, produce, and the reads (result, product, status) refresh the records first.
BeginCall ==
  /\ call.op \in {"submit", "produce", "read"}
  /\ BeginRefresh("rpc")
  /\ UNCHANGED <<recordVars, attached, workerVars, slotVars, call, pumpVars,
                 storeVars, lifeVars, told>>

\* coalesced[(task, key)] is the last record queued for the key, unless it was pruned.
\* A key names one task in every caller.
LastQueued(j, k) ==
  /\ status[j] # "absent" /\ request[j].key = k
  /\ \A i \in Job : i > j /\ status[i] # "absent" => request[i].key # k

Reusable(j, r) ==
  /\ LastQueued(j, r.key) /\ Recorded(j)
  /\ request[j].generation >= r.generation
  /\ status[j] \in IF r.fresh THEN Active ELSE Active \cup {"completed"}

QueueFull(r) ==
  Cardinality({j \in Job : status[j] = "queued" /\ LaneOfJob(j) = LaneOf(r.priority)}) >= MaxQueue

StoredGeneration(k) == IF inline[k] # Absent THEN inline[k] ELSE artifact[k]

\* The early return of _produce: a stored product that is ready and new enough.
ServedFromStore(r) ==
  /\ ~ r.fresh
  /\ StoredGeneration(r.key) # Absent /\ StoredGeneration(r.key) >= r.generation
  /\ ~ \E j \in Job : status[j] \in Active /\ request[j].key = r.key
  /\ ~ \E j \in Job : /\ status[j] # "absent" /\ request[j].key = r.key
                      /\ request[j].generation > StoredGeneration(r.key)

\* _supersede_stale_queued: queued work of the key that the new generation replaces.
Supersedes(j, r) ==
  status[j] = "queued" /\ request[j].key = r.key /\ request[j].generation < r.generation

EndCall == Release /\ call' = NoCall

Answering == lock = "rpc" /\ phase = "body"

AnswerRead ==
  /\ Answering
  /\ call.op = "read" \/ (call.op = "produce" /\ ServedFromStore(call.req))
  /\ EndCall
  /\ UNCHANGED <<recordVars, attached, workerVars, slotVars, pumpVars, storeVars,
                 lifeVars, told>>

\* _submit_validated, under lifecycle_admission_lock.
SubmitValidated ==
  /\ Answering
  /\ call.op = "submit" \/ (call.op = "produce" /\ ~ ServedFromStore(call.req))

\* Wrong variant.
AdmittedAlways == TRUE
Admitted == ~ shutdown

RefuseSubmission ==
  /\ SubmitValidated
  /\ ~ Admitted \/ (QueueFull(call.req) /\ ~ \E j \in Job : Reusable(j, call.req))
  /\ EndCall
  /\ UNCHANGED <<recordVars, attached, workerVars, slotVars, pumpVars, storeVars,
                 lifeVars, told>>

Coalesce(j) ==
  /\ SubmitValidated /\ Admitted
  /\ Reusable(j, call.req)
  /\ EndCall
  /\ UNCHANGED <<recordVars, attached, workerVars, slotVars, pumpVars, storeVars,
                 lifeVars, told>>

QueueRecord(j) ==
  /\ SubmitValidated /\ Admitted
  /\ Fresh(j) /\ ~ QueueFull(call.req)
  /\ ~ \E i \in Job : Reusable(i, call.req)
  /\ status' = [i \in Job |-> IF i = j THEN "queued"
                              ELSE IF Supersedes(i, call.req) THEN "superseded" ELSE status[i]]
  /\ request' = [request EXCEPT ![j] = call.req]
  /\ EndCall
  /\ UNCHANGED <<age, slot, sgen, failure, attached, workerVars, slotVars, pumpVars,
                 storeVars, lifeVars, told>>

\* cancel takes state_lock but refreshes nothing.  Future.cancel() fails once the pool has
\* handed the item to its worker, which may be so for a pending future already.
CancelQueued(j) ==
  /\ status[j] = "queued"
  /\ status' = [status EXCEPT ![j] = "cancelled"] /\ told' = told \cup {j}
  /\ UNCHANGED future

\* Wrong variant.
CancelExpired(j) ==
  /\ j \in attached /\ future[j] = "pending"
  /\ status' = [status EXCEPT ![j] = "cancelled"] /\ told' = told \cup {j}
  /\ future' = [future EXCEPT ![j] = "cancelled"]
CancelPending(j) ==
  /\ status[j] = "running" /\ j \in attached /\ future[j] = "pending"
  /\ status' = [status EXCEPT ![j] = "cancelled"] /\ told' = told \cup {j}
  /\ future' = [future EXCEPT ![j] = "cancelled"]

RefuseCancel(j) ==
  /\ status[j] = "running" /\ j \in attached
  /\ UNCHANGED <<status, future, told>>

\* Falls through both tests and answers ok: a settled record, and a running one whose
\* future the scheduler has not attached yet.
CancelNothing(j) ==
  /\ status[j] # "queued" /\ (status[j] = "running" => j \notin attached)
  /\ told' = IF status[j] = "running" THEN told \cup {j} ELSE told
  /\ UNCHANGED <<status, future>>

Cancel(j) ==
  /\ call = [op |-> "cancel", job |-> j] /\ lock = "free"
  /\ CancelQueued(j) \/ CancelPending(j) \/ RefuseCancel(j) \/ CancelNothing(j)
  /\ call' = NoCall
  /\ UNCHANGED <<request, age, slot, sgen, failure, attached, home, slotVars,
                 lockVars, pumpVars, storeVars, lifeVars>>

-----------------------------------------------------------------------------
(* _pump, the scheduler thread *)

BeginPump ==
  /\ stop = "no" /\ ~ pumping
  /\ BeginRefresh("pump")
  /\ UNCHANGED <<recordVars, attached, workerVars, slotVars, call, pumpVars,
                 storeVars, lifeVars, told>>

\* The outcome of popping the next queued record of a lane that has a free slot s.
Supersede(j) == Outdated(j) /\ status' = [status EXCEPT ![j] = "superseded"] /\ UNCHANGED <<slot, sgen, dispatch>>

ExpireAtDispatch(j) ==
  /\ ~ Outdated(j) /\ request[j].timed /\ age[j] >= 1
  /\ status' = [status EXCEPT ![j] = "timed_out"] /\ UNCHANGED <<slot, sgen, dispatch>>

Startable(j) == ~ Outdated(j) /\ (request[j].timed => age[j] = 0)
NoReplacementLeft(s) == executor[s] = "none" /\ QuarantinedCount >= MaxQuarantined

RefuseQuarantined(j, s) ==
  /\ Startable(j) /\ NoReplacementLeft(s)
  /\ status' = [status EXCEPT ![j] = "failed"] /\ UNCHANGED <<slot, sgen, dispatch>>

\* Wrong variant.
MarkRunningNowhere(j, s) ==
  /\ Startable(j) /\ ~ NoReplacementLeft(s)
  /\ status' = [status EXCEPT ![j] = "running"]
  /\ dispatch' = dispatch \cup {j} /\ UNCHANGED <<slot, sgen>>
MarkRunning(j, s) ==
  /\ Startable(j) /\ ~ NoReplacementLeft(s)
  /\ status' = [status EXCEPT ![j] = "running"]
  /\ slot' = [slot EXCEPT ![j] = s] /\ sgen' = [sgen EXCEPT ![j] = egen[s]]
  /\ dispatch' = dispatch \cup {j}

SelectQueued(l, j) ==
  /\ lock = "pump" /\ phase = "body"
  /\ IsNextQueued(j, l)
  /\ \E s \in FreeSlots(l) :
        /\ \A t \in FreeSlots(l) : s <= t
        /\ Supersede(j) \/ ExpireAtDispatch(j) \/ RefuseQuarantined(j, s) \/ MarkRunning(j, s)
  /\ UNCHANGED <<request, age, failure, attached, workerVars, slotVars, lockVars, call,
                 pumping, finalizing, holding, storeVars, lifeVars, told>>

LeaveLock ==
  /\ lock = "pump" /\ phase = "body"
  /\ \A l \in Lane : FreeSlots(l) # {} => ~ \E j \in Job : status[j] = "queued" /\ LaneOfJob(j) = l
  /\ Release /\ pumping' = TRUE
  /\ UNCHANGED <<recordVars, attached, workerVars, slotVars, call, finalizing, dispatch,
                 holding, storeVars, lifeVars, told>>

\* _finalize_artifact: verified off-lock, published under the lock.
ArtifactCount == Cardinality({k \in Key : artifact[k] # Absent})

\* Wrong variant.
FinalizeAnyway(j, verified) ==
  LET stores == verified /\ ArtifactCount < MaxArtifacts
  IN  /\ pumping /\ lock = "free" /\ j \in finalizing
      /\ finalizing' = finalizing \ {j} /\ attached' = attached \ {j}
      /\ artifact' = IF stores THEN [artifact EXCEPT ![request[j].key] = request[j].generation]
                               ELSE artifact
      /\ status' = [status EXCEPT ![j] = IF stores THEN "completed" ELSE "failed"]
      /\ UNCHANGED <<request, age, slot, sgen, failure, workerVars, slotVars, lockVars,
                     call, pumping, dispatch, holding, productVars, lifeVars, told>>
FinalizeArtifact(j, verified) ==
  LET stores == verified /\ status[j] = "running" /\ ArtifactCount < MaxArtifacts
  IN  /\ pumping /\ lock = "free" /\ j \in finalizing
      /\ finalizing' = finalizing \ {j} /\ attached' = attached \ {j}
      /\ artifact' = IF stores THEN [artifact EXCEPT ![request[j].key] = request[j].generation]
                               ELSE artifact
      /\ status' = IF status[j] # "running" THEN status
                   ELSE [status EXCEPT ![j] = IF stores THEN "completed" ELSE "failed"]
      /\ UNCHANGED <<request, age, slot, sgen, failure, workerVars, slotVars, lockVars,
                     call, pumping, dispatch, holding, productVars, lifeVars, told>>

\* The dispatch loop, one record at a time and off the lock: _executor returns the slot's
\* current pool, creating it if there is none; submit then hands it the task.  The record
\* is not looked at again, and the slot may be fenced between the two.
TakeExecutor(j) ==
  /\ pumping /\ finalizing = {} /\ j \in dispatch
  /\ holding = NotHolding /\ \A i \in dispatch : future[i] = "none"
  /\ holding' = [job |-> j, generation |-> egen[slot[j]]]
  /\ executor' = [executor EXCEPT ![slot[j]] = IF @ = "none" THEN "up" ELSE @]
  /\ UNCHANGED <<recordVars, attached, workerVars, egen, preds, alive, lockVars, call,
                 pumping, finalizing, dispatch, storeVars, lifeVars, told>>

Holds(j) == j \in dispatch /\ holding.job = j

Submit(j) ==
  /\ Holds(j)
  /\ holding.generation = egen[slot[j]] /\ executor[slot[j]] = "up"
  /\ alive' = alive \cup {<<slot[j], egen[slot[j]]>>}
  /\ future' = [future EXCEPT ![j] = "pending"]
  /\ home' = [home EXCEPT ![j] = holding.generation]
  /\ holding' = NotHolding
  /\ UNCHANGED <<recordVars, attached, executor, egen, preds, lockVars, call,
                 pumping, finalizing, dispatch, storeVars, lifeVars, told>>

\* The future is set under the lock.
Attach(j) ==
  /\ pumping /\ lock = "free" /\ j \in dispatch /\ future[j] # "none"
  /\ attached' = attached \cup {j} /\ dispatch' = dispatch \ {j}
  /\ UNCHANGED <<recordVars, workerVars, slotVars, lockVars, call, pumping, finalizing,
                 holding, storeVars, lifeVars, told>>

\* submit raised: the pool is broken, was shut down meanwhile, or could not start a worker.
SubmitFails(j) ==
  /\ Holds(j) /\ lock = "free"
  /\ status' = [status EXCEPT ![j] = IF Recorded(j) THEN "failed" ELSE @]
  /\ failure' = [failure EXCEPT ![j] = FALSE]
  /\ dispatch' = dispatch \ {j} /\ holding' = NotHolding
  /\ IF executor[slot[j]] = "broken" /\ ~ Fenced(j)
     THEN /\ executor' = [executor EXCEPT ![slot[j]] = "none"]
          /\ egen' = [egen EXCEPT ![slot[j]] = @ + 1]
     ELSE UNCHANGED <<executor, egen>>
  /\ UNCHANGED <<request, age, slot, sgen, attached, workerVars, preds, alive, lockVars,
                 call, pumping, finalizing, storeVars, lifeVars, told>>

Drained == shutdown /\ ~ HasActiveWork

EndPump ==
  /\ pumping /\ lock = "free" /\ finalizing = {} /\ dispatch = {}
  /\ pumping' = FALSE
  /\ stop' = IF Drained /\ stop = "no" THEN "drain" ELSE stop
  /\ UNCHANGED <<recordVars, attached, workerVars, slotVars, lockVars, call, finalizing,
                 dispatch, holding, storeVars, shutdown, down, leases, dead, idle, told>>

-----------------------------------------------------------------------------
(* Worker processes and time *)

On(j, s, g) == slot[j] = s /\ home[j] = g

WorkerRun(j) ==
  /\ future[j] = "pending" /\ <<slot[j], home[j]>> \in alive
  /\ ~ \E i \in Job : future[i] = "running" /\ On(i, slot[j], home[j])
  /\ future' = [future EXCEPT ![j] = "running"]
  /\ UNCHANGED <<recordVars, attached, home, slotVars, lockVars, call, pumpVars,
                 storeVars, lifeVars, told>>

\* What a task may answer: its product, its partial failure, or any other exception.
Answers(kind) ==
  CASE kind = "read"     -> {"inline", "error"}
    [] kind = "transfer" -> {"artifact", "error"}
    [] kind = "delete"   -> {"inline", "partial"}

WorkerAnswer(j) ==
  /\ future[j] = "running"
  /\ \E a \in Answers(request[j].kind) : future' = [future EXCEPT ![j] = a]
  /\ UNCHANGED <<recordVars, attached, home, slotVars, lockVars, call, pumpVars,
                 storeVars, lifeVars, told>>

\* The process behind an executor dies; every future it still owed becomes broken.
WorkerCrash(s, g) ==
  /\ <<s, g>> \in alive
  /\ alive' = alive \ {<<s, g>>}
  /\ future' = [j \in Job |-> IF On(j, s, g) /\ future[j] \in Unfinished THEN "broken" ELSE future[j]]
  /\ executor' = IF g = egen[s] /\ executor[s] = "up" THEN [executor EXCEPT ![s] = "broken"]
                                                     ELSE executor
  /\ UNCHANGED <<recordVars, attached, home, egen, preds, lockVars, call, pumpVars,
                 storeVars, lifeVars, told>>

\* A worker of an executor that was shut down leaves when it owes nothing.
WorkerExit(s, g) ==
  /\ <<s, g>> \in alive
  /\ g # egen[s]
  /\ ~ \E j \in Job : On(j, s, g) /\ future[j] \in Unfinished
  /\ alive' = alive \ {<<s, g>>}
  /\ UNCHANGED <<recordVars, attached, workerVars, executor, egen, preds, lockVars, call,
                 pumpVars, storeVars, lifeVars, told>>

\* The deadline of a live record passes, then the backstop after it.
Tick(j) ==
  /\ status[j] \in Active /\ request[j].timed /\ age[j] < 2
  /\ age' = [age EXCEPT ![j] = @ + 1]
  /\ UNCHANGED <<status, request, slot, sgen, failure, attached, workerVars, slotVars,
                 lockVars, call, pumpVars, storeVars, lifeVars, told>>

-----------------------------------------------------------------------------
(* Leases, shutdown and idle retirement *)

Lease(c) ==
  /\ stop = "no" /\ lock = "free" /\ c \notin dead
  /\ leases' = (leases \ dead) \cup {c}
  /\ UNCHANGED <<recordVars, attached, workerVars, slotVars, lockVars, call, pumpVars,
                 storeVars, shutdown, stop, down, dead, idle, told>>

ReleaseLease(c) ==
  /\ lock = "free" /\ c \in leases \ dead
  /\ leases' = leases \ {c}
  /\ UNCHANGED <<recordVars, attached, workerVars, slotVars, lockVars, call, pumpVars,
                 storeVars, shutdown, stop, down, dead, idle, told>>

ClientDies(c) ==
  /\ c \in leases \ dead
  /\ dead' = dead \cup {c}
  /\ UNCHANGED <<recordVars, attached, workerVars, slotVars, lockVars, call, pumpVars,
                 storeVars, shutdown, stop, down, leases, idle, told>>

\* _handle_shutdown with the state lock: close admission, stop now if nothing is left.
ShutdownLocked ==
  /\ "shutdown" \in Stops /\ stop = "no" /\ lock = "free"
  /\ shutdown' = TRUE
  /\ stop' = IF HasActiveWork THEN stop ELSE "drain"
  /\ UNCHANGED <<recordVars, attached, workerVars, slotVars, lockVars, call, pumpVars,
                 storeVars, down, leases, dead, idle, told>>

\* handle() without it: only close admission; the pump finds the drain later.
ShutdownContended ==
  /\ "shutdown" \in Stops /\ stop = "no" /\ lock # "free" /\ ~ shutdown
  /\ shutdown' = TRUE
  /\ UNCHANGED <<recordVars, attached, workerVars, slotVars, lockVars, call, pumpVars,
                 storeVars, stop, down, leases, dead, idle, told>>

ShutdownIfIdle ==
  /\ "shutdown_if_idle" \in Stops /\ stop = "no" /\ lock = "free"
  /\ leases' = leases \ dead
  /\ IF leases' # {} \/ HasActiveWork
     THEN UNCHANGED <<shutdown, stop>>
     ELSE shutdown' = TRUE /\ stop' = "drain"
  /\ UNCHANGED <<recordVars, attached, workerVars, slotVars, lockVars, call, pumpVars,
                 storeVars, down, dead, idle, told>>

IdleAges ==
  /\ "idle" \in Stops /\ ~ idle /\ stop = "no" /\ idle' = TRUE
  /\ UNCHANGED <<recordVars, attached, workerVars, slotVars, lockVars, call, pumpVars,
                 storeVars, shutdown, stop, down, leases, dead, told>>

\* Wrong variant.
NoHandlerIgnored == TRUE
\* The listener's accept timeout with no handler in flight: _idle_should_stop and
\* claim_gated_idle_due, and the retirement it requests.
NoHandler == call = NoCall

IdleShouldStop ==
  /\ "idle" \in Stops /\ stop = "no" /\ NoHandler /\ lock = "free"
  /\ leases' = leases \ dead
  /\ \/ Drained /\ stop' = "drain" /\ UNCHANGED idle
     \/ ~ Drained /\ (leases' # {} \/ HasActiveWork) /\ idle' = FALSE /\ UNCHANGED stop
     \/ ~ Drained /\ ~ (leases' # {} \/ HasActiveWork)
        /\ stop' = (IF idle THEN "idle" ELSE stop) /\ UNCHANGED idle
  /\ UNCHANGED <<recordVars, attached, workerVars, slotVars, lockVars, call, pumpVars,
                 storeVars, shutdown, down, dead, told>>

\* SIGTERM or SIGINT, or the launching supervisor is gone: accepted work is given up.
Retire ==
  /\ "retire" \in Stops /\ stop = "no" /\ stop' = "retired"
  /\ UNCHANGED <<recordVars, attached, workerVars, slotVars, lockVars, call, pumpVars,
                 storeVars, shutdown, down, leases, dead, idle, told>>

\* After the listener loop: join the scheduler, then kill every worker of every lane that a
\* process map still names.  A quarantined executor's map is gone.
OnShutdown ==
  /\ stop # "no" /\ ~ pumping /\ lock # "pump" /\ ~ down
  /\ down' = TRUE
  /\ executor' = [s \in Slot |-> "none"] /\ preds' = [s \in Slot |-> {}]
  /\ alive' = {x \in alive : x[2] # egen[x[1]]}
  /\ egen' = [s \in Slot |-> egen[s] + 1]
  /\ artifact' = [k \in Key |-> Absent]
  /\ UNCHANGED <<recordVars, attached, workerVars, lockVars, call, pumpVars,
                 productVars, shutdown, stop, leases, dead, idle, told>>

-----------------------------------------------------------------------------
Calls ==
  [op : {"read"} \cap ClientOps] \cup [op : {"submit", "produce"} \cap ClientOps, req : Request]
  \cup [op : {"cancel"} \cap ClientOps, job : {j \in Job : Recorded(j)}]

Refresh ==
  \/ \E j \in Job : HandleFinishedFuture(j) \/ ExpireDeadline(j)
  \/ EndFinishedFutures \/ PruneRecords

Rpc ==
  \/ RefuseBusy \/ BeginCall \/ AnswerRead \/ RefuseSubmission
  \/ \E j \in Job : Coalesce(j) \/ QueueRecord(j) \/ Cancel(j)

Pump ==
  \/ BeginPump \/ LeaveLock \/ EndPump
  \/ \E l \in Lane, j \in Job : SelectQueued(l, j)
  \/ \E j \in Job, verified \in BOOLEAN : FinalizeArtifact(j, verified)
  \/ \E j \in Job : TakeExecutor(j) \/ Submit(j) \/ Attach(j) \/ SubmitFails(j)

Workers ==
  \/ \E j \in Job : WorkerRun(j) \/ WorkerAnswer(j)
  \/ \E x \in alive : WorkerCrash(x[1], x[2]) \/ WorkerExit(x[1], x[2])

Lifecycle ==
  \/ \E c \in Client : Lease(c) \/ ReleaseLease(c) \/ ClientDies(c)
  \/ ShutdownLocked \/ ShutdownContended \/ ShutdownIfIdle
  \/ IdleAges \/ IdleShouldStop \/ Retire

Running ==
  \/ \E c \in Calls : AcceptCall(c)
  \/ Refresh \/ Rpc \/ Pump \/ Workers \/ Lifecycle
  \/ \E j \in Job : Tick(j)

Next == ~ down /\ (Running \/ OnShutdown)

Spec == Init /\ [][Next]_vars

-----------------------------------------------------------------------------
(* Fairness.  Threads keep running and locks are handed over: a blocking acquire that finds   *)
(* the lock free again and again gets it (SF), every other step of a running thread is taken  *)
(* (WF), and the clock moves.  Workers need not answer, since a filesystem call on a wedged   *)
(* mount need not return; LaneWorkerFairness says which of them do.                           *)

While(A) == ~ down /\ A

LockHolderStep ==
  \/ Refresh \/ LeaveLock \/ \E l \in Lane, j \in Job : SelectQueued(l, j)
  \/ AnswerRead \/ RefuseSubmission \/ \E j \in Job : Coalesce(j) \/ QueueRecord(j)

DispatchStep ==
  \/ EndPump
  \/ \E j \in Job, verified \in BOOLEAN : FinalizeArtifact(j, verified)
  \/ \E j \in Job : Attach(j) \/ SubmitFails(j)

BrokerFairness ==
  /\ WF_vars(While(LockHolderStep))
  /\ SF_vars(While(BeginPump)) /\ SF_vars(While(DispatchStep))
  /\ WF_vars(While(\E j \in Job : TakeExecutor(j) \/ Submit(j)))
  /\ \A j \in Job : WF_vars(While(Tick(j)))

\* The workers of lane l answer; those of other lanes may be stuck for ever.
LaneWorkerFairness(l) ==
  \A j \in Job :
    /\ WF_vars(While(status[j] # "absent" /\ LaneOfJob(j) = l /\ WorkerRun(j)))
    /\ WF_vars(While(status[j] # "absent" /\ LaneOfJob(j) = l /\ WorkerAnswer(j)))

FairSpec == Spec /\ BrokerFairness

-----------------------------------------------------------------------------
(* Properties *)

\* Every variable holds values of its own kind: the records, slots and stores of __init__.
TypeOK ==
  /\ status \in [Job -> {"absent", "pruned"} \cup Active \cup Settled]
  /\ request \in [Job -> Request \cup {NoRequest}] /\ \A j \in Job : Recorded(j) => request[j] \in Request
  /\ \A j \in Job : status[j] = "running" => slot[j] \in Slot
  /\ age \in [Job -> 0 .. 2] /\ slot \in [Job -> Slot \cup {NoSlot}] /\ sgen \in [Job -> Nat]
  /\ failure \in [Job -> BOOLEAN] /\ attached \subseteq Job
  /\ future \in [Job -> {"none"} \cup Unfinished \cup Finished]
  /\ home \in [Job -> Nat]
  /\ executor \in [Slot -> {"none", "up", "broken"}] /\ egen \in [Slot -> Nat]
  /\ preds \in [Slot -> SUBSET Nat] /\ alive \subseteq Slot \X Nat
  /\ lock \in {"free", "pump", "rpc"} /\ phase \in {"none", "finish", "expire", "body"}
  /\ due \subseteq Job /\ answered \subseteq Job /\ restart \subseteq Job
  /\ pumping \in BOOLEAN /\ finalizing \subseteq Job /\ dispatch \subseteq Job
  /\ holding \in [job : Job \cup {0}, generation : Nat]
  /\ inline \in [Key -> Nat \cup {Absent}] /\ artifact \in [Key -> Nat \cup {Absent}]
  /\ shutdown \in BOOLEAN /\ stop \in {"no", "drain", "idle", "retired"} /\ down \in BOOLEAN
  /\ leases \subseteq Client /\ dead \subseteq Client /\ idle \in BOOLEAN
  /\ told \subseteq Job /\ evicted \subseteq Job

\* A running record owns its slot: the slot is of its lane, its executor has not been replaced
\* under it, and no other running record has the slot.  Fencing, retirement and dispatch all
\* decide from records that other threads settle in between.
SlotExclusive ==
  \A j \in Job : status[j] = "running" /\ ~ down =>
    /\ LaneOfSlot[slot[j]] = LaneOfJob(j)
    /\ ~ Fenced(j)
    /\ \A i \in Job \ {j} : status[i] = "running" => slot[i] # slot[j]

\* No running record is stranded: the scheduler still has to dispatch it, or its future is set
\* and has finished, or the live worker of its own executor owes the answer.
RunningIsAwaited ==
  \A j \in Job : status[j] = "running" /\ ~ down =>
    \/ j \in dispatch /\ (pumping \/ lock = "pump")
    \/ /\ j \in attached /\ home[j] = egen[slot[j]]
       /\ future[j] \in Finished \/ <<slot[j], home[j]>> \in alive

\* A worker's answer that had arrived when a refresh began decides the record: the pass may not
\* relabel it timed_out (_refresh_records: "Collect answers first").  Inline products only: the
\* refresh of an RPC leaves an artifact to the pump and does expire its record.
DeliveredInlineOwnsTerminal ==
  [][\A j \in answered : request[j].kind # "transfer" /\ status[j] = "running"
        => status'[j] # "timed_out"]_vars

\* A terminal state is not revised, whatever the refreshes, the finalizer, the deadlines and the
\* cancels that share a record find ("the terminal state itself is not revised").  The one
\* exception is a record whose submit fails: it is marked failed without being looked at again.
TerminalIsFinal ==
  [][\A j \in Job : status[j] \in Settled =>
        \/ status'[j] \in {status[j], "pruned"}
        \/ Holds(j) /\ status'[j] = "failed"]_vars

\* The store covers every job it answered "completed" for and has not since dropped for space: it
\* retains a product of the key at least as new, whatever order the generations finish in and
\* whatever else is evicted meanwhile.  Once dropped, an older generation still running may well
\* bring the key back at its own.
ProductCoversCompleted ==
  \A j \in Job \ evicted : status[j] = "completed" /\ request[j].kind # "transfer" =>
    inline[request[j].key] >= request[j].generation

\* A broker that stopped by itself, drained or idle, leaves no accepted job behind, whatever
\* was admitted while the decision was taken.
CleanStop == stop \in {"drain", "idle"} => \A j \in Job : status[j] \notin Active

\* The broker keeps JobLedger's promise: an accepted job is settled once and for all, and only
\* a kill leaves one without an outcome.
ledgerView == [j \in Job |-> IF status[j] = "absent" THEN "none"
                             ELSE IF status[j] \in Active THEN "owed" ELSE "settled"]
openView   == ~ shutdown /\ stop \in {"no", "retired"}
endedView  == IF stop = "no" THEN "no" ELSE IF stop = "retired" THEN "killed" ELSE "clean"

Ledger == INSTANCE JobLedger WITH ledger <- ledgerView, open <- openView, ended <- endedView

KeepsLedger == Ledger!Spec

\* Accepted work that has a deadline, or whose lane l has workers that answer, is settled unless
\* the broker stops: no slot, queue or lock of one lane is held by another's stuck work
\* (batchd.py:141-148), and the deadline needs no answer from anybody.
WorkSettles(l) ==
  \A j \in Job : (status[j] \in Active /\ (request[j].timed \/ LaneOfJob(j) = l))
                  ~> (status[j] \notin Active \/ stop # "no")

\* A requested shutdown ends the process once what is left has a deadline or a lane l whose own
\* workers answer: neither a quarantined worker nor a lost answer keeps the broker up.
ShutdownCompletes(l) ==
  (shutdown /\ {j \in Job : status[j] \in Active /\ ~ request[j].timed /\ LaneOfJob(j) # l} = {})
    ~> (stop # "no")

-----------------------------------------------------------------------------
(* What the sources say and the code does not keep: each is refuted by a run of its own. *)

\* "The worker's partial evidence is retained instead of discarded" (batchd.py:223-224): when
\* the broker lets go of a future that names what a partial delete removed, the record has it.
PartialEvidenceRetained ==
  [][\A j \in attached : future[j] = "partial" /\ j \notin attached' => failure'[j]]_vars

\* A cancel that answered ok stops the work (tests/test_batchd.py:3755-3756): no worker starts
\* it afterwards.
CancelledWorkNeverStarts ==
  [][\A j \in told : future[j] = "pending" => future'[j] # "running"]_vars

\* "At most this many unkillable predecessors may remain alive across the whole broker"
\* (batchd.py:226-228).
WorkerBudget == Cardinality({x \in alive : x[2] # egen[x[1]]}) <= MaxQuarantined

=============================================================================
