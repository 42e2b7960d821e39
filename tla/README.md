# A verification of YOLOmux

YOLOmux is a Python web process with six local services behind it (`batchd`, `watchd`, `statusd`,
`approvald`, the index service and the stats service), each a daemon of its own that answers
length-prefixed JSON over a Unix socket, and a browser application in front. What it has to get right
is not computation but coordination: threads that share a lock for part of their work, worker
processes that hang in a system call, daemons that retire while a client is asking them for something,
and several servers on one machine that find each other's helpers, leases and files.

This directory models that coordination in TLA+, checks it with TLC and proves the central facts with
TLAPS. Python files are named relative to `src/yolomux_lib/`, JavaScript files relative to
`src/static_src/js/yolomux/`.

## 1. The system

| component | state | operations | hard behaviour | what makes it correct |
|---|---|---|---|---|
| **job broker**, `infra/batchd.py` | job records, per-priority queues, executor slots with generations and quarantined predecessors, inline and artifact products, leases | submit, produce, result, product, cancel, lease, release, shutdown, shutdown_if_idle; the scheduler's pump; worker processes | RPC handlers try-lock and are refused, the scheduler drops the lock between choosing a job and dispatching it, workers hang, die or answer late, deadlines fence executors under other threads | an accepted job is settled once; no slot has two jobs; products never go back in generation; nothing accepted is lost by a clean stop; a stuck worker stops neither its lane's deadline nor another lane |
| **service runtime**, `local_services/runtime.py` | listener, handler slots, leases, idle clock | accept, idle tick, signals | the idle decision against requests in flight; dead lease holders | a service retires only without a claim |
| **service registry, client, lifetime, watchdog**, `local_services/` | launch records, epochs, retirement requests | start, probe, replace, retire | two servers start one daemon; a daemon retires while it is asked for | one live daemon per root; no accepted work killed by a replacement |
| **process claims**, `infra/process_claims.py` | one claim file per helper, adoption markers | publish, release, reap, adopt | a successor dies inside an adoption; two successors; a reaper beside an adopter | at most one live supervisor per helper; no supervised helper is signalled |
| **server lease**, `server_lease.py` | one lease file per root | acquire, take over, release | a crashed owner, two starters | one web server per root |
| **shared config lock, published caches, worktree writer**, `infra/` | lock files, cache files | lock, publish, reload, write | several processes, crashes between steps | no lost update, no torn read |
| **background scheduler**, `infra/background_scheduler.py` | periodic tasks, leadership | run, elect, start and stop `batchd` | a leader that dies or stalls | one leader; no task lost |
| **client events**, `client_events.py`, `99_client_event_transport.js` | a bounded queue per subscriber; in the page an active stream and a candidate, a revision per resource, a copy of the state, repairs | publish, subscribe; demand change, promotion, patch, frame, reconnect, repair | overflow, reconnect, a server restart, a snapshot beside queued patches, a demand that changes while a candidate connects | a copy that claims a revision has what that revision said; the stream in use is the one that was asked for |
| **accepted operations**, `observability/queued_delivery.py`, `99_client_event_transport.js` | journal of operations; in the page records, terminals, repairs, acknowledgements | accept, terminalize, replay, acknowledge; receipt, terminal, dedicated stream, retry | a terminal before its receipt, twice, or on a stream that breaks; lost acknowledgements; restarts | each handler runs once and with the result; nothing published is lost on the way |
| **file editor**, `45_file_explorer_actions.js`, `92_codemirror_editor.js`, `86_changes_editor.js` | the text, its base and time, a save owner, an acknowledgement, a reload in flight, a poll in flight | type, save, autosave, reload, resolve a conflict, close | four awaits that each answer into a state that has moved on; other writers of the file | nothing typed is lost, nothing unseen is overwritten, the editor ends up saying what is on disk |
| **tmux window switch**, `78_panel_shell.js`, `99_terminal_boot.js` | per session: an override of the highlighted window, a guard, a sequence, the mask over the terminal | click or type a switch; answer, readback, push, paint, stall, retry, cancel, reconnect | answers and timers of an older switch; payloads that predate the click; a socket that breaks | an unconfirmed switch stays masked, a mask can end, the highlight never jumps and never stays blank |
| **watchd, statusd, approvald** | subscriptions, snapshots, one worker per pane | subscribe, change, refresh, approve | reconnects, stale snapshots, handed-over panes | sequences without gaps; one approver per pane |
| **stats service**, `stats_current/` | sample store, materialised views, revisions | sample, rebuild, read | a bounded rebuild beside reads and writes | a revision names one content |
| **file index**, `search/` | frontier, index, publications | walk, pause, publish | a bounded walk that resumes | every reachable entry is visited once |
| **login rate limit, chat store, backend health, YO agent** | counters, messages, incidents, turns | as named | several processes, retries | see the plan |
| tmux, filesystem and git operations, integrations, the rest of the browser code, assets, tools | | | | not modelled: I/O, parsing and presentation |

Components interact by RPC (the web process calls every service), by files with an identity in them
(leases, claims, locks, caches) and, inside a service, by threads over one lock. A handler of the web
process submits to `batchd` and polls for the product; `batchd` runs the task in a worker process; the
answer becomes a retained product. `PROJECT.json` lists every component with its status, and the
hazards of the modelled code at their lines.

## 2. The modules

| module | what it is |
|---|---|
| `Broker` | the broker: its variables, one action per step of a handler, of the scheduler, of the listener's tick and of a worker, fairness and properties |
| `JobLedger` | what the broker promises, abstractly: an accepted job is owed one outcome |
| `MCBroker` | the instances TLC checks |
| `BrokerProofs` | theorems about `Broker` for all values of its constants |
| `BrokerTypeProofs` | the theorem that the broker's variables keep their types |
| `BrokerAnswerProofs` | the theorems about what becomes of an answer: running records, terminal states, the product store |
| `ClientEvents` | how a page keeps its copy of a resource in step with the server: the server's event watcher and queues, the streams, the copy, its repairs |
| `ApiOperations` | accepted operations and their terminals: the server's journal, the streams that carry a terminal, the page's records and acknowledgements |
| `FileEditor` | one file open in one editor, beside others that write the file |
| `WindowSwitch` | the switch of the tmux window of one session, from click to reveal |
| `ProcessClaims` | the claim files of helper processes: servers that spawn, adopt, reap and die, one action per access to a file |
| `MCParts` | instances of `ProcessClaims`, `ClientEvents`, `ApiOperations` and `WindowSwitch` in one run: they share nothing, and a behaviour moves one of them |
| `MCFileEditor` | the instances of `FileEditor` |
| `MCProcessClaims` | the instance of `ProcessClaims` with four servers, for the two refuted statements |
| `ProcessClaimsProofs` | theorems about `ProcessClaims` for all servers and helpers |
| `WindowSwitchProofs` | theorems about `WindowSwitch` for all windows, switches and attempts |
| `ApiOperationsProofs` | theorems about `ApiOperations` for all operations, replay limits and budgets |
| `ClientEventsProofs` | theorems about `ClientEvents` for all windows, demands and budgets |
| `FileEditorProofs` | theorems about `FileEditor` for all budgets |

### 2.1 `Broker`: how the model corresponds to the code

**Records.** `JobRecord`s are numbered by submission, so the deques of `self.queues`, the map
`self.coalesced` and `self.latest_generation` are not variables: the head of a deque is the least live
id (`IsNextQueued`), the coalescing entry of a key is its last record unless that was pruned
(`LastQueued`), and a record is outdated when a newer generation of its key was ever accepted
(`Outdated`). A submission is a record of what the broker looks at: key, priority, generation, whether
it has a deadline, `fresh_only`, and what kind of answer its task gives (a `read` a product, a
`transfer` an artifact, a `delete` a product or a partial failure). One key names one task, as in every
caller.

**Time.** `age` says whether a job is before its deadline, past it, or past the backstop
(`BATCHD_RUNNING_DEADLINE_BACKSTOP_SECONDS`) as well.

**The lock.** `lock` is `state_lock`. The pump waits for it; a handler tries it once and is refused
(`RefuseBusy`). A refresh (`_refresh_records`) is several steps under it, because executors, clocks and the
scheduler's unlocked half move while it runs: one step per finished future (`HandleFinishedFuture`), one
that retires broken slots and reaps predecessors (`EndFinishedFutures`), one per expired record
(`ExpireDeadline`), one that prunes (`PruneRecords`). Then the owner answers its call or selects work.

**The pump.** `SelectQueued` pops and places records under the lock; `LeaveLock` ends that half. Outside
it come `FinalizeArtifact`, and for each selected record `TakeExecutor`, `Submit` and `Attach`, or
`SubmitFails`: the executor may be fenced between any two of them. `EndPump` looks whether a requested
shutdown has drained.

**Slots.** A slot has an executor, a generation and the generations of its quarantined predecessors;
`alive` says which executors' worker processes live. An executor has one worker (`_new_executor(1)`).
`Reaped` is empty: `_executor_workers` reads the executor's process map, and
`ProcessPoolExecutor.shutdown()` has set it to `None` when the predecessor was quarantined.

**The product store.** `inline` and `stored` are the retained inline products and their eviction order,
`artifact` the artifacts. `StoreInline` drops the oldest past the bound on their number, and any number more
for the bound on bytes, but not the new one: one result has at most 4 MiB (`batchd.py:193-194`), the bound is
32 MiB (`batchd.py:195`).

**Lifecycle.** `ShutdownLocked` and `ShutdownContended` are the shutdown request with and without the
lock; `IdleShouldStop` is the listener's tick, possible only without a handler in flight; `Retire` is a
signal or the death of the launching parent; `OnShutdown` runs after the scheduler has been joined.

**History.** `told` remembers which callers were told that their job was cancelled, `evicted` the completed jobs
whose product was dropped for space; no action reads them.

Definitions marked "Wrong variant" occur in no action. Each is a plausible mistake in the definition
that follows it, and the property named for it in `PROJECT.json` fails when it takes that
definition's place.

### 2.2 What the model leaves out

- Which settled records are pruned first: any of them may be. The bound on the bytes of records is
  folded into `MaxRecords`.
- A future that finishes during a pass is seen by the next pass.
- The order of selection between lanes and of dispatch within a pump: any order.
- Records without a slot (a compatibility path of older tests), telemetry, and the wire formats.
- Artifact leases and chunks, `allow_stale` and the receipt delivery mode, the epoch check of the
  retirement handshake.
- One handler that takes the lock is in flight at a time; handlers cannot overlap under `state_lock`, and
  those that lose it are refused.
- The scheduler is joined within the two seconds `_on_shutdown` allows.

### 2.3 `ProcessClaims`: how the model corresponds to the code

A **server** is a process by its full identity, so a dead one never returns (`Gone`), and it has one pass
over one claim at a time: `step` is the next statement of that pass, `about` the helper, `seen` what the
pass has read. `own` is what the server keeps in memory, its live handle or `self.claim`.

A **claim** is the supervisor and the `adoption_count` in the helper's claim file, a **marker** the server
that created the adoption marker; it is in `noted` once the file names its creator, because creation
(`O_EXCL`) and writing are two steps. Reads, creations, writes and unlinks are each an action, and
`Crash` may follow any of them. An unlink goes by path, so it removes whatever is there by then.

An adoption is `ReadClaim`, `PassFence`, `CreateMarker`, `NoteMarker`, `Compare`, `SwapSupervisor`, `Unmark`,
`Reload`; `FindMarker`, `ResolveMarker` and `ClearMarker` are what a successor does that finds a marker.
`LoseTransfer`, `SwapFails` and `GiveUp` are the error paths; a file or an identity that cannot be read is
one of them. The reaping pass covers `reap_unsupervised` and the registry's
`_repair_one_claimed_survivor`, which act alike on the same files. `Passes` says which passes a root has:
a managed-private root has no `"adopt"`.

`robbed` is history: a helper is in it once a live server's marker was unlinked by a pass that had read
another marker there, or none. `AdoptersOverlap` shows that this happens; the other properties say what
holds as long as it has not.

Left out: kinds, namespaces and generations of claims (each only narrows which claims a pass looks at, and
the model lets a pass look at any; that a survivor is of a superseded generation is such a condition of
the repair), the launch record beside the claim, and repeated signals with their grace periods.

### 2.4 `ClientEvents`

One resource, `tmux_signals_changed`, with a handful of windows; `windows` is what tmux has, a version per
window, and a patch names the windows whose version differs from the payload before it. `stream` holds
the active EventSource and the candidate (`clientEventTransportState.source`, `replacementSource`); each
is a connection with the server's half (`pending`, the broker's one queued event of the resource, and
`owed`, its pending repair) and what is on the wire. `Overflow` stands for the other resources that fill
a subscriber's queue. `PollTmuxSignals` publishes, `SendReady` and `NextEvent` write, `Receive`,
`ReceiveOnCandidate` and `Frame` are the page's handlers, `RepairEnds` one turn of the repair loop with the
answer to its read. An EventSource that is lost delivers what it has received before it reports the
error, and reconnects by itself with the URL it had.

`RevisionIsHonest` compares versions: once nothing is queued or under repair, a copy has a revision and may
be newer than it, because a snapshot is, but never older. `spoiled` is history: it names the five ways in
which the code lets that fail (3.2), and the property holds of every copy that none of them has touched
since its last repair. One of the five is a restart of the server: `adoptServerEpoch` keeps the copy, and
unless the ready lists a revision of the resource nothing repairs it before the new process's first
patches go over it. `stray` is the read of a repair that was dropped when the server's epoch changed,
which still arrives.

Left out: other resources, the HTTP resynchronisation after an authentication probe, the polling fallback
of a page without streams, and the order of patches on different resources.

### 2.5 `ApiOperations`

`ledger` is an operation's phase in the server's journal, `revised` the terminals this server process has
counted a revision for, which is what a `ready` frame lists. A stream names in its URL the operations the
page awaited when it was made (`ids`), replays those, then sends what its queue holds. `record`, `terminal`
(in order, with its limit), `repairs`, `acks` and `dedicated` are the page's maps. `Evicted` is the
replacement for a result that the journal has cut down after its acknowledgement. `handled` is the
history of what the handler of each operation was given; `forgone` names the terminals that a bound of
the code threw away, or whose repair it did (3.2).

`repairs` is a set: `Evictions` gives the sets that the code's loop over the limit may delete from it. That
those of earlier calls go first is kept; which of them is the oldest is left open, so the model evicts
every operation that some order would. A dedicated stream that errs adds its operation without that loop
(`99_client_event_transport.js:177`), so the limit is no invariant of `repairs`.

Left out: the waiters of a handler and the session's lifecycle token, which only decide what a handler
does with a result; the pruning of operations from the journal by age and number
(`_prune_operations_locked`), so that a terminal stays there to be replayed; the filter by channels, which
keeps terminals from a stream whose demand lacks *core* (a page that awaits an operation demands it); and
what the page does when it is disposed of (`99_client_event_transport.js:1119-1125`). A new server process is assumed to serve after the page has received everything the
old one wrote.

### 2.6 `FileEditor`

Texts are numbers, one for each class of texts that save hygiene makes equal; a modification time stands
for the time and the size that the code compares, and the tolerance of ten milliseconds is not modelled (`OverwritesOnlyTheSeen` would not see a change within it).
`owner` is the save owner of the path with its request, the request that waits, and the stage of the
write on the server, which truncates before it fills (`WriteFileChecks`, `WriteFileWrites`); `reload` and
`poll` are the read and the poll in flight. Both keep the object they took before an await, and
`setFileState` replaces it, so a poll knows whether what it holds is the editor's state, the one a save
under way will still write to, or a dead one (`holds`), and a save whether its answer still reaches the
editor. `close` is how far closing the tab is. `openFileBackgroundReloadShouldDefer` is left open.

`unsaved` is history: the text the user typed last, until it is on disk or the user gave it up by an answer
to a dialog. `damage` names the three ways in which the code loses it: *reload* (3.1), *clean* and *close*
(3.2); `NoEditLost` says there is no other. Three moments decide what counts: typing again what a save has
just written (`IsWritten`) leaves nothing to be lost, because it is on disk; typing again the text the editor
was loaded with leaves it to be lost, although the editor counts as clean, when a save of another text
is under way or has reached the file (`Overtaken`); and whether a reload may replace a text is decided when the reload is
(`Safe`), also by a poll that joins another reload and then has the file loaded once more on its own old
decision.

Left out: that the poll passes over a clean file in a background tab until it is activated or asked for
(`45_file_explorer_actions.js:2891`), since the tab of the model is one that is shown; a second poll beside the first; the comparison dialog, whose outcome is one of the conflict
dialog's; opening and renaming; a write by others between the server's check and its truncation or
between truncation and fill. While a dialog is open nobody types, and the autosave setting does not
change during a behaviour.

### 2.7 `WindowSwitch`

`override`, `sequence`, `guard` and `loading` are the fields of the session's `tmuxWindowNavigationRecord`,
`mask` the node that `showTerminalConnectionState` puts over the terminal. `metadata` is the active window
of the page's copy, which the header and the panels show; the signals' copy beside it always agrees with
it where the properties look, and is left out. `posts`, `readbacks`, `holds` and `paints` are what is under way
outside the page's turn: requests, readbacks with their attempt, the timers that release a confirmed
override, and paint frames. A readback that waits for its delay and one that waits for its answer
are one state, and two with the same target and attempt count as one. The page's part of each step
is a function of its record (`Shown`), composed as the code composes its helpers: `ReadbackAnswers`
is `applyTmuxSignalsPayload`, the confirmation and the paint barrier.

tmux itself is not a variable. Other clients switch its window too, requests overtake each other, and payloads
are cached, so an answer names any window; the properties say what the page makes of that.
`Lasting` drops the hold timers of older switches, which find another sequence and do nothing.
`replaced` is history: a reconnect has put its own state in place of the switch's mask (3.2).

Left out: sessions and windows that vanish, a page in read-only mode, the time a guard lasts (`GuardExpires` may
end it at any time), and the check of the session before a reconnect.

## 3. The runs

| run | what happens in it | properties |
|---|---|---|
| `BrokerSlots` | a delete with a deadline and a transfer without on two slots of one lane, readers refresh, clients cancel | `TypeOK`, `SlotExclusive`, `DeliveredInlineOwnsTerminal`, `TerminalIsFinal`, `RunningIsAwaited` |
| `BrokerStore` | three jobs over two generations of one view (the newer `fresh_only`) and another view, two slots, one retained product, three retained records | `ProductCoversCompleted` |
| `BrokerLifecycle` | every way to stop, a transfer with a deadline, a client that leases and dies, a queue of one | `CleanStop`, `TerminalIsFinal`, `KeepsLedger` |
| `BrokerProgress` | two lanes; only the interactive lane's worker is sure to answer; a shutdown | `InteractiveSettles`, `InteractiveShutdown` |
| `Parts`, claims | three servers around one helper, adopting and reaping | `TypeOK`, `OneSupervisor`, `SupervisorIsRecorded`, `DisplacesOnlyTheDead` |
| `Parts`, events | two windows that change, a page that turns to other panes or to the background, breaks, overflow and a restart | `EventsTypeOK`, `RevisionIsHonest`, `CoversDemand` |
| `Parts`, operations | two operations, room for one terminal and one repair, breaks, a full queue, a restart, lost acknowledgements, demand changes | `OpsTypeOK`, `HandledOnce`, `AckFollowsHandling`, `PublishedReachesPage` |
| `Parts`, switch | two windows, two switches or a switch and a cancel, pushes at any time, a failure, a retry or a broken socket | `SwitchTypeOK`, `OldScreenHidden`, `MaskCanEnd`, `PendingIsAwaited`, `HighlightIsShown`, `HighlightNeverJumps` |
| `FileEditor` | edits, changes by others at any step but between the server's check and its write, failing requests, clicks on save, reload and close | `FileTypeOK`, `NoEditLost`, `CloseIsAwaited`, `OverwritesOnlyTheSeen`, `EditorConverges` |

Three servers let one that adopts die and two find its marker, or two adopters meet a reaper, with the
helper's spawner among them. Four, where the spawner is apart from three passes, take longer than a run
of minutes; the refuted statements need and use four, and the theorems hold for any number. Helpers do
not interact (a pass is about one), so one is enough. The claims have no bound besides these: servers
only die, and a count only grows by a transfer from the dead.

The browser's parts are bounded by budgets: a behaviour starts with one of a few combinations of how
many changes, faults, restarts and turns of the user are still to come (`EventBudgets`, `OperationBudgets`,
`SmallBudgets`), each small enough to be explored completely. Every pair of hazards the modules name is in
one of them. `RetryLimit` is 2 where the code has 3, `ReplayLimit` 1 where it has 128: both are reached.
In `WindowSwitch` two switches are enough for one to be stale (`MaxSequence`), two attempts for one to be the
last (`ReadbackMaxAttempts`, 6 in the code), and `MaxSetbacks` counts failures, retries and broken sockets; the
pushes have no bound.

The bounds of the broker (`MaxJobs`, the small queue, record, product and quarantine limits) are small because each
hazard needs few actors: two jobs to share or lose a slot, a third to be superseded or evicted or to find
a record pruned, one quarantined predecessor to reach the budget. A limit of one or two is reached in
every run; the real ones (64, 256) differ only in how long that takes. The transfer with a deadline is in another
run than the two slots and the cancels because together they exceed what a run of minutes can visit;
`SlotExclusive` is also proved, for every combination. `CHECK_DEADLOCK FALSE` is set because a broker that is down stops.

**Fairness.** The scheduler's thread and the handlers keep running, so the owner of the lock takes its
next step (`WF`). A step of the scheduler that needs the lock competes with handlers that hold it briefly
and release it: it finds the lock free again and again, so it needs `SF`. Clocks advance. Workers need
not answer: a filesystem call on a dead mount need not return, and the deadlines must not assume that it
does. In `FileEditor` requests are answered, timers fire, an acknowledgement expires and the poll comes
round again; the user and those who write the file owe nothing, and requests may fail as often as the
budget says. `BrokerProgress` makes the interactive lane's worker fair (`LaneWorkerFairness`) and asks that its jobs,
and every job with a deadline, settle whatever the bulk worker does. Clients are never fair.

### 3.1 Where the sources say otherwise

Six runs each refute one statement of a comment or a test; `PROJECT.json` quotes them.

| run | the statement | what happens |
|---|---|---|
| `EvidenceDropped` | partial evidence is retained when the backstop fires | the backstop quarantines the slot, so the late answer is one of a replaced executor, and that branch drops it |
| `CancelNotHonoured` | an `ok` to a cancel means the work has stopped | a record between selection and attachment is running without a future; cancel does nothing and says `ok` |
| `AdoptersOverlap` | exactly one successor can create the marker, and two never both believe they own the helper | two passes read a dead adopter's marker; the first clears it and a live adopter creates its own, which the second then unlinks; a third adopter enters, and both replace the claim each has compared |
| `ReapedUnderSupervision` | a survivor whose supervisor is alive is retained | the repair signals on a proof taken before another server adopted the helper; it takes no marker and proves only the helper's identity again |
| `EditSurvivesReload` | an external change never overwrites a dirty buffer (`docs/specs/GUI.md:755`) | a reload that was begun while the editor was clean ends in `setFileState` whatever has been typed during its two awaits |
| `QuarantineUnbounded` | at most `BATCHD_MAX_QUARANTINED_PREDECESSORS` stuck workers live | the next refresh forgets them |

### 3.2 Also seen in the model

Smaller departures that have no run of their own:

- A reader's refresh may not adopt a finished artifact (`ClaimArtifact`) and goes on to expire its record, so
  a transfer that had answered in time can be labelled `timed_out` (`batchd.py:1536-1541`, 1688-1691). This
  is why `DeliveredInlineOwnsTerminal` excepts transfers.
- A submit that raises marks its record failed without looking at its status (`batchd.py:1768-1779`), so a
  record that was cancelled or timed out during the dispatch changes its terminal state. This is the
  exception in `TerminalIsFinal`.
- The generation guard of `store_inline` compares with what is retained (`batchd.py:888`), so once a newer product
  was dropped for space an older generation that is still running brings the key back at its own, while
  the record of the newer job still says completed. A reader is told that it is stale
  (`batchd.py:970`, `latest_generation`). This is why `ProductCoversCompleted` leaves out the jobs in `evicted`.
- After `OnShutdown` a quarantined worker that hangs is still in `alive`: `_shutdown_executor` kills the
  workers a process map names, and a quarantined executor's map is gone (`batchd.py:1396-1418`).

- A successor that dies between the creation of its marker and the write into it leaves an empty marker.
  `_resolve_contended_marker` clears only a marker that names its holder (`process_claims.py:571`), so the
  claim is contended for good, where its docstring says that a crashed successor must not lock the claim out
  of adoption forever. The same holds of a marker whose live creator failed to unlink it.
- `atomic_write_text` can raise after its `os.replace` (`SwapFails`). The claim then names a live server that
  was told it lost, and no other may adopt the helper while that server lives.
- An adopter's write can bring back a claim that a reaper has unlinked since the comparison.

- Of `ClientEvents`, the ways in which a copy comes to claim more than it has until its next repair
  (`spoiled`). *overwritten*: the
  queue for the next frame keeps one event of a resource while the revision has counted both, so the
  first patch is never applied. *undone*: a snapshot read before a patch was accepted is applied while the
  patch waits, and the repair sets the revision back. *unrepaired*: a read that fails ends the repair and
  nobody asks again before the next reconnect. *carried*: the page adopts a new server process and keeps the
  copy of the old one; a ready without a tmux revision repairs nothing (its channel's refresh,
  `99_client_event_transport.js:62`, is of another resource), and the new process's first patch, of
  revision 1, is accepted over it. *stray*: the read of a dropped repair arrives after the copy was repaired.
  A repair that is owed after an overflow and travels
  with another resource's event does not reach this one at all.
- A page that has no copy yet accepts a patch, counts its revision and applies nothing
  (`99_client_event_transport.js:224-241`); `tests/layout_async.test.js:4086` describes a late client that
  waits for its snapshot.
- Of `ApiOperations`: `abandon_recovered_operations` makes what was queued terminal in the journal of a new
  server process and publishes nothing. A stream that reconnects by itself has the URL it was made with;
  if that lacks the operation, the terminal does not reach the page until its demand changes, where the
  comment at `99_client_event_transport.js:810-813` expects the replay. `PublishedReachesPage` is about
  terminals that were published.
- A terminal's frame carries no repairs, so what a subscriber was owed is lost when the next event it reads
  is a terminal; a terminal that came before its receipt can be pruned; and `repairs` is bounded
  (`99_client_event_transport.js:149-153`), so an operation whose repair waits for its receipt, or for a ping
  after its stream broke, can be evicted, also by the list of a single ready, which names every terminal
  of the process. Its result is then not asked for before the next reconnect (all three are `forgone`).
- `ClientEventBroker.next_event` reads the event's resource outside its lock; an EventSource that the server
  closed with an HTTP error is not opened again until the demand changes.
- Of `FileEditor` (`damage`, *close*): text typed while the save that a close waits for is under way goes with
  the tab unless autosave has it; so does a text that was changed back to the saved one while another is
  being written, and the trailing save of a closed tab, if it is refused or fails.
- Of `FileEditor` (`damage`, *clean*): type 2, save, type the original 1 again: the editor counts as clean, and when
  the server has written 2, a poll before the answer loads it over the 1, which is then in no editor, no
  save and no file (`45_file_explorer_actions.js:2751`; a deletion seen by `markOpenFileMissing` does the same).
- A save to a file that was deleted creates it before the times are compared (`O_CREAT`), so it leaves an
  empty file behind and is then refused.
- Of `WindowSwitch`: the comment at `99_terminal_boot.js:4925-4927` has a switching mask survive a reconnect, but
  `scheduleTerminalReconnect` shows *reconnecting* in its place (`70_layout_actions.js:3790`), which the next open or
  output clears, so a switch that is not confirmed is no longer masked (`replaced`). Retry confirms the switch at
  once (`99_terminal_boot.js:4790`): a stalled mask that is retried is lifted whatever the readback finds. A
  request that fails restores the session's info as it was at the click, over what has arrived since.
  An override of a direct switch that tmux never agrees with, because another client or an older request
  had the last word, is not released by any step: `clearActiveIndexOverride` is passed to the readbacks and read
  nowhere.
- A poll that listed the file while the page's own save had truncated it, and is handled after the save was
  answered, reports that save as a change by others.

## 4. The proofs

`BrokerProofs` proves, for every number of jobs, slots, lanes and every bound, under
`BrokerConstants` (priorities belong to one lane, slots to a lane, each request is of a modelled kind, limits are naturals and at least one product is retained):

- `SlotExclusiveHolds`: a running job is on a slot of its lane, on the executor it was dispatched to,
  and alone there. `SlotExclusive` is not inductive, because a slot is also retired on the word of records
  that no longer run: one being dispatched whose submit fails, and one whose worker crashed earlier in
  the same pass. `SlotInv` adds who may be dispatching or retiring and when (`LockDiscipline`) and that each
  record that can still speak for a slot is alone on it unless its generation has passed (`SpeaksAlone`).
- `CleanStopHolds`: a broker that stopped by itself has settled every accepted job. `StopInv` adds that no
  handler is in flight after an idle stop, and that admission is closed after a drain.
- `BrokerKeepsLedger`: the broker implements `JobLedger`. Initial states map to initial states, and each
  step to an acceptance, a settlement, a closing, an end, or nothing.

`BrokerTypeProofs` proves the broker's `TypeOK` under the same assumptions. It is not inductive alone: that
a dispatched record has a slot comes from `SlotInv`, and `Accepted` adds that records, futures and dispatches
belong to accepted submissions and that a submitting handler has a validated request.

`BrokerAnswerProofs` proves the other four safety properties, still under `BrokerConstants`: `RunningIsAwaited`,
`TerminalIsFinal`, `DeliveredInlineOwnsTerminal` and `ProductCoversCompleted`. The first and the
third rest on `WorkInv`, which is what the off-lock half of the pump takes for granted: a record that has a
future was started and is never queued again (`StartedOnly`), the record whose executor is in hand has no future
yet (`HeldIsUnsubmitted`), a running record's future is of the executor it names and that executor's worker lives
or has answered (`Awaited`), only transfers await adoption (`ArtifactKind`), and what had been answered when a
pass began is settled before a deadline is looked at (`AnsweredFirst`). With `SlotInv`, no running record is
fenced, so `Abandon` never lets go of a future that somebody waits for. `TerminalIsFinal` is a fact of
each single step (`NextRevises`). `ProductCoversCompleted` is inductive over the types and `WorkInv`: `StoreInlineStores`
says that a store sets one key and drops some others, whose completed jobs become `evicted`, and that is all the proof
uses of the eviction order.
The attempt to prove `ProductCoversCompleted` as it stood before ("unless the key is not retained now") failed for a
good reason: it is false with three retained records, which the run then did not have (3.2). The run now has
them, and the property counts a job as no longer covered only once its product was dropped.

`ProcessClaimsProofs` proves the type invariant, `OneSupervisor`, `SupervisorIsRecorded` and
`DisplacesOnlyTheDead` for any set of servers and helpers, from `ClaimConstants` alone (no supervisor is
a server called `Nobody`; the passes are adopt and reap). `OneSupervisor` is not inductive: that the swap
has one winner depends on what was true at the comparison and on what the marker keeps true since.
`IInv` says so for helpers that were not robbed: whoever is between `NoteMarker` and `Unmark` has its marker in
place (`MarkerExcludes`); at the swap the claim is the one that was compared, or none, and nobody holds
the helper (`ComparedStands`), because a holder would be in the claim (`WinnerRecorded`) and the
supervisor in it was proved gone (`FencedIsGone`). Whoever holds it is alone (`WinnerAlone`).

`WindowSwitchProofs` proves the six properties of `WindowSwitch` for any windows, any number of switches,
setbacks and readback attempts, from `SwitchConstants` alone (the two markers name no window, a readback has
at least one attempt). None but the type invariant and `PendingIsAwaited` mentions what is under way, yet
each depends on it. Two facts carry the proof. The page's record is
`Coherent` in the newest sequence: the guard agrees with the override, what is loaded is masked unless a
reconnect replaced the mask, a mask belongs to what is loaded, and the highlight is what the metadata
shows. And the newest switch has one target (`OneTarget`): every request and readback under way for it, and
what is loaded, name the same window, or none for a relative switch, and neither override nor guard is on
another. Without it a late confirmation of the same sequence could move the highlight. The page's part of
a step is a function of its record, so lemmas say of each function first what it does to the fields and
then that it keeps a record coherent; `WithinSwitch` and `BeginsSwitch` reduce each action to that.

`ApiOperationsProofs` proves the four properties of `ApiOperations` for any operations, from
`OperationConstants` alone (a replay limit and budgets of naturals). `HandledOnce` and `AckFollowsHandling`
follow from where a result can be and what it is: `SourceSound` says of a stream, of what it has
written and what it still owes, that every terminal in it is the journal's and that one that is not exact
was acknowledged; `PageOK` says the same of the page's queues, that what is framed or kept
has been handled or will be, and that an operation is acknowledged only when it was. `PublishedReachesPage` needs more:
`Bears` names the ways in which a stream will bring an operation (it owes it, has written it, or will
replay it by the URL it connects with), and a stream is `Unread` until its ready was read, which is when
a page learns that it talks to another process. What the limits throw away is in `forgone` by the definition of the
step that does; the proof shows that nothing else is lost, whichever order the evictions take.

`ClientEventsProofs` proves the three properties of `ClientEvents` for any windows and any numbers of changes,
restarts and faults, from `EventConstants` alone (budgets of naturals, at least one process, no demand that
is called `"none"`). `RevisionIsHonest` is far from inductive, because the base of a copy, the patches on the wire,
the queued event and the repair all arrive by different ways. `WireOK` says that what a stream holds is of one
process, in its order, from its ready on; `QueueOK` and `RepairOK` that what waits in the page is of the
process it has adopted. `HonestOK` says of an unspoiled copy with no repair running that the page counts a revision
(none is counted as 0) and that the copy is at least that revision's payload, or the payload before it while its
patch is still queued. So the first patch of a process never meets a copy that was not made from that process: such a copy
has been recorded as carried over, and its record stands until a repair ends.

`FileEditorProofs` proves `FileTypeOK`, `NoEditLost`, `CloseIsAwaited` and `OverwritesOnlyTheSeen` with no assumption
on a constant: any budget will do. `NoEditLost` becomes inductive as `EditOK`, which says where a text is in each
phase: in the editor while there is a tab, afterwards only in a save, and in none that has written it.
`CloseIsAwaited` needs that exactly one request knows of the close (`CloseOK`), since resolving a second one would
close a tab twice or reopen it. `OverwritesOnlyTheSeen` needs `TimesOK`: every time that the page holds, the
editor's, the one a save expects and the one a save has made, is none to come, and if the file is
at that time its text has been seen; `OnlyTheCheck` adds that no step but the server's empties the file.

In the last three modules the parts are predicates of the values of the variables
(a stream, a record of the page, an owner), so that the lemmas speak of what a helper of the code
returns and the actions are put together from them.

Only model-checked: the liveness properties (`InteractiveSettles`, `InteractiveShutdown`, `EditorConverges`), because
fairness and `ENABLED` are outside the prover. Every safety property of a passing run is a theorem.

## 5. The plan

1. More of the broker: `ArtifactStore` for artifact leases, chunks and their expiry beside eviction and shutdown.
2. `ServiceLifetime`: the runtime's handler slots and idle retirement, the registry's election and the
   retirement handshake with its epoch, composed with an abstract service; then `ServerLease` and
   `SharedConfigLock`.
3. `QueuedDelivery` and `WatchSequence`: the journal's compaction and the watch sequences with crash and
   reconnect, each against an abstract log.
4. `BfsIndex`, `StatsRevision`, `LoginRateLimit`, `ChatStore`, `BackendHealth`.

Theorems worth proving along the way: the type invariants, one daemon per root, one lease holder per
root, no gap in a replayed sequence.
