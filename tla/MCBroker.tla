------------------------------ MODULE MCBroker ------------------------------
(* Instances of Broker small enough for TLC.                                 *)
EXTENDS Broker

\* The bulk lane alone: two priorities over one or two slots.
OneLane       == {"bulk"}
BulkPriorities == [l \in OneLane |-> <<"freshness", "maintenance">>]
OneSlot       == [s \in {1} |-> "bulk"]
TwoSlots      == [s \in {1, 2} |-> "bulk"]

\* Two lanes of one slot each.
TwoLanes      == {"interactive", "bulk"}
LanesPriorities == [l \in TwoLanes |-> IF l = "bulk" THEN <<"freshness", "maintenance">> ELSE <<"interactive">>]
SlotPerLane   == [s \in {1, 2} |-> IF s = 1 THEN "interactive" ELSE "bulk"]

Ask(key, priority, generation, timed, fresh, kind) ==
  [key |-> key, priority |-> priority, generation |-> generation, timed |-> timed,
   fresh |-> fresh, kind |-> kind]

\* A delete with a deadline beside a transfer without: every way an executor ends.
SlotRequests ==
  {Ask("path", "freshness", 1, TRUE, FALSE, "delete"), Ask("zip", "freshness", 1, FALSE, FALSE, "transfer")}

\* A read in the interactive lane; in the bulk lane a read without and a delete with a deadline.
LaneRequests ==
  {Ask("view", "interactive", 1, FALSE, FALSE, "read"), Ask("scan", "freshness", 1, FALSE, FALSE, "read"),
   Ask("path", "maintenance", 1, TRUE, FALSE, "delete")}

\* Two generations of one view, the newer asked for fresh, and an unrelated view: superseding,
\* coalescing, eviction.
ViewRequests ==
  {Ask("view", "freshness", 1, FALSE, FALSE, "read"), Ask("view", "maintenance", 2, FALSE, TRUE, "read"),
   Ask("other", "freshness", 1, FALSE, FALSE, "read")}

\* A read without beside a transfer with a deadline.
MixedRequests ==
  {Ask("slow", "freshness", 1, FALSE, FALSE, "read"), Ask("zip", "freshness", 1, TRUE, FALSE, "transfer")}

\* One delete with a deadline.
OneDelete == {Ask("path", "freshness", 1, TRUE, FALSE, "delete")}

\* Only the interactive lane's worker is sure to answer.
InteractiveSpec == FairSpec /\ LaneWorkerFairness("interactive")

\* Work with a deadline and the interactive lane's work settle whatever the bulk lane's worker does.
InteractiveSettles == WorkSettles("interactive")

\* A shutdown completes although a bulk worker hangs, unless it hangs in a job without deadline.
InteractiveShutdown == ShutdownCompletes("interactive")
=============================================================================
