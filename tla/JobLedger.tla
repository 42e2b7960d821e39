----------------------------- MODULE JobLedger -----------------------------
(***************************************************************************)
(* What batchd promises its clients, with no scheduler in sight: an        *)
(* accepted job is owed an outcome, an outcome is given once and never     *)
(* taken back, nothing is accepted after a clean end, and the broker ends  *)
(* cleanly only when it owes nothing.  A kill may break the promise; that  *)
(* is the one way an accepted job stays without an outcome.                *)
(***************************************************************************)
CONSTANT Job

VARIABLES
  ledger,  \* job -> "none", "owed" or "settled"
  open,    \* admission is open
  ended    \* "no", "clean" or "killed"

vars == <<ledger, open, ended>>

Owed == {j \in Job : ledger[j] = "owed"}

Init ==
  /\ ledger = [j \in Job |-> "none"]
  /\ open = TRUE /\ ended = "no"

\* Accepting a job may settle older jobs it replaces.
Accept(j) ==
  /\ open /\ ended # "clean"
  /\ ledger[j] = "none"
  /\ \E S \in SUBSET Owed :
        ledger' = [i \in Job |-> IF i = j THEN "owed" ELSE IF i \in S THEN "settled" ELSE ledger[i]]
  /\ UNCHANGED <<open, ended>>

Settle ==
  /\ \E S \in SUBSET Owed : ledger' = [i \in Job |-> IF i \in S THEN "settled" ELSE ledger[i]]
  /\ UNCHANGED <<open, ended>>

Close ==
  /\ open' = FALSE
  /\ UNCHANGED <<ledger, ended>>

EndClean ==
  /\ ended = "no" /\ Owed = {}
  /\ ended' = "clean" /\ open' = FALSE
  /\ UNCHANGED ledger

Kill ==
  /\ ended = "no" /\ ended' = "killed"
  /\ UNCHANGED <<ledger, open>>

Next == (\E j \in Job : Accept(j)) \/ Settle \/ Close \/ EndClean \/ Kill

Spec == Init /\ [][Next]_vars
=============================================================================
