---------------------------- MODULE ProcessClaims ----------------------------
(***************************************************************************)
(* The claims on helper processes: yolomux_lib/infra/process_claims.py,    *)
(* the class ProcessClaimLedger, and the claim-backed repair of            *)
(* yolomux_lib/local_services/registry.py that acts on the same files.     *)
(*                                                                         *)
(* Several servers on one host share a directory with one claim file per   *)
(* helper.  A server that finds a helper whose supervisor is gone adopts   *)
(* it, under a marker file created with O_EXCL, or reaps it.  Every read,  *)
(* write and unlink of a file is a step: the others run in between, and a  *)
(* server may die at any of them.                                          *)
(*                                                                         *)
(* A definition marked "wrong variant" is in no action: it is the mistake  *)
(* that the properties are shown to catch in the definition after it.      *)
(***************************************************************************)
EXTENDS Integers, FiniteSets

CONSTANTS
  Process,   \* the servers, by host, boot, pid and start identity: a dead one never returns
  Helper,    \* the helpers they spawn, each with the claim and the marker of its claim_id
  Passes,    \* what servers do about survivors: "adopt" (adopt_unsupervised), "reap"
  Nobody     \* no supervisor: the claim file, or the marker file, is not there

ASSUME ClaimConstants == Nobody \notin Process /\ Passes \subseteq {"adopt", "reap"}

VARIABLES
  up,        \* the servers that live
  helper,    \* helper -> "none", "up", "exited" or "killed"
  claim,     \* helper -> the supervisor and the adoption_count its claim file records
  marker,    \* helper -> the server that created the adoption marker
  noted,     \* markers whose file names its successor already
  step,      \* server -> how far its pass is
  about,     \* server -> the helper the pass is about
  seen,      \* server -> the claim as the pass read it; then the holder of the marker it may clear
  own,       \* server -> the helpers it believes it supervises (self.claim, the live handle)
  \* --- history, read by no action
  robbed     \* helpers that lost a marker to a server that had read another, or none

vars == <<up, helper, claim, marker, noted, step, about, seen, own, robbed>>

Claim   == [supervisor : Process \cup {Nobody}, count : Nat]
NoClaim == [supervisor |-> Nobody, count |-> 0]
Claimed(h) == claim[h] # NoClaim

Init ==
  /\ up = Process
  /\ helper = [h \in Helper |-> "none"] /\ claim = [h \in Helper |-> NoClaim]
  /\ marker = [h \in Helper |-> Nobody] /\ noted = {}
  /\ step = [p \in Process |-> "idle"] /\ about \in [Process -> Helper]
  /\ seen = [p \in Process |-> NoClaim] /\ own = [p \in Process |-> {}]
  /\ robbed = {}

\* Wrong variant.
NotCurrent(q) == TRUE
\* process_is_provably_gone: a live process may be unreadable, and that is no proof.
Gone(q) == q \notin up

-----------------------------------------------------------------------------
(* A server and its own helpers *)

\* A spawned helper is claimed at once, unless the claim cannot be written.
Publish(p, h) ==
  /\ p \in up /\ helper[h] = "none"
  /\ helper' = [helper EXCEPT ![h] = "up"]
  /\ \E c \in {NoClaim, [supervisor |-> p, count |-> 0]} : claim' = [claim EXCEPT ![h] = c]
  /\ own' = [own EXCEPT ![p] = @ \cup {h}]
  /\ UNCHANGED <<up, marker, noted, step, about, seen, robbed>>

\* The supervisor drops its claim once the helper has been stopped.
ReleaseClaim(p, h) ==
  /\ h \in own[p] /\ helper[h] # "up"
  /\ claim' = [claim EXCEPT ![h] = NoClaim]
  /\ own' = [own EXCEPT ![p] = @ \ {h}]
  /\ UNCHANGED <<up, helper, marker, noted, step, about, seen, robbed>>

HelperExits(h) ==
  /\ helper[h] = "up" /\ helper' = [helper EXCEPT ![h] = "exited"]
  /\ UNCHANGED <<up, claim, marker, noted, step, about, seen, own, robbed>>

Crash(p) ==
  /\ p \in up /\ up' = up \ {p}
  /\ step' = [step EXCEPT ![p] = "idle"] /\ own' = [own EXCEPT ![p] = {}]
  /\ UNCHANGED <<helper, claim, marker, noted, about, seen, robbed>>

-----------------------------------------------------------------------------
(* One pass over one claim *)

At(p, s)   == p \in up /\ step[p] = s
GoTo(p, s) == step' = [step EXCEPT ![p] = s]
Subject(p) == about[p]

ReadClaim(p, h, pass) ==
  /\ At(p, "idle") /\ pass \in Passes /\ Claimed(h)
  /\ about' = [about EXCEPT ![p] = h] /\ seen' = [seen EXCEPT ![p] = claim[h]]
  /\ GoTo(p, pass)
  /\ UNCHANGED <<up, helper, claim, marker, noted, own, robbed>>

Fenced(p) == Gone(seen[p].supervisor)

\* Reported and left alone: the supervisor lives or its identity cannot be read, an adoption finds
\* no survivor, the marker cannot be created or removed, a signal is refused, an unlink fails.
GiveUp(p) ==
  /\ p \in up /\ step[p] \in {"adopt", "reap", "mark", "clear", "signal", "unlink"}
  /\ GoTo(p, "idle")
  /\ UNCHANGED <<up, helper, claim, marker, noted, about, seen, own, robbed>>

PassFence(p) ==
  /\ Fenced(p)
  /\ \/ At(p, "adopt") /\ helper[Subject(p)] = "up" /\ GoTo(p, "mark")
     \/ At(p, "reap")  /\ helper[Subject(p)] = "up" /\ GoTo(p, "signal")
     \/ At(p, "reap")  /\ helper[Subject(p)] # "up" /\ GoTo(p, "unlink")
  /\ UNCHANGED <<up, helper, claim, marker, noted, about, seen, own, robbed>>

-----------------------------------------------------------------------------
(* Adoption under the marker *)

CreateMarker(p) ==
  /\ At(p, "mark") /\ marker[Subject(p)] = Nobody
  /\ marker' = [marker EXCEPT ![Subject(p)] = p] /\ GoTo(p, "note")
  /\ UNCHANGED <<up, helper, claim, noted, about, seen, own, robbed>>

FindMarker(p) ==
  /\ At(p, "mark") /\ marker[Subject(p)] # Nobody
  /\ GoTo(p, "contended")
  /\ UNCHANGED <<up, helper, claim, marker, noted, about, seen, own, robbed>>

\* The successor is written through the descriptor: to nowhere if the file has been unlinked.
NoteMarker(p) ==
  /\ At(p, "note")
  /\ noted' = IF marker[Subject(p)] = p THEN noted \cup {Subject(p)} ELSE noted
  /\ GoTo(p, "compare")
  /\ UNCHANGED <<up, helper, claim, marker, about, seen, own, robbed>>

\* Wrong variant.
SameClaimId(p) == Claimed(Subject(p))
\* The claim is read again: the supervisor and the count must be the ones that were fenced.
Unmoved(p) == claim[Subject(p)] = seen[p]

Compare(p) ==
  /\ At(p, "compare") /\ Unmoved(p)
  /\ GoTo(p, "swap")
  /\ UNCHANGED <<up, helper, claim, marker, noted, about, seen, own, robbed>>

\* The marker cannot be written, or the claim has moved or cannot be read.
LoseTransfer(p) ==
  /\ At(p, "note") \/ At(p, "compare")
  /\ GoTo(p, "unmark")
  /\ UNCHANGED <<up, helper, claim, marker, noted, about, seen, own, robbed>>

\* Wrong variant.
AdoptedUncounted(p) == [claim EXCEPT ![Subject(p)] = [supervisor |-> p]]
\* The rewritten claim: its adoption_count is the version the next transfer is fenced against.
Adopted(p) == [claim EXCEPT ![Subject(p)] = [supervisor |-> p, count |-> seen[p].count + 1]]

\* The claim is replaced as it was read, whatever is there by now.
SwapSupervisor(p) ==
  /\ At(p, "swap") /\ claim' = Adopted(p) /\ GoTo(p, "won")
  /\ UNCHANGED <<up, helper, marker, noted, about, seen, own, robbed>>

\* atomic_write_text raised, before or after its os.replace.
SwapFails(p) ==
  /\ At(p, "swap") /\ claim' \in {claim, Adopted(p)} /\ GoTo(p, "unmark")
  /\ UNCHANGED <<up, helper, marker, noted, about, seen, own, robbed>>

\* An unlink goes by the path: whose marker is there by now, it does not see.
Unlinked(p) ==
  /\ marker' = [marker EXCEPT ![Subject(p)] = Nobody] /\ noted' = noted \ {Subject(p)}
  /\ robbed' = IF marker[Subject(p)] \in up \ {p, seen[p].supervisor}
               THEN robbed \cup {Subject(p)} ELSE robbed

\* The finally clause unlinks the marker, whoever's it is, or fails to and leaves it.
Unmark(p) ==
  /\ At(p, "won") \/ At(p, "unmark")
  /\ Unlinked(p) \/ UNCHANGED <<marker, noted, robbed>>
  /\ GoTo(p, IF step[p] = "won" THEN "reload" ELSE "idle")
  /\ UNCHANGED <<up, helper, claim, about, seen, own>>

\* The winner reads the claim once more to hold its handle: without a file it holds none.
Reload(p) ==
  /\ At(p, "reload") /\ GoTo(p, "idle")
  /\ own' = IF Claimed(Subject(p)) THEN [own EXCEPT ![p] = @ \cup {Subject(p)}] ELSE own
  /\ UNCHANGED <<up, helper, claim, marker, noted, about, seen, robbed>>

\* Wrong variant.
ClearableUnread(h) == marker[h] # Nobody
\* The marker names a successor, and it is gone.
Clearable(h) == marker[h] # Nobody /\ h \in noted /\ Gone(marker[h])

ResolveMarker(p) ==
  /\ At(p, "contended")
  /\ \/ /\ Clearable(Subject(p)) /\ GoTo(p, "clear")
        /\ seen' = [seen EXCEPT ![p] = [supervisor |-> marker[Subject(p)], count |-> 0]]
     \/ ~ Clearable(Subject(p)) /\ GoTo(p, "idle") /\ UNCHANGED seen
  /\ UNCHANGED <<up, helper, claim, marker, noted, about, own, robbed>>

ClearMarker(p) ==
  /\ At(p, "clear") /\ Unlinked(p) /\ GoTo(p, "idle")
  /\ UNCHANGED <<up, helper, claim, about, seen, own>>

-----------------------------------------------------------------------------
(* Reaping, and the repair of superseded survivors *)

Signal(p) ==
  /\ At(p, "signal")
  /\ helper' = [helper EXCEPT ![Subject(p)] = IF @ = "up" THEN "killed" ELSE @]
  /\ GoTo(p, "unlink")
  /\ UNCHANGED <<up, claim, marker, noted, about, seen, own, robbed>>

\* The claim is spent.
UnlinkClaim(p) ==
  /\ At(p, "unlink") /\ claim' = [claim EXCEPT ![Subject(p)] = NoClaim] /\ GoTo(p, "idle")
  /\ UNCHANGED <<up, helper, marker, noted, about, seen, own, robbed>>

-----------------------------------------------------------------------------
Adopt(p) ==
  \/ CreateMarker(p) \/ FindMarker(p) \/ NoteMarker(p) \/ Compare(p) \/ LoseTransfer(p)
  \/ SwapSupervisor(p) \/ SwapFails(p) \/ Unmark(p) \/ Reload(p)
  \/ ResolveMarker(p) \/ ClearMarker(p)

Reap(p) == Signal(p) \/ UnlinkClaim(p)

Next ==
  \/ \E p \in Process, h \in Helper :
        Publish(p, h) \/ ReleaseClaim(p, h) \/ \E pass \in Passes : ReadClaim(p, h, pass)
  \/ \E h \in Helper : HelperExits(h)
  \/ \E p \in Process : Crash(p) \/ GiveUp(p) \/ PassFence(p) \/ Adopt(p) \/ Reap(p)

Spec == Init /\ [][Next]_vars

-----------------------------------------------------------------------------
(* Properties *)

Steps == {"idle", "adopt", "reap", "mark", "note", "compare", "swap", "won", "unmark", "reload",
          "contended", "clear", "signal", "unlink"}

\* The files and the passes have their shape, and a dead server holds nothing in memory: what
\* the next pass knows of it is in the files.
TypeOK ==
  /\ up \subseteq Process /\ helper \in [Helper -> {"none", "up", "exited", "killed"}]
  /\ claim \in [Helper -> Claim] /\ marker \in [Helper -> Process \cup {Nobody}]
  /\ noted \subseteq Helper /\ robbed \subseteq Helper
  /\ step \in [Process -> Steps] /\ about \in [Process -> Helper] /\ seen \in [Process -> Claim]
  /\ own \in [Process -> SUBSET Helper]
  /\ \A p \in Process \ up : step[p] = "idle" /\ own[p] = {}

\* Two servers never both believe they supervise a helper ("Two successors racing the same dead
\* launcher must not both believe they own the helper"), whatever dies inside an adoption and
\* whatever a reaper does beside it, as long as no live adopter lost its marker to a clearer that had
\* read the one before it.
OneSupervisor ==
  \A p, q \in Process : p # q => own[p] \cap own[q] \subseteq robbed

\* Who keeps a helper alive is in its claim: the server that believes it supervises the helper is
\* the one the file names, unless the helper was never claimed or a reaper spent the claim, and as
\* long as no live adopter of the helper lost its marker to a clearer (robbed).
SupervisorIsRecorded ==
  \A p \in Process, h \in Helper \ robbed :
    h \in own[p] => claim[h] = NoClaim \/ claim[h].supervisor = p

\* A transfer takes a helper from the dead: the compare-and-swap never displaces a supervisor that
\* lives, although it was fenced several steps before.
DisplacesOnlyTheDead ==
  [][\A h \in Helper \ robbed :
        claim[h] # NoClaim /\ claim'[h] # NoClaim /\ claim'[h] # claim[h]
          => Gone(claim[h].supervisor)]_vars

-----------------------------------------------------------------------------
(* What the sources say and the code does not keep: each is refuted by a run of its own. *)

\* "exactly one successor can create it" (process_claims.py:44-47): an adopter's marker stays until
\* its transaction ends, and so a helper never has two supervisors.
MarkerElectsOne == \A p, q \in Process : p # q => own[p] \cap own[q] = {}

\* "A survivor whose supervisor is alive is retained" (registry.py:1084-1085): a helper that a
\* server supervises is not signalled by the passes of another.
SupervisedIsNotSignalled ==
  [][\A h \in Helper : helper[h] # "killed" /\ helper'[h] = "killed"
        => \A p \in up : h \notin own[p]]_vars

=============================================================================
