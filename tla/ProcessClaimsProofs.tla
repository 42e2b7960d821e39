------------------------- MODULE ProcessClaimsProofs -------------------------
(***************************************************************************)
(* What ProcessClaims guarantees for any number of servers and helpers.    *)
(*                                                                         *)
(* TypeOK is inductive by itself.  OneSupervisor is not: that two servers  *)
(* never both win a transfer rests on what each step of a transfer knows.  *)
(* IInv says it, for the helpers whose marker no live adopter was robbed   *)
(* of: the marker excludes (MarkerExcludes), under it the compared claim   *)
(* stays what was compared (ComparedStands), and a winner is recorded and  *)
(* alone (WinnerRecorded, WinnerAlone).  The rest are facts on which those *)
(* four lean.                                                              *)
(***************************************************************************)
EXTENDS ProcessClaims, TLAPS

\* The steps at which the server holds the adoption marker.
Marked == {"note", "compare", "swap", "won", "unmark"}

\* The server supervises the helper, or has won it and is about to.
Holds(p, h) == h \in own[p] \/ (about[p] = h /\ step[p] \in {"won", "reload"})

WinnerRecorded == \A p \in Process, h \in Helper \ robbed :
  Holds(p, h) => claim[h] = NoClaim \/ claim[h].supervisor = p

WinnerAlone == \A p, q \in Process, h \in Helper \ robbed :
  Holds(p, h) /\ Holds(q, h) => p = q

MarkerExcludes == \A p \in Process :
  step[p] \in Marked /\ about[p] \notin robbed => marker[about[p]] = p

ComparedStands == \A p \in Process :
  step[p] = "swap" /\ about[p] \notin robbed
    => /\ claim[about[p]] \in {NoClaim, seen[p]}
       /\ \A q \in Process : ~ Holds(q, about[p])

\* Past the fence the supervisor that was read is gone, and it stays gone.
FencedIsGone == \A p \in Process :
  /\ step[p] # "idle" => seen[p] # NoClaim
  /\ step[p] \notin {"idle", "adopt", "reap"} => Gone(seen[p].supervisor)

\* A helper that was never spawned has no claim, no supervisor and no pass about it.
NothingBeforeSpawn == \A h \in Helper :
  helper[h] = "none"
    => /\ claim[h] = NoClaim
       /\ \A p \in Process : h \notin own[p] /\ (about[p] = h => step[p] = "idle")

IInv ==
  /\ TypeOK
  /\ WinnerRecorded /\ WinnerAlone /\ MarkerExcludes /\ ComparedStands
  /\ FencedIsGone /\ NothingBeforeSpawn

-----------------------------------------------------------------------------
(* Types *)

LEMMA NoClaimIsClaim == NoClaim \in Claim
BY DEF NoClaim, Claim

LEMMA AdoptedIsClaim ==
  ASSUME TypeOK, NEW p \in Process PROVE Adopted(p) \in [Helper -> Claim]
BY DEF Adopted, Subject, TypeOK, Claim

LEMMA TypeStep == TypeOK /\ [Next]_vars => TypeOK'
<1> SUFFICES ASSUME TypeOK, [Next]_vars PROVE TypeOK'
  OBVIOUS
<1> USE NoClaimIsClaim DEF TypeOK, Steps
<1>1. ASSUME NEW p \in Process, NEW h \in Helper, Publish(p, h) PROVE TypeOK'
  BY <1>1 DEF Publish, Claim
<1>2. ASSUME NEW p \in Process, NEW h \in Helper, ReleaseClaim(p, h) PROVE TypeOK'
  BY <1>2 DEF ReleaseClaim
<1>3. ASSUME NEW p \in Process, NEW h \in Helper, NEW pass \in Passes, ReadClaim(p, h, pass)
      PROVE  TypeOK'
  BY <1>3, ClaimConstants DEF ReadClaim, At, GoTo
<1>4. ASSUME NEW h \in Helper, HelperExits(h) PROVE TypeOK'
  BY <1>4 DEF HelperExits
<1>5. ASSUME NEW p \in Process, Crash(p) PROVE TypeOK'
  BY <1>5 DEF Crash
<1>6. ASSUME NEW p \in Process, GiveUp(p) PROVE TypeOK'
  BY <1>6 DEF GiveUp, GoTo
<1>7. ASSUME NEW p \in Process, PassFence(p) PROVE TypeOK'
  BY <1>7 DEF PassFence, At, GoTo
<1>8. ASSUME NEW p \in Process, CreateMarker(p) PROVE TypeOK'
  BY <1>8 DEF CreateMarker, At, GoTo, Subject
<1>9. ASSUME NEW p \in Process, FindMarker(p) PROVE TypeOK'
  BY <1>9 DEF FindMarker, At, GoTo
<1>10. ASSUME NEW p \in Process, NoteMarker(p) PROVE TypeOK'
  BY <1>10 DEF NoteMarker, At, GoTo, Subject
<1>11. ASSUME NEW p \in Process, Compare(p) PROVE TypeOK'
  BY <1>11 DEF Compare, At, GoTo
<1>12. ASSUME NEW p \in Process, LoseTransfer(p) PROVE TypeOK'
  BY <1>12 DEF LoseTransfer, At, GoTo
<1>13. ASSUME NEW p \in Process, SwapSupervisor(p) PROVE TypeOK'
  BY <1>13, AdoptedIsClaim DEF SwapSupervisor, At, GoTo
<1>14. ASSUME NEW p \in Process, SwapFails(p) PROVE TypeOK'
  BY <1>14, AdoptedIsClaim DEF SwapFails, At, GoTo
<1>15. ASSUME NEW p \in Process, Unmark(p) PROVE TypeOK'
  BY <1>15 DEF Unmark, At, GoTo, Subject, Unlinked
<1>16. ASSUME NEW p \in Process, Reload(p) PROVE TypeOK'
  BY <1>16 DEF Reload, At, GoTo, Subject
<1>17. ASSUME NEW p \in Process, ResolveMarker(p) PROVE TypeOK'
  <2>1. [supervisor |-> marker[about[p]], count |-> 0] \in Claim
    BY DEF Claim
  <2> QED
    BY <1>17, <2>1 DEF ResolveMarker, At, GoTo, Subject
<1>18. ASSUME NEW p \in Process, ClearMarker(p) PROVE TypeOK'
  BY <1>18 DEF ClearMarker, At, GoTo, Subject, Unlinked
<1>19. ASSUME NEW p \in Process, Signal(p) PROVE TypeOK'
  BY <1>19 DEF Signal, At, GoTo, Subject
<1>20. ASSUME NEW p \in Process, UnlinkClaim(p) PROVE TypeOK'
  BY <1>20 DEF UnlinkClaim, At, GoTo, Subject
<1>21. CASE UNCHANGED vars
  BY <1>21 DEF vars
<1> QED
  BY <1>1, <1>2, <1>3, <1>4, <1>5, <1>6, <1>7, <1>8, <1>9, <1>10, <1>11, <1>12, <1>13, <1>14, <1>15, <1>16, <1>17, <1>18, <1>19, <1>20, <1>21 DEF Next, Adopt, Reap

\* The files and the passes keep their shape, and a dead server holds nothing in memory.
THEOREM TypeCorrect == Spec => []TypeOK
<1>1. Init => TypeOK
  BY NoClaimIsClaim DEF Init, TypeOK, Steps
<1> QED
  BY <1>1, TypeStep, PTL DEF Spec

-----------------------------------------------------------------------------
(* One supervisor: each conjunct of IInv, step by step *)

\* A transfer writes the winner into the claim, and under the marker nobody else holds the
\* helper.
LEMMA WinnerRecordedStep == IInv /\ [Next]_vars => WinnerRecorded'
<1> SUFFICES ASSUME IInv, [Next]_vars PROVE WinnerRecorded'
  OBVIOUS
<1>0. TypeOK'
  BY TypeStep DEF IInv
<1> USE ClaimConstants, <1>0 DEF IInv, TypeOK, Claim, Holds, WinnerRecorded, ComparedStands,
      NothingBeforeSpawn
<1>1. ASSUME NEW p \in Process, NEW h \in Helper, Publish(p, h) PROVE WinnerRecorded'
  BY <1>1 DEF Publish, NoClaim
<1>2. ASSUME NEW p \in Process, SwapSupervisor(p) PROVE WinnerRecorded'
  BY <1>2 DEF SwapSupervisor, At, GoTo, Subject, Adopted
<1>3. ASSUME NEW p \in Process, SwapFails(p) PROVE WinnerRecorded'
  BY <1>3 DEF SwapFails, At, GoTo, Subject, Adopted
<1>4. ASSUME NEW p \in Process, Reload(p) PROVE WinnerRecorded'
  BY <1>4 DEF Reload, At, GoTo, Subject, Claimed
<1>5. ASSUME NEW p \in Process, NEW h \in Helper, ReleaseClaim(p, h) PROVE WinnerRecorded'
  BY <1>5 DEF ReleaseClaim
<1>6. ASSUME NEW p \in Process, NEW h \in Helper, NEW pass \in Passes,
             ReadClaim(p, h, pass)
      PROVE  WinnerRecorded'
  BY <1>6 DEF ReadClaim, At, GoTo, Claimed
<1>7. ASSUME NEW h \in Helper, HelperExits(h) PROVE WinnerRecorded'
  BY <1>7 DEF HelperExits
<1>8. ASSUME NEW p \in Process,
             Crash(p) \/ GiveUp(p) \/ PassFence(p) \/ CreateMarker(p) \/ FindMarker(p) \/
             NoteMarker(p) \/ Compare(p) \/ LoseTransfer(p) \/ Unmark(p) \/ ResolveMarker(p) \/
             ClearMarker(p) \/ Signal(p) \/ UnlinkClaim(p)
      PROVE  WinnerRecorded'
  BY <1>8 DEF Crash, GiveUp, GoTo, PassFence, At, Fenced, CreateMarker, Subject, FindMarker,
     NoteMarker, Compare, Unmoved, LoseTransfer, Unmark, Unlinked, ResolveMarker, ClearMarker,
     Signal, UnlinkClaim
<1>9. CASE UNCHANGED vars
  BY <1>9 DEF vars
<1> QED
  BY <1>1, <1>2, <1>3, <1>4, <1>5, <1>6, <1>7, <1>8, <1>9 DEF Next, Adopt, Reap

\* A server becomes a holder by spawning a new helper or by a transfer that ComparedStands says
\* is alone.
LEMMA WinnerAloneStep == IInv /\ [Next]_vars => WinnerAlone'
<1> SUFFICES ASSUME IInv, [Next]_vars PROVE WinnerAlone'
  OBVIOUS
<1>0. TypeOK'
  BY TypeStep DEF IInv
<1> USE ClaimConstants, <1>0 DEF IInv, TypeOK, Claim, Holds, WinnerAlone, ComparedStands,
      NothingBeforeSpawn
<1>1. ASSUME NEW p \in Process, NEW h \in Helper, Publish(p, h) PROVE WinnerAlone'
  BY <1>1 DEF Publish, NoClaim
<1>2. ASSUME NEW p \in Process, SwapSupervisor(p) PROVE WinnerAlone'
  BY <1>2 DEF SwapSupervisor, At, GoTo, Subject, Adopted
<1>3. ASSUME NEW p \in Process, SwapFails(p) PROVE WinnerAlone'
  BY <1>3 DEF SwapFails, At, GoTo, Subject, Adopted
<1>4. ASSUME NEW p \in Process, Unmark(p) PROVE WinnerAlone'
  BY <1>4 DEF Unmark, At, GoTo, Subject, Unlinked
<1>5. ASSUME NEW p \in Process, Reload(p) PROVE WinnerAlone'
  BY <1>5 DEF Reload, At, GoTo, Subject, Claimed
<1>6. ASSUME NEW p \in Process, Crash(p) PROVE WinnerAlone'
  BY <1>6 DEF Crash
<1>7. ASSUME NEW p \in Process, NoteMarker(p) PROVE WinnerAlone'
  BY <1>7 DEF NoteMarker, At, GoTo, Subject
<1>8. ASSUME NEW p \in Process, NEW h \in Helper, ReleaseClaim(p, h) PROVE WinnerAlone'
  BY <1>8 DEF ReleaseClaim
<1>9. ASSUME NEW p \in Process, NEW h \in Helper, NEW pass \in Passes,
             ReadClaim(p, h, pass)
      PROVE  WinnerAlone'
  BY <1>9 DEF ReadClaim, At, GoTo, Claimed
<1>10. ASSUME NEW h \in Helper, HelperExits(h) PROVE WinnerAlone'
  BY <1>10 DEF HelperExits
<1>11. ASSUME NEW p \in Process,
             GiveUp(p) \/ PassFence(p) \/ CreateMarker(p) \/ FindMarker(p) \/ Compare(p) \/
             LoseTransfer(p) \/ ResolveMarker(p) \/ ClearMarker(p) \/ Signal(p) \/
             UnlinkClaim(p)
      PROVE  WinnerAlone'
  BY <1>11 DEF GiveUp, GoTo, PassFence, At, Fenced, CreateMarker, Subject, FindMarker, Compare,
     Unmoved, LoseTransfer, ResolveMarker, ClearMarker, Unlinked, Signal, UnlinkClaim
<1>12. CASE UNCHANGED vars
  BY <1>12 DEF vars
<1> QED
  BY <1>1, <1>2, <1>3, <1>4, <1>5, <1>6, <1>7, <1>8, <1>9, <1>10, <1>11, <1>12 DEF Next, Adopt, Reap

\* A server clears the marker it has read only if the holder is gone; another's it robs.
LEMMA MarkerExcludesStep == IInv /\ [Next]_vars => MarkerExcludes'
<1> SUFFICES ASSUME IInv, [Next]_vars PROVE MarkerExcludes'
  OBVIOUS
<1>0. TypeOK'
  BY TypeStep DEF IInv
<1> USE ClaimConstants, <1>0 DEF IInv, TypeOK, Claim, Marked, Gone, MarkerExcludes, FencedIsGone
<1>1. ASSUME NEW p \in Process, CreateMarker(p) PROVE MarkerExcludes'
  BY <1>1 DEF CreateMarker, At, GoTo, Subject
<1>2. ASSUME NEW p \in Process, Unmark(p) PROVE MarkerExcludes'
  BY <1>2 DEF Unmark, At, GoTo, Subject, Unlinked
<1>3. ASSUME NEW p \in Process, ClearMarker(p) PROVE MarkerExcludes'
  BY <1>3 DEF ClearMarker, At, GoTo, Subject, Unlinked
<1>4. ASSUME NEW p \in Process, NEW h \in Helper, Publish(p, h) PROVE MarkerExcludes'
  BY <1>4 DEF Publish, NoClaim
<1>5. ASSUME NEW p \in Process, NEW h \in Helper, ReleaseClaim(p, h) PROVE MarkerExcludes'
  BY <1>5 DEF ReleaseClaim
<1>6. ASSUME NEW p \in Process, NEW h \in Helper, NEW pass \in Passes,
             ReadClaim(p, h, pass)
      PROVE  MarkerExcludes'
  BY <1>6 DEF ReadClaim, At, GoTo, Claimed
<1>7. ASSUME NEW h \in Helper, HelperExits(h) PROVE MarkerExcludes'
  BY <1>7 DEF HelperExits
<1>8. ASSUME NEW p \in Process,
             Crash(p) \/ GiveUp(p) \/ PassFence(p) \/ FindMarker(p) \/ NoteMarker(p) \/
             Compare(p) \/ LoseTransfer(p) \/ SwapSupervisor(p) \/ SwapFails(p) \/ Reload(p) \/
             ResolveMarker(p) \/ Signal(p) \/ UnlinkClaim(p)
      PROVE  MarkerExcludes'
  BY <1>8 DEF Crash, GiveUp, GoTo, PassFence, At, Fenced, FindMarker, NoteMarker, Subject,
     Compare, Unmoved, LoseTransfer, SwapSupervisor, Adopted, SwapFails, Reload, Claimed,
     ResolveMarker, Signal, UnlinkClaim
<1>9. CASE UNCHANGED vars
  BY <1>9 DEF vars
<1> QED
  BY <1>1, <1>2, <1>3, <1>4, <1>5, <1>6, <1>7, <1>8, <1>9 DEF Next, Adopt, Reap

\* Between the comparison and the replacement only a reaper touches the claim: who holds the
\* helper would be in the compared claim, and is gone.
LEMMA ComparedStandsStep == IInv /\ [Next]_vars => ComparedStands'
<1> SUFFICES ASSUME IInv, [Next]_vars PROVE ComparedStands'
  OBVIOUS
<1>0. TypeOK'
  BY TypeStep DEF IInv
<1> USE ClaimConstants, <1>0 DEF IInv, TypeOK, Claim, Holds, Marked, ComparedStands,
      MarkerExcludes, WinnerRecorded, FencedIsGone, NothingBeforeSpawn
<1>1. ASSUME NEW p \in Process, NEW h \in Helper, Publish(p, h) PROVE ComparedStands'
  BY <1>1 DEF Publish, NoClaim
<1>2. ASSUME NEW p \in Process, Compare(p) PROVE ComparedStands'
  <2>1. claim[about[p]] = seen[p] /\ seen[p] # NoClaim /\ seen[p].supervisor \notin up
    BY <1>2 DEF Compare, At, Unmoved, Subject, Gone
  <2>2. about[p] \notin robbed => \A q \in Process : ~ Holds(q, about[p])
    BY <2>1
  <2> QED
    BY <1>2, <2>1, <2>2 DEF Compare, At, GoTo
<1>3. ASSUME NEW p \in Process, SwapSupervisor(p) PROVE ComparedStands'
  BY <1>3 DEF SwapSupervisor, At, GoTo, Subject, Adopted
<1>4. ASSUME NEW p \in Process, SwapFails(p) PROVE ComparedStands'
  BY <1>4 DEF SwapFails, At, GoTo, Subject, Adopted
<1>5. ASSUME NEW p \in Process, Reload(p) PROVE ComparedStands'
  BY <1>5 DEF Reload, At, GoTo, Subject, Claimed
<1>6. ASSUME NEW p \in Process, NEW h \in Helper, ReleaseClaim(p, h) PROVE ComparedStands'
  BY <1>6 DEF ReleaseClaim
<1>7. ASSUME NEW p \in Process, NEW h \in Helper, NEW pass \in Passes,
             ReadClaim(p, h, pass)
      PROVE  ComparedStands'
  BY <1>7 DEF ReadClaim, At, GoTo, Claimed
<1>8. ASSUME NEW h \in Helper, HelperExits(h) PROVE ComparedStands'
  BY <1>8 DEF HelperExits
<1>9. ASSUME NEW p \in Process,
             Crash(p) \/ GiveUp(p) \/ PassFence(p) \/ CreateMarker(p) \/ FindMarker(p) \/
             NoteMarker(p) \/ LoseTransfer(p) \/ Unmark(p) \/ ResolveMarker(p) \/ ClearMarker(p)
             \/ Signal(p) \/ UnlinkClaim(p)
      PROVE  ComparedStands'
  BY <1>9 DEF Crash, GiveUp, GoTo, PassFence, At, Fenced, CreateMarker, Subject, FindMarker,
     NoteMarker, LoseTransfer, Unmark, Unlinked, ResolveMarker, ClearMarker, Signal, UnlinkClaim
<1>10. CASE UNCHANGED vars
  BY <1>10 DEF vars
<1> QED
  BY <1>1, <1>2, <1>3, <1>4, <1>5, <1>6, <1>7, <1>8, <1>9, <1>10 DEF Next, Adopt, Reap

\* A dead server never returns.
LEMMA FencedIsGoneStep == IInv /\ [Next]_vars => FencedIsGone'
<1> SUFFICES ASSUME IInv, [Next]_vars PROVE FencedIsGone'
  OBVIOUS
<1>0. TypeOK'
  BY TypeStep DEF IInv
<1> USE ClaimConstants, <1>0 DEF IInv, TypeOK, Claim, Gone, FencedIsGone
<1>1. ASSUME NEW p \in Process, NEW h \in Helper, NEW pass \in Passes,
             ReadClaim(p, h, pass)
      PROVE  FencedIsGone'
  BY <1>1 DEF ReadClaim, At, GoTo, Claimed
<1>2. ASSUME NEW p \in Process, PassFence(p) PROVE FencedIsGone'
  BY <1>2 DEF PassFence, At, GoTo, Fenced
<1>3. ASSUME NEW p \in Process, ResolveMarker(p) PROVE FencedIsGone'
  <2>1. ASSUME Clearable(Subject(p)), seen' = [seen EXCEPT ![p] =
                 [supervisor |-> marker[Subject(p)], count |-> 0]]
        PROVE  FencedIsGone'
    <3>1. seen'[p].supervisor \in Process \ up
      BY <2>1 DEF Clearable, Subject
    <3>2. seen'[p] # NoClaim
      BY <3>1 DEF NoClaim
    <3> QED
      BY <1>3, <2>1, <3>1, <3>2 DEF ResolveMarker, At, GoTo
  <2>2. CASE UNCHANGED seen
    BY <1>3, <2>2 DEF ResolveMarker, At, GoTo
  <2> QED
    BY <1>3, <2>1, <2>2 DEF ResolveMarker
<1>4. ASSUME NEW p \in Process, Crash(p) PROVE FencedIsGone'
  BY <1>4 DEF Crash
<1>5. ASSUME NEW p \in Process, NEW h \in Helper, Publish(p, h) PROVE FencedIsGone'
  BY <1>5 DEF Publish, NoClaim
<1>6. ASSUME NEW p \in Process, NEW h \in Helper, ReleaseClaim(p, h) PROVE FencedIsGone'
  BY <1>6 DEF ReleaseClaim
<1>7. ASSUME NEW h \in Helper, HelperExits(h) PROVE FencedIsGone'
  BY <1>7 DEF HelperExits
<1>8. ASSUME NEW p \in Process,
             GiveUp(p) \/ CreateMarker(p) \/ FindMarker(p) \/ NoteMarker(p) \/ Compare(p) \/
             LoseTransfer(p) \/ SwapSupervisor(p) \/ SwapFails(p) \/ Unmark(p) \/ Reload(p) \/
             ClearMarker(p) \/ Signal(p) \/ UnlinkClaim(p)
      PROVE  FencedIsGone'
  BY <1>8 DEF GiveUp, GoTo, CreateMarker, At, Subject, FindMarker, NoteMarker, Compare, Unmoved,
     LoseTransfer, SwapSupervisor, Adopted, SwapFails, Unmark, Unlinked, Reload, Claimed,
     ClearMarker, Signal, UnlinkClaim
<1>9. CASE UNCHANGED vars
  BY <1>9 DEF vars
<1> QED
  BY <1>1, <1>2, <1>3, <1>4, <1>5, <1>6, <1>7, <1>8, <1>9 DEF Next, Adopt, Reap

\* A pass begins at a claim, a claim at a spawn.
LEMMA NothingBeforeSpawnStep == IInv /\ [Next]_vars => NothingBeforeSpawn'
<1> SUFFICES ASSUME IInv, [Next]_vars PROVE NothingBeforeSpawn'
  OBVIOUS
<1>0. TypeOK'
  BY TypeStep DEF IInv
<1> USE ClaimConstants, <1>0 DEF IInv, TypeOK, Claim, NoClaim, NothingBeforeSpawn, FencedIsGone
<1>1. ASSUME NEW p \in Process, NEW h \in Helper, Publish(p, h) PROVE NothingBeforeSpawn'
  BY <1>1 DEF Publish, NoClaim
<1>2. ASSUME NEW p \in Process, NEW h \in Helper, NEW pass \in Passes,
             ReadClaim(p, h, pass)
      PROVE  NothingBeforeSpawn'
  BY <1>2 DEF ReadClaim, At, GoTo, Claimed
<1>3. ASSUME NEW p \in Process, SwapSupervisor(p) PROVE NothingBeforeSpawn'
  BY <1>3 DEF SwapSupervisor, At, GoTo, Subject, Adopted
<1>4. ASSUME NEW p \in Process, SwapFails(p) PROVE NothingBeforeSpawn'
  BY <1>4 DEF SwapFails, At, GoTo, Subject, Adopted
<1>5. ASSUME NEW p \in Process, Reload(p) PROVE NothingBeforeSpawn'
  BY <1>5 DEF Reload, At, GoTo, Subject, Claimed
<1>6. ASSUME NEW p \in Process, NEW h \in Helper, ReleaseClaim(p, h) PROVE NothingBeforeSpawn'
  BY <1>6 DEF ReleaseClaim
<1>7. ASSUME NEW h \in Helper, HelperExits(h) PROVE NothingBeforeSpawn'
  BY <1>7 DEF HelperExits
<1>8. ASSUME NEW p \in Process,
             Crash(p) \/ GiveUp(p) \/ PassFence(p) \/ CreateMarker(p) \/ FindMarker(p) \/
             NoteMarker(p) \/ Compare(p) \/ LoseTransfer(p) \/ Unmark(p) \/ ResolveMarker(p) \/
             ClearMarker(p) \/ Signal(p) \/ UnlinkClaim(p)
      PROVE  NothingBeforeSpawn'
  BY <1>8 DEF Crash, GiveUp, GoTo, PassFence, At, Fenced, CreateMarker, Subject, FindMarker,
     NoteMarker, Compare, Unmoved, LoseTransfer, Unmark, Unlinked, ResolveMarker, ClearMarker,
     Signal, UnlinkClaim
<1>9. CASE UNCHANGED vars
  BY <1>9 DEF vars
<1> QED
  BY <1>1, <1>2, <1>3, <1>4, <1>5, <1>6, <1>7, <1>8, <1>9 DEF Next, Adopt, Reap

-----------------------------------------------------------------------------
(* The properties *)

LEMMA Inductive == Spec => []IInv
<1>1. Init => IInv
  BY NoClaimIsClaim DEF Init, IInv, TypeOK, Steps, WinnerRecorded, WinnerAlone, MarkerExcludes,
     ComparedStands, FencedIsGone, NothingBeforeSpawn, Holds, Marked
<1>2. IInv /\ [Next]_vars => IInv'
  BY TypeStep, WinnerRecordedStep, WinnerAloneStep, MarkerExcludesStep, ComparedStandsStep,
     FencedIsGoneStep, NothingBeforeSpawnStep DEF IInv
<1> QED
  BY <1>1, <1>2, PTL DEF Spec

\* However many servers adopt, reap and die beside each other, no two of them believe that they
\* supervise one helper, unless a live adopter's marker was unlinked under it.
THEOREM OneSupervisorAlways == Spec => []OneSupervisor
<1>1. IInv => OneSupervisor
  BY DEF IInv, TypeOK, WinnerAlone, Holds, OneSupervisor
<1> QED
  BY <1>1, Inductive, PTL

\* The claim file answers who keeps a helper alive: it never names another server than the one
\* that believes it does.
THEOREM SupervisorIsRecordedAlways == Spec => []SupervisorIsRecorded
<1>1. IInv => SupervisorIsRecorded
  BY DEF IInv, WinnerRecorded, Holds, SupervisorIsRecorded
<1> QED
  BY <1>1, Inductive, PTL

\* The compare-and-swap never overwrites a supervisor that lives, although nothing but the marker
\* stands between its comparison and its replacement.
THEOREM DisplacesOnlyTheDeadAlways == Spec => DisplacesOnlyTheDead
<1> DEFINE Displaced == \A h \in Helper \ robbed :
             claim[h] # NoClaim /\ claim'[h] # NoClaim /\ claim'[h] # claim[h]
               => Gone(claim[h].supervisor)
<1>1. ASSUME IInv, [Next]_vars PROVE Displaced
  <2> USE <1>1 DEF IInv, TypeOK
  <2>1. ASSUME NEW p \in Process, NEW h \in Helper, Publish(p, h) PROVE Displaced
    BY <2>1 DEF Publish, NothingBeforeSpawn
  <2>2. ASSUME NEW p \in Process, SwapSupervisor(p) \/ SwapFails(p) PROVE Displaced
    BY <2>2 DEF SwapSupervisor, SwapFails, At, Subject, Adopted, ComparedStands, FencedIsGone
  <2>3. ASSUME NEW p \in Process, NEW h \in Helper, ReleaseClaim(p, h) PROVE Displaced
    BY <2>3 DEF ReleaseClaim
  <2>4. ASSUME NEW p \in Process, UnlinkClaim(p) PROVE Displaced
    BY <2>4 DEF UnlinkClaim, Subject
  <2>5. CASE UNCHANGED claim
    BY <2>5
  <2> QED
    BY <2>1, <2>2, <2>3, <2>4, <2>5 DEF Next, Adopt, Reap, vars, ReadClaim, HelperExits, Crash,
       GiveUp, PassFence, CreateMarker, FindMarker, NoteMarker, Compare, LoseTransfer, Unmark,
       Reload, ResolveMarker, ClearMarker, Signal
<1>2. IInv /\ [Next]_vars => [Displaced]_vars
  BY <1>1
<1> QED
  BY <1>2, Inductive, PTL DEF Spec, DisplacesOnlyTheDead

==============================================================================
