------------------------- MODULE WindowSwitchProofs -------------------------
(***************************************************************************)
(* What WindowSwitch guarantees for any windows, any number of switches    *)
(* and attempts.                                                           *)
(*                                                                         *)
(* The page's part of a step is a function of its record, so the proof is  *)
(* about records first: each function keeps a record Coherent in the       *)
(* sequence it belongs to.  That alone does not say that what is under way *)
(* for the newest switch agrees with the override and the guard; of what   *)
(* names a target OneTarget does.  IInv is the two of them and that a      *)
(* blank highlight is awaited.                                             *)
(***************************************************************************)
EXTENDS WindowSwitch, TLAPS

Indices == Index \cup {NoIndex}
GuardType == {NoGuard} \cup [index : Index, sequence : Switches]
LoadingType == {NoLoading} \cup [phase : {"requested", "confirmed"}, sequence : Switches,
                                 expected : Indices, timer : BOOLEAN]
MaskType == {NoMask} \cup [state : Masking, sequence : Switches]
              \cup [state : {"reconnecting"}, sequence : {Generic}]
HoldType == [sequence : 0 .. MaxSequence, index : Index]
PostType == [sequence : Switches, index : Index, previous : Index]
ReadbackType == [sequence : Switches, expected : Indices, previous : Indices,
                 attempt : 0 .. ReadbackMaxAttempts - 1]
ShownType == [metadata : Index, override : Indices \cup {PendingIndex}, guard : GuardType,
              loading : LoadingType, mask : MaskType, holds : SUBSET HoldType, replaced : BOOLEAN]

\* The guard is of the newest switch and agrees with the override.
GuardCoherent(p, s) ==
  /\ p.guard # NoGuard => p.guard.sequence = s
  /\ p.override \in Index => p.guard.index \in {p.override, NoIndex}
  /\ p.override = PendingIndex => p.guard = NoGuard

\* What is loaded is of the newest switch and masked; a mask is of what is loaded.
MaskCoherent(p, s) ==
  /\ p.loading # NoLoading => p.loading.sequence = s /\ (p.replaced \/ MaskIsOf(p, s))
  /\ p.mask.state \in Masking =>
       /\ p.mask.sequence = s /\ p.loading # NoLoading
       /\ p.mask.state = "switching" => p.loading.timer

DisplayCoherent(p) == DisplayActiveIndex(p) \in Index => p.metadata = DisplayActiveIndex(p)

Coherent(p, s) ==
  p \in ShownType /\ GuardCoherent(p, s) /\ MaskCoherent(p, s) /\ DisplayCoherent(p)

\* The highlight is on e wherever it is on a window.
Stands(p, e) == p.override \in {e, NoIndex} /\ p.guard.index \in {e, NoIndex}

\* What is under way for the newest switch is under way to e, and the highlight is on e;
\* a relative switch has no target and leaves it open.
TargetIs(e) ==
  /\ \A r \in posts : Of(r, sequence) => r.index = e
  /\ \A r \in readbacks : Of(r, sequence) => r.expected = e
  /\ loading # NoLoading => loading.expected = e
  /\ e # NoIndex => Stands(Shown, e)
OneTarget == \E e \in Indices : TargetIs(e)

UnderWayTyped ==
  /\ sequence \in 0 .. MaxSequence
  /\ posts \subseteq PostType /\ readbacks \subseteq ReadbackType
  /\ \A r \in posts \cup readbacks : r.sequence <= sequence
  /\ paints \subseteq Switches
  /\ link \in {"open", "reconnecting"}
  /\ setbacks \in 0 .. MaxSetbacks

IInv == UnderWayTyped /\ Coherent(Shown, sequence) /\ OneTarget /\ PendingIsAwaited

-----------------------------------------------------------------------------
(* Records: what the functions of the page's record do to its fields.      *)

\* The fields that only the highlight, or only the mask, is about.
SameHighlight(p, q) ==
  p.metadata = q.metadata /\ p.override = q.override /\ p.guard = q.guard
SameMask(p, q) == p.loading = q.loading /\ p.mask = q.mask /\ p.replaced = q.replaced

LEMMA Strings == "none" \notin Index /\ "pending" \notin Index
BY SwitchConstants

LEMMA SetShownIs ==
  ASSUME NEW p \in ShownType, SetShown(p) PROVE Shown' = p
<1> DEFINE q == Shown'
<1>1. q = [metadata |-> p.metadata, override |-> p.override, guard |-> p.guard,
           loading |-> p.loading, mask |-> p.mask, holds |-> p.holds, replaced |-> p.replaced]
  BY DEF SetShown, Shown
<1>2. p = [metadata |-> p.metadata, override |-> p.override, guard |-> p.guard,
           loading |-> p.loading, mask |-> p.mask, holds |-> p.holds, replaced |-> p.replaced]
  BY DEF ShownType
<1> QED BY <1>1, <1>2

LEMMA ShownStays ==
  ASSUME UNCHANGED shownVars PROVE Shown' = Shown
BY DEF shownVars, Shown

LEMMA ShowMaskFields ==
  ASSUME NEW p \in ShownType, NEW state \in Masking, NEW s \in Switches
  PROVE  LET q == ShowMask(p, state, s)
         IN  /\ q \in ShownType /\ SameHighlight(q, p)
             /\ q.loading = p.loading /\ q.holds = p.holds
             /\ q.mask = [state |-> state, sequence |-> s] /\ q.replaced = FALSE
<1>1. [state |-> state, sequence |-> s] \in MaskType BY DEF MaskType
<1> QED BY <1>1 DEF ShowMask, ShownType, SameHighlight

LEMMA ClearMaskFields ==
  ASSUME NEW p \in ShownType, NEW s
  PROVE  LET q == ClearMask(p, s)
         IN  /\ q \in ShownType /\ SameHighlight(q, p)
             /\ q.loading = p.loading /\ q.holds = p.holds /\ q.replaced = p.replaced
             /\ q.mask = IF MaskIsOf(p, s) THEN NoMask ELSE p.mask
<1>1. NoMask \in MaskType BY DEF MaskType
<1> QED BY <1>1 DEF ClearMask, ShownType, SameHighlight

LEMMA ClearConnectionStateFields ==
  ASSUME NEW p \in ShownType
  PROVE  LET q == ClearConnectionState(p)
         IN  /\ q \in ShownType /\ SameHighlight(q, p)
             /\ q.loading = p.loading /\ q.holds = p.holds /\ q.replaced = p.replaced
             /\ q.mask = IF p.mask.state \in Masking THEN p.mask ELSE NoMask
<1>1. NoMask \in MaskType BY DEF MaskType
<1> QED BY <1>1 DEF ClearConnectionState, ShownType, SameHighlight

LEMMA BeginLoadingFields ==
  ASSUME NEW p \in ShownType, NEW s \in Switches, NEW e \in Indices
  PROVE  LET q == BeginLoading(p, s, e)
         IN  /\ q \in ShownType /\ SameHighlight(q, p) /\ q.holds = p.holds
             /\ q.loading = [phase |-> "requested", sequence |-> s, expected |-> e, timer |-> TRUE]
             /\ q.mask = [state |-> "switching", sequence |-> s] /\ q.replaced = FALSE
<1> DEFINE new == [phase |-> "requested", sequence |-> s, expected |-> e, timer |-> TRUE]
           r == [p EXCEPT !.loading = new]
<1>1. new \in LoadingType BY DEF LoadingType
<1>2. r \in ShownType /\ SameHighlight(r, p) /\ r.holds = p.holds /\ r.loading = new
  BY <1>1 DEF ShownType, SameHighlight
<1>3. "switching" \in Masking BY DEF Masking
<1> HIDE DEF new, r
<1>4. LET q == ShowMask(r, "switching", s)
      IN  /\ q \in ShownType /\ SameHighlight(q, r)
          /\ q.loading = r.loading /\ q.holds = r.holds
          /\ q.mask = [state |-> "switching", sequence |-> s] /\ q.replaced = FALSE
  BY <1>2, <1>3, ShowMaskFields
<1>5. BeginLoading(p, s, e) = ShowMask(r, "switching", s) BY DEF BeginLoading, new, r
<1> QED BY <1>2, <1>4, <1>5 DEF SameHighlight, new

LEMMA StallFields ==
  ASSUME NEW p \in ShownType, LoadingIsOf(p, sequence), sequence \in Switches
  PROVE  LET q == Stall(p, sequence)
         IN  /\ q \in ShownType /\ SameHighlight(q, p) /\ q.holds = p.holds
             /\ q.loading = [p.loading EXCEPT !.timer = FALSE]
             /\ q.mask = [state |-> "switch-stalled", sequence |-> sequence]
             /\ q.replaced = FALSE
<1> DEFINE new == [p.loading EXCEPT !.timer = FALSE]
           r == [p EXCEPT !.loading.timer = FALSE]
<1>1. new \in LoadingType BY DEF LoadingType, LoadingIsOf, ShownType
<1>2. r \in ShownType /\ SameHighlight(r, p) /\ r.holds = p.holds /\ r.loading = new
  BY <1>1 DEF ShownType, SameHighlight
<1>3. "switch-stalled" \in Masking BY DEF Masking
<1> HIDE DEF new, r
<1>4. LET q == ShowMask(r, "switch-stalled", sequence)
      IN  /\ q \in ShownType /\ SameHighlight(q, r)
          /\ q.loading = r.loading /\ q.holds = r.holds
          /\ q.mask = [state |-> "switch-stalled", sequence |-> sequence] /\ q.replaced = FALSE
  BY <1>2, <1>3, ShowMaskFields
<1>5. Stall(p, sequence) = ShowMask(r, "switch-stalled", sequence) BY DEF Stall, r
<1> QED BY <1>2, <1>4, <1>5 DEF SameHighlight, new

\* A switch is confirmed.
Confirmed(p) == [p EXCEPT !.loading.phase = "confirmed"]
LEMMA ConfirmedFields ==
  ASSUME NEW p \in ShownType, p.loading # NoLoading
  PROVE  LET q == Confirmed(p)
         IN  /\ q \in ShownType /\ SameHighlight(q, p) /\ q.holds = p.holds
             /\ q.loading = [p.loading EXCEPT !.phase = "confirmed"]
             /\ q.mask = p.mask /\ q.replaced = p.replaced
<1>1. [p.loading EXCEPT !.phase = "confirmed"] \in LoadingType BY DEF LoadingType, ShownType
<1> QED BY <1>1 DEF ShownType, SameHighlight, Confirmed

LEMMA ConfirmOverrideFields ==
  ASSUME NEW p \in ShownType, NEW i \in Index, NEW s \in 0 .. MaxSequence
  PROVE  LET q == ConfirmOverride(p, i, s)
         IN  /\ q \in ShownType /\ SameMask(q, p)
             /\ q.override = i /\ q.guard = p.guard /\ q.metadata = p.metadata
<1>1. [sequence |-> s, index |-> i] \in HoldType BY DEF HoldType
<1>2. p.holds \cup {[sequence |-> s, index |-> i]} \in SUBSET HoldType BY <1>1 DEF ShownType
<1>3. i \in Indices \cup {PendingIndex} BY DEF Indices
<1> QED BY <1>2, <1>3 DEF ShownType, SameMask, ConfirmOverride

LEMMA MetadataFields ==
  ASSUME NEW p \in ShownType, NEW i \in Index
  PROVE  LET q == [p EXCEPT !.metadata = i]
         IN  /\ q \in ShownType /\ SameMask(q, p)
             /\ q.metadata = i /\ q.override = p.override /\ q.guard = p.guard
BY DEF ShownType, SameMask

LEMMA ClearOverrideFields ==
  ASSUME NEW p \in ShownType, NEW s
  PROVE  LET q == ClearOverride(p, s)
         IN  /\ q \in ShownType /\ SameMask(q, p) /\ q.metadata = p.metadata
             /\ q.override = NoIndex
             /\ q.guard = IF p.guard # NoGuard /\ Of(p.guard, s) THEN NoGuard ELSE p.guard
<1>1. NoGuard \in GuardType BY DEF GuardType
<1>2. NoIndex \in Indices \cup {PendingIndex} BY DEF Indices
<1> QED BY <1>1, <1>2 DEF ClearOverride, ShownType, SameMask

\* A page record without what is loaded.
Unloaded(p) == [p EXCEPT !.loading = NoLoading]
LEMMA UnloadedFields ==
  ASSUME NEW p \in ShownType
  PROVE  LET q == Unloaded(p)
         IN  /\ q \in ShownType /\ SameHighlight(q, p) /\ q.holds = p.holds
             /\ q.loading = NoLoading /\ q.mask = p.mask /\ q.replaced = p.replaced
<1>1. NoLoading \in LoadingType BY DEF LoadingType
<1> QED BY <1>1 DEF ShownType, SameHighlight, Unloaded

LEMMA LastingTyped ==
  ASSUME Shown \in ShownType PROVE Lasting \in SUBSET HoldType
BY DEF Lasting, Shown, ShownType

-----------------------------------------------------------------------------
(* Records that stay coherent.                                             *)

\* What q loads p loads, for the same target.
SameTarget(q, p) ==
  q.loading # NoLoading => p.loading # NoLoading /\ q.loading.expected = p.loading.expected

LEMMA LoadsCoherently ==
  ASSUME NEW p, NEW s, Coherent(p, s), p.loading # NoLoading
  PROVE  /\ p \in ShownType /\ LoadingIsOf(p, s) /\ s \in Switches
         /\ p.loading \in [phase : {"requested", "confirmed"}, sequence : Switches,
                           expected : Indices, timer : BOOLEAN]
BY DEF Coherent, MaskCoherent, LoadingIsOf, Of, ShownType, LoadingType

LEMMA HighlightKeeps ==
  ASSUME NEW p, NEW q, NEW s, GuardCoherent(p, s), DisplayCoherent(p), SameHighlight(q, p)
  PROVE  GuardCoherent(q, s) /\ DisplayCoherent(q)
BY DEF GuardCoherent, DisplayCoherent, DisplayActiveIndex, SameHighlight

LEMMA MaskKeeps ==
  ASSUME NEW p, NEW q, NEW s, MaskCoherent(p, s), SameMask(q, p)
  PROVE  MaskCoherent(q, s) /\ SameTarget(q, p)
BY DEF MaskCoherent, SameMask, MaskIsOf, SameTarget

\* Loading begins under a mask.
LEMMA BeginLoadingKeeps ==
  ASSUME NEW p \in ShownType, NEW s \in Switches, NEW e \in Indices,
         GuardCoherent(p, s), DisplayCoherent(p)
  PROVE  LET q == BeginLoading(p, s, e)
         IN  /\ Coherent(q, s) /\ SameHighlight(q, p)
             /\ q.loading # NoLoading /\ q.loading.expected = e
<1> DEFINE q == BeginLoading(p, s, e)
<1>1. /\ q \in ShownType /\ SameHighlight(q, p)
      /\ q.loading = [phase |-> "requested", sequence |-> s, expected |-> e, timer |-> TRUE]
      /\ q.mask = [state |-> "switching", sequence |-> s] /\ q.replaced = FALSE
  BY BeginLoadingFields
<1> HIDE DEF q
<1>2. /\ q.mask.state = "switching" /\ q.mask.sequence = s
      /\ q.loading.sequence = s /\ q.loading.timer = TRUE
  BY <1>1
<1>3. q.loading # NoLoading /\ q.loading.expected = e BY <1>1 DEF NoLoading
<1>4. MaskCoherent(q, s) BY <1>2, <1>3 DEF MaskCoherent, MaskIsOf, Of, Masking
<1>5. Coherent(q, s) BY <1>1, <1>4, HighlightKeeps DEF Coherent
<1> QED BY <1>1, <1>3, <1>5 DEF q

LEMMA ConfirmedKeeps ==
  ASSUME NEW p, NEW s, Coherent(p, s), p.loading # NoLoading
  PROVE  LET q == Confirmed(p)
         IN  Coherent(q, s) /\ SameHighlight(q, p) /\ SameTarget(q, p)
<1> DEFINE q == Confirmed(p)
<1>1. p \in ShownType /\ p.loading.sequence = s BY LoadsCoherently DEF LoadingIsOf, Of
<1>2. /\ q \in ShownType /\ SameHighlight(q, p)
      /\ q.loading = [p.loading EXCEPT !.phase = "confirmed"]
      /\ q.mask = p.mask /\ q.replaced = p.replaced
  BY <1>1, ConfirmedFields
<1>3. /\ q.loading.sequence = s /\ q.loading.expected = p.loading.expected
      /\ q.loading.timer = p.loading.timer /\ q.loading # NoLoading
  BY <1>2, LoadsCoherently DEF NoLoading, LoadingIsOf, Of
<1> HIDE DEF q
<1>4. MaskCoherent(q, s) BY <1>2, <1>3 DEF Coherent, MaskCoherent, MaskIsOf, Of
<1>5. Coherent(q, s) BY <1>2, <1>4, HighlightKeeps DEF Coherent
<1> QED BY <1>2, <1>3, <1>5 DEF SameTarget, q

LEMMA StallKeeps ==
  ASSUME NEW p, Coherent(p, sequence)
  PROVE  LET q == Stall(p, sequence)
         IN  Coherent(q, sequence) /\ SameHighlight(q, p) /\ SameTarget(q, p)
<1> DEFINE q == Stall(p, sequence)
<1>1. CASE p.loading = NoLoading
  BY <1>1 DEF Stall, LoadingIsOf, SameHighlight, SameTarget
<1>2. CASE p.loading # NoLoading
  <2>1. p \in ShownType /\ LoadingIsOf(p, sequence) /\ sequence \in Switches
    BY <1>2, LoadsCoherently
  <2>2. /\ q \in ShownType /\ SameHighlight(q, p)
        /\ q.loading = [p.loading EXCEPT !.timer = FALSE]
        /\ q.mask = [state |-> "switch-stalled", sequence |-> sequence] /\ q.replaced = FALSE
    BY <2>1, StallFields
  <2>3. /\ q.loading.sequence = sequence /\ q.loading.expected = p.loading.expected
        /\ q.loading # NoLoading
    BY <1>2, <2>2, LoadsCoherently DEF NoLoading, LoadingIsOf, Of
  <2> HIDE DEF q
  <2>4. MaskCoherent(q, sequence) BY <2>2, <2>3 DEF MaskCoherent, MaskIsOf, Of, Masking
  <2>5. Coherent(q, sequence) BY <2>2, <2>4, HighlightKeeps DEF Coherent
  <2> QED BY <1>2, <2>2, <2>3, <2>5 DEF SameTarget, q
<1> QED BY <1>1, <1>2

LEMMA ClearMaskKeeps ==
  ASSUME NEW p, NEW s, Coherent(p, s), p.loading = NoLoading
  PROVE  LET q == ClearMask(p, s)
         IN  Coherent(q, s) /\ SameHighlight(q, p) /\ SameTarget(q, p)
<1> DEFINE q == ClearMask(p, s)
<1>1. /\ q \in ShownType /\ SameHighlight(q, p) /\ q.loading = NoLoading
      /\ q.mask = IF MaskIsOf(p, s) THEN NoMask ELSE p.mask
  BY ClearMaskFields DEF Coherent
<1> HIDE DEF q
<1>2. MaskCoherent(q, s) BY <1>1 DEF Coherent, MaskCoherent, MaskIsOf, Of, NoMask, Masking
<1> QED BY <1>1, <1>2, HighlightKeeps DEF Coherent, SameTarget, q

LEMMA PaintBarrierKeeps ==
  ASSUME NEW p, Coherent(p, sequence)
  PROVE  LET q == PaintBarrier(p, sequence)
         IN  Coherent(q, sequence) /\ SameHighlight(q, p) /\ SameTarget(q, p)
<1>1. CASE p.loading = NoLoading
  <2>1. PaintBarrier(p, sequence) = ClearMask(p, sequence)
    BY <1>1 DEF PaintBarrier, LoadingIsOf
  <2> QED BY <1>1, <2>1, ClearMaskKeeps
<1>2. CASE p.loading # NoLoading
  <2>1. PaintBarrier(p, sequence) = Confirmed(p)
    BY <1>2, LoadsCoherently DEF PaintBarrier, Confirmed
  <2> QED BY <1>2, <2>1, ConfirmedKeeps
<1> QED BY <1>1, <1>2

LEMMA ClearConnectionStateKeeps ==
  ASSUME NEW p, NEW s, Coherent(p, s)
  PROVE  LET q == ClearConnectionState(p)
         IN  Coherent(q, s) /\ SameHighlight(q, p) /\ SameTarget(q, p)
<1> DEFINE q == ClearConnectionState(p)
<1>1. /\ q \in ShownType /\ SameHighlight(q, p)
      /\ q.loading = p.loading /\ q.replaced = p.replaced
      /\ q.mask = IF p.mask.state \in Masking THEN p.mask ELSE NoMask
  BY ClearConnectionStateFields DEF Coherent
<1> HIDE DEF q
<1>2. MaskCoherent(q, s) BY <1>1 DEF Coherent, MaskCoherent, MaskIsOf, Of, NoMask, Masking
<1> QED BY <1>1, <1>2, HighlightKeeps DEF Coherent, SameTarget, q

\* A confirmation of what is highlighted, or of what the guard leaves open.
LEMMA ConfirmOverrideKeeps ==
  ASSUME NEW p, NEW s, NEW i \in Index, NEW t \in 0 .. MaxSequence, Coherent(p, s),
         p.guard.index \in {i, NoIndex}, p.metadata = i
  PROVE  LET q == ConfirmOverride(p, i, t)
         IN  Coherent(q, s) /\ SameMask(q, p) /\ q.override = i /\ q.guard = p.guard
<1> DEFINE q == ConfirmOverride(p, i, t)
<1>1. /\ q \in ShownType /\ SameMask(q, p)
      /\ q.override = i /\ q.guard = p.guard /\ q.metadata = p.metadata
  BY ConfirmOverrideFields DEF Coherent
<1> HIDE DEF q
<1>2. i # NoIndex /\ i # PendingIndex BY Strings DEF NoIndex, PendingIndex
<1>3. GuardCoherent(q, s) BY <1>1, <1>2 DEF Coherent, GuardCoherent
<1>4. DisplayCoherent(q) BY <1>1, <1>2 DEF DisplayCoherent, DisplayActiveIndex
<1> QED BY <1>1, <1>3, <1>4, MaskKeeps DEF Coherent, q

LEMMA ClearOverrideKeeps ==
  ASSUME NEW p, NEW s, Coherent(p, s)
  PROVE  LET q == ClearOverride(p, s)
         IN  /\ Coherent(q, s) /\ SameMask(q, p) /\ q.metadata = p.metadata
             /\ q.override = NoIndex /\ q.guard = NoGuard
<1> DEFINE q == ClearOverride(p, s)
<1>1. /\ q \in ShownType /\ SameMask(q, p) /\ q.metadata = p.metadata
      /\ q.override = NoIndex
      /\ q.guard = IF p.guard # NoGuard /\ Of(p.guard, s) THEN NoGuard ELSE p.guard
  BY ClearOverrideFields DEF Coherent
<1> HIDE DEF q
<1>2. q.guard = NoGuard BY <1>1 DEF Coherent, GuardCoherent, Of
<1>3. NoIndex \notin Index /\ NoIndex # PendingIndex BY Strings DEF NoIndex, PendingIndex
<1>4. GuardCoherent(q, s) /\ DisplayCoherent(q)
  BY <1>1, <1>2, <1>3 DEF GuardCoherent, DisplayCoherent, DisplayActiveIndex, NoGuard
<1> QED BY <1>1, <1>2, <1>4, MaskKeeps DEF Coherent, q

LEMMA MetadataKeeps ==
  ASSUME NEW p, NEW s, NEW i \in Index, Coherent(p, s),
         DisplayActiveIndex(p) \in Index => i = DisplayActiveIndex(p)
  PROVE  LET q == [p EXCEPT !.metadata = i]
         IN  /\ Coherent(q, s) /\ SameMask(q, p)
             /\ q.metadata = i /\ q.override = p.override /\ q.guard = p.guard
<1> DEFINE q == [p EXCEPT !.metadata = i]
<1>1. /\ q \in ShownType /\ SameMask(q, p)
      /\ q.metadata = i /\ q.override = p.override /\ q.guard = p.guard
  BY MetadataFields DEF Coherent
<1> HIDE DEF q
<1>2. GuardCoherent(q, s) /\ DisplayCoherent(q)
  BY <1>1 DEF Coherent, GuardCoherent, DisplayCoherent, DisplayActiveIndex
<1> QED BY <1>1, <1>2, MaskKeeps DEF Coherent, q

LEMMA UnloadedKeeps ==
  ASSUME NEW p, NEW s, Coherent(p, s)
  PROVE  LET q == Unloaded(ClearMask(p, s))
         IN  Coherent(q, s) /\ SameHighlight(q, p) /\ q.loading = NoLoading
<1> DEFINE r == ClearMask(p, s)
           q == Unloaded(r)
<1>1. /\ r \in ShownType /\ SameHighlight(r, p)
      /\ r.mask = IF MaskIsOf(p, s) THEN NoMask ELSE p.mask
  BY ClearMaskFields DEF Coherent
<1> HIDE DEF r
<1>2. q \in ShownType /\ SameHighlight(q, r) /\ q.loading = NoLoading /\ q.mask = r.mask
  BY <1>1, UnloadedFields
<1> HIDE DEF q
<1>3. SameHighlight(q, p) BY <1>1, <1>2 DEF SameHighlight
<1>4. MaskCoherent(q, s)
  BY <1>1, <1>2 DEF Coherent, MaskCoherent, MaskIsOf, Of, NoMask, Masking
<1> QED BY <1>2, <1>3, <1>4, HighlightKeeps DEF Coherent, q, r

\* A payload never moves the override, and shows what it highlights.
LEMMA ApplySignalsKeeps ==
  ASSUME NEW p, NEW s, NEW i \in Index, Coherent(p, s)
  PROVE  LET q == ApplySignals(p, i)
         IN  /\ Coherent(q, s) /\ SameMask(q, p)
             /\ q.override = p.override /\ q.guard = p.guard
             /\ q.metadata = PayloadWithWindowOverrides(p, i)
<1> DEFINE m == PayloadWithWindowOverrides(p, i)
           r == [p EXCEPT !.metadata = m]
<1>1. m \in Index /\ (DisplayActiveIndex(p) \in Index => m = DisplayActiveIndex(p))
  BY DEF PayloadWithWindowOverrides
<1>2. /\ Coherent(r, s) /\ SameMask(r, p)
      /\ r.metadata = m /\ r.override = p.override /\ r.guard = p.guard
  BY <1>1, MetadataKeeps
<1>3. ApplySignals(p, i) = IF p.override = i THEN ConfirmOverride(r, i, Generic) ELSE r
  BY DEF ApplySignals
<1> HIDE DEF m, r
<1>4. CASE p.override = i
  <2>1. DisplayActiveIndex(p) = i BY <1>4, Strings DEF DisplayActiveIndex, NoIndex
  <2>2. r.metadata = i BY <1>1, <1>2, <2>1
  <2>3. r.guard.index \in {i, NoIndex} BY <1>2, <1>4 DEF Coherent, GuardCoherent
  <2>4. Generic \in 0 .. MaxSequence BY SwitchConstants DEF Generic
  <2>5. LET q == ConfirmOverride(r, i, Generic)
        IN  Coherent(q, s) /\ SameMask(q, r) /\ q.override = i /\ q.guard = r.guard
            /\ q.metadata = r.metadata
    BY <1>2, <2>2, <2>3, <2>4, ConfirmOverrideKeeps, ConfirmOverrideFields DEF Coherent
  <2> QED BY <1>2, <1>3, <1>4, <2>5 DEF SameMask, m
<1>5. CASE p.override # i
  BY <1>2, <1>3, <1>5 DEF m
<1> QED BY <1>4, <1>5

-----------------------------------------------------------------------------
(* Steps.  A step is within a switch or begins one; the two lemmas say     *)
(* what is left to show of it.                                             *)

Steady ==
  sequence' = sequence /\ override \in Index /\ override' \in Index => override' = override

LEMMA FieldsOfShown ==
  /\ Shown.metadata = metadata /\ Shown.override = override /\ Shown.guard = guard
  /\ Shown.loading = loading /\ Shown.mask = mask /\ Shown.replaced = replaced
  /\ Shown'.metadata = metadata' /\ Shown'.override = override' /\ Shown'.guard = guard'
  /\ Shown'.loading = loading' /\ Shown'.mask = mask' /\ Shown'.replaced = replaced'
BY DEF Shown

LEMMA WithinSwitch ==
  ASSUME IInv, NEW q, Shown' = q, Coherent(q, sequence), SameTarget(q, Shown),
         sequence' = sequence, posts' \subseteq posts, UnderWayTyped',
         \A e \in Indices : TargetIs(e) =>
            /\ \A r \in readbacks' : Of(r, sequence) => r.expected = e
            /\ e # NoIndex => Stands(q, e),
         q.override = PendingIndex => \E r \in readbacks' : Of(r, sequence),
         override \in Index /\ q.override \in Index => q.override = override
  PROVE  IInv' /\ Steady
<1>1. PICK e \in Indices : TargetIs(e) BY DEF IInv, OneTarget
<1>2. Coherent(Shown, sequence)' BY DEF Coherent, GuardCoherent, MaskCoherent, DisplayCoherent,
                                        DisplayActiveIndex, MaskIsOf, Of
<1>3. /\ \A r \in posts' : Of(r, sequence') => r.index = e
      /\ \A r \in readbacks' : Of(r, sequence') => r.expected = e
  BY <1>1 DEF TargetIs
<1>4. loading' # NoLoading => loading'.expected = e
  BY <1>1, FieldsOfShown DEF TargetIs, SameTarget
<1>5. e # NoIndex => Stands(Shown', e) BY <1>1
<1>6. TargetIs(e)' BY <1>3, <1>4, <1>5 DEF TargetIs, Of, Stands
<1>7. PendingIsAwaited' BY FieldsOfShown DEF PendingIsAwaited, Of
<1>8. Steady BY FieldsOfShown DEF Steady
<1> QED BY <1>2, <1>6, <1>7, <1>8 DEF IInv, OneTarget

LEMMA BeginsSwitch ==
  ASSUME IInv, NEW q, NEW e \in Indices, Shown' = q, sequence' = sequence + 1,
         Coherent(q, sequence + 1), UnderWayTyped',
         \A r \in posts' : r \notin posts => r.index = e,
         \A r \in readbacks' : r \notin readbacks => r.expected = e,
         q.loading # NoLoading => q.loading.expected = e,
         e # NoIndex => Stands(q, e),
         q.override = PendingIndex => \E r \in readbacks' : Of(r, sequence + 1)
  PROVE  IInv' /\ Steady
<1>1. Coherent(Shown, sequence)' BY DEF Coherent, GuardCoherent, MaskCoherent, DisplayCoherent,
                                        DisplayActiveIndex, MaskIsOf, Of
<1>2. \A r \in posts \cup readbacks : ~Of(r, sequence + 1)
  <2>1. sequence \in Nat BY SwitchConstants DEF IInv, UnderWayTyped
  <2>2. \A r \in posts \cup readbacks : r.sequence \in Nat /\ r.sequence <= sequence
    BY SwitchConstants DEF IInv, UnderWayTyped, PostType, ReadbackType, Switches
  <2> QED BY <2>1, <2>2 DEF Of
<1>3. /\ \A r \in posts' : Of(r, sequence') => r.index = e
      /\ \A r \in readbacks' : Of(r, sequence') => r.expected = e
  BY <1>2
<1>4. loading' # NoLoading => loading'.expected = e BY FieldsOfShown
<1>5. TargetIs(e)' BY <1>3, <1>4 DEF TargetIs, Of, Stands
<1>6. PendingIsAwaited' BY FieldsOfShown DEF PendingIsAwaited, Of
<1>7. Steady BY DEF Steady, IInv, UnderWayTyped
<1> QED BY <1>1, <1>5, <1>6, <1>7 DEF IInv, OneTarget

\* Where nothing new is under way and the highlight stays or goes dark.
LEMMA QuietStep ==
  ASSUME IInv, NEW q, Shown' = q, Coherent(q, sequence), SameTarget(q, Shown),
         sequence' = sequence, posts' \subseteq posts, UnderWayTyped',
         \A r \in readbacks' : Of(r, sequence) =>
            \E o \in readbacks : Of(o, sequence) /\ o.expected = r.expected,
         \A o \in readbacks : Of(o, sequence) => \E r \in readbacks' : Of(r, sequence),
         q.override \in {override, NoIndex}, q.guard \in {guard, NoGuard}
  PROVE  IInv' /\ Steady
<1>1. ASSUME NEW e \in Indices, TargetIs(e)
      PROVE  /\ \A r \in readbacks' : Of(r, sequence) => r.expected = e
             /\ e # NoIndex => Stands(q, e)
  BY <1>1, FieldsOfShown DEF TargetIs, Stands, NoGuard
<1>2. q.override = PendingIndex => \E r \in readbacks' : Of(r, sequence)
  BY Strings DEF IInv, PendingIsAwaited, NoIndex, PendingIndex
<1>3. override \in Index /\ q.override \in Index => q.override = override
  BY Strings DEF NoIndex
<1> QED BY <1>1, <1>2, <1>3, WithinSwitch

\* What a step under way leaves typed when it adds nothing.
LEMMA NothingAdded ==
  ASSUME UnderWayTyped, sequence' = sequence, posts' \subseteq posts,
         readbacks' \subseteq readbacks, paints' \subseteq paints \cup ({sequence} \ {0}),
         link' \in {"open", "reconnecting"}, setbacks' = setbacks \/ Setback
  PROVE  UnderWayTyped'
<1>1. setbacks' \in 0 .. MaxSetbacks BY SwitchConstants DEF UnderWayTyped, Setback
<1>2. {sequence} \ {0} \subseteq Switches BY SwitchConstants DEF UnderWayTyped, Switches
<1> QED BY <1>1, <1>2 DEF UnderWayTyped

LEMMA PaintIsDueTyped ==
  ASSUME IInv PROVE PaintIsDue \subseteq paints \cup ({sequence} \ {0})
<1>1. CASE loading.phase = "confirmed"
  <2>1. loading # NoLoading BY <1>1 DEF NoLoading
  <2>2. loading.sequence = sequence /\ sequence \in Switches
    BY <2>1, LoadsCoherently, FieldsOfShown DEF IInv, LoadingIsOf, Of
  <2> QED BY <2>2, SwitchConstants DEF PaintIsDue, Switches
<1>2. CASE loading.phase # "confirmed" BY <1>2 DEF PaintIsDue
<1> QED BY <1>1, <1>2

LEMMA PayloadSteps ==
  ASSUME IInv, NEW i \in Index, PushSignals(i) \/ MetadataArrives(i) PROVE IInv' /\ Steady
<1>1. CASE PushSignals(i)
  <2> DEFINE q == ApplySignals(Shown, i)
  <2>1. Coherent(q, sequence) /\ SameMask(q, Shown) /\ q.override = override /\ q.guard = guard
    BY ApplySignalsKeeps, FieldsOfShown DEF IInv
  <2>2. Shown' = q BY <1>1, <2>1, SetShownIs DEF PushSignals, Coherent
  <2>3. UnderWayTyped' BY <1>1, NothingAdded DEF IInv, PushSignals, UnderWayTyped
  <2> HIDE DEF q
  <2>4. SameTarget(q, Shown) BY <2>1 DEF SameMask, SameTarget
  <2> QED BY <1>1, <2>1, <2>2, <2>3, <2>4, QuietStep DEF PushSignals
<1>2. CASE MetadataArrives(i)
  <2> DEFINE m == PayloadWithWindowOverrides(Shown, i)
             q == [Shown EXCEPT !.metadata = m]
  <2>1. m \in Index /\ (DisplayActiveIndex(Shown) \in Index => m = DisplayActiveIndex(Shown))
    BY DEF PayloadWithWindowOverrides
  <2>2. Coherent(q, sequence) /\ SameMask(q, Shown) /\ q.override = override /\ q.guard = guard
    BY <2>1, MetadataKeeps, FieldsOfShown DEF IInv
  <2>3. Shown' = q BY <1>2 DEF MetadataArrives, Shown
  <2>4. UnderWayTyped' BY <1>2, NothingAdded DEF IInv, MetadataArrives, UnderWayTyped
  <2> HIDE DEF q
  <2>5. SameTarget(q, Shown) BY <2>2 DEF SameMask, SameTarget
  <2> QED BY <1>2, <2>2, <2>3, <2>4, <2>5, QuietStep DEF MetadataArrives
<1> QED BY <1>1, <1>2

LEMMA HoldEndsStep ==
  ASSUME IInv, NEW h \in holds, HoldEnds(h) PROVE IInv' /\ Steady
<1> DEFINE q == Shown'
<1>1. /\ q.metadata = metadata /\ q.guard = guard /\ q.loading = loading /\ q.mask = mask
      /\ q.replaced = replaced /\ q.holds \subseteq holds
      /\ q.override = override \/ (q.override = NoIndex /\ override = metadata)
  BY DEF HoldEnds, Shown
<1>2. q \in ShownType
  <2>1. q = [metadata |-> metadata, override |-> q.override, guard |-> guard, loading |-> loading,
             mask |-> mask, holds |-> q.holds, replaced |-> replaced]
    BY DEF HoldEnds, Shown
  <2>2. q.override \in Indices \cup {PendingIndex} /\ q.holds \in SUBSET HoldType
    BY <1>1 DEF IInv, Coherent, ShownType, Shown, Indices
  <2> HIDE DEF q
  <2> QED BY <2>1, <2>2 DEF IInv, Coherent, ShownType, Shown
<1> HIDE DEF q
<1>3. GuardCoherent(q, sequence)
  BY <1>1, Strings, FieldsOfShown DEF IInv, Coherent, GuardCoherent, NoIndex, PendingIndex
<1>4. DisplayCoherent(q)
  BY <1>1, Strings, FieldsOfShown
     DEF IInv, Coherent, GuardCoherent, DisplayCoherent, DisplayActiveIndex, NoIndex, ShownType
<1>5. SameMask(q, Shown) BY <1>1, FieldsOfShown DEF SameMask
<1>6. Coherent(q, sequence) /\ SameTarget(q, Shown)
  BY <1>2, <1>3, <1>4, <1>5, MaskKeeps DEF Coherent, IInv
<1>7. UnderWayTyped' BY NothingAdded DEF IInv, HoldEnds, UnderWayTyped
<1> QED BY <1>1, <1>6, <1>7, QuietStep DEF q, HoldEnds

LEMMA GuardExpiresStep ==
  ASSUME IInv, GuardExpires PROVE IInv' /\ Steady
<1> DEFINE q == [Shown EXCEPT !.guard = NoGuard]
<1>1. NoGuard \in GuardType BY DEF GuardType
<1>2. Shown' = q BY DEF GuardExpires, Shown
<1>3. /\ q \in ShownType /\ SameMask(q, Shown) /\ q.metadata = metadata
      /\ q.override = override /\ q.guard = NoGuard
  BY <1>1, FieldsOfShown DEF IInv, Coherent, ShownType, SameMask
<1> HIDE DEF q
<1>4. NoIndex \notin Index BY Strings DEF NoIndex
<1>5. GuardCoherent(q, sequence) /\ DisplayCoherent(q)
  BY <1>3, <1>4, FieldsOfShown
     DEF IInv, Coherent, GuardCoherent, DisplayCoherent, DisplayActiveIndex, NoGuard
<1>6. Coherent(q, sequence) /\ SameTarget(q, Shown)
  BY <1>3, <1>5, MaskKeeps DEF Coherent, IInv
<1>7. UnderWayTyped' BY NothingAdded DEF IInv, GuardExpires, UnderWayTyped
<1> QED BY <1>2, <1>3, <1>6, <1>7, QuietStep DEF GuardExpires

\* Where only the mask and what is loaded change.
LEMMA MaskStep ==
  ASSUME IInv, NEW q, SetShown(q), Coherent(q, sequence), SameHighlight(q, Shown),
         SameTarget(q, Shown), UNCHANGED <<sequence, posts, readbacks, setbacks>>,
         paints' \subseteq paints \cup ({sequence} \ {0}), link' \in {"open", "reconnecting"}
  PROVE  IInv' /\ Steady
<1>1. Shown' = q BY SetShownIs DEF Coherent
<1>2. UnderWayTyped' BY NothingAdded DEF IInv
<1>3. q.override = override /\ q.guard = guard BY FieldsOfShown DEF SameHighlight
<1> QED BY <1>1, <1>2, <1>3, QuietStep

LEMMA NothingShownStep ==
  ASSUME IInv, UNCHANGED <<shownVars, sequence, posts, readbacks, setbacks>>,
         paints' \subseteq paints \cup ({sequence} \ {0}), link' \in {"open", "reconnecting"}
  PROVE  IInv' /\ Steady
<1>1. Coherent(Shown, sequence) BY DEF IInv
<1>2. SetShown(Shown) BY DEF SetShown, Shown, shownVars
<1>3. SameHighlight(Shown, Shown) /\ SameTarget(Shown, Shown) BY DEF SameHighlight, SameTarget
<1> QED BY <1>1, <1>2, <1>3, MaskStep

LEMMA RevealTimeoutStep ==
  ASSUME IInv, RevealTimeout PROVE IInv' /\ Steady
<1> DEFINE q == Stall(Shown, sequence)
<1>1. loading.sequence = sequence
  BY LoadsCoherently, FieldsOfShown DEF IInv, RevealTimeout, LoadingIsOf, Of
<1>2. Coherent(q, sequence) /\ SameHighlight(q, Shown) /\ SameTarget(q, Shown)
  BY StallKeeps DEF IInv
<1> HIDE DEF q
<1>3. SetShown(q) BY <1>1 DEF RevealTimeout, q
<1> QED BY <1>2, <1>3, MaskStep DEF RevealTimeout, IInv, UnderWayTyped

LEMMA PaintCapStep ==
  ASSUME IInv, PaintCap PROVE IInv' /\ Steady
BY PaintIsDueTyped, NothingShownStep DEF PaintCap, IInv, UnderWayTyped

LEMMA TerminalFrameStep ==
  ASSUME IInv, TerminalFrame PROVE IInv' /\ Steady
<1> DEFINE q == ClearConnectionState(Shown)
<1>1. Coherent(q, sequence) /\ SameHighlight(q, Shown) /\ SameTarget(q, Shown)
  BY ClearConnectionStateKeeps DEF IInv
<1>2. SetShown(q) BY DEF TerminalFrame
<1> HIDE DEF q
<1> QED BY <1>1, <1>2, MaskStep, PaintIsDueTyped DEF TerminalFrame, IInv, UnderWayTyped

LEMMA FinishPaintStep ==
  ASSUME IInv, NEW s \in paints, FinishPaint(s) PROVE IInv' /\ Steady
<1>1. CASE Paints(s)
  <2> DEFINE q == Unloaded(ClearMask(Shown, s))
  <2>1. Coherent(q, sequence) /\ SameHighlight(q, Shown) /\ q.loading = NoLoading
    BY <1>1, UnloadedKeeps DEF IInv, Paints
  <2>2. SetShown(q) BY <1>1 DEF FinishPaint, Unloaded
  <2> HIDE DEF q
  <2> QED BY <2>1, <2>2, MaskStep DEF FinishPaint, IInv, UnderWayTyped, SameTarget
<1>2. CASE ~Paints(s)
  BY <1>2, NothingShownStep DEF FinishPaint, IInv, UnderWayTyped
<1> QED BY <1>1, <1>2

LEMMA LinkBreaksStep ==
  ASSUME IInv, LinkBreaks PROVE IInv' /\ Steady
<1> DEFINE new == [state |-> "reconnecting", sequence |-> Generic]
           r == replaced \/ mask.state \in Masking
           q == [metadata |-> metadata, override |-> override, guard |-> guard,
                 loading |-> loading, mask |-> new, holds |-> holds, replaced |-> r]
<1>1. Shown' = q BY DEF LinkBreaks, Shown
<1>2. new \in MaskType /\ new.state \notin Masking BY DEF MaskType, Masking
<1>3. r \in BOOLEAN BY DEF IInv, Coherent, ShownType, Shown
<1>4. /\ q \in ShownType /\ SameHighlight(q, Shown) /\ q.loading = loading /\ q.mask = new
      /\ q.replaced = r
  BY <1>2, <1>3 DEF IInv, Coherent, ShownType, Shown, SameHighlight
<1>5. loading # NoLoading => loading.sequence = sequence /\ r
  BY FieldsOfShown DEF IInv, Coherent, MaskCoherent, MaskIsOf
<1> HIDE DEF new, q
<1>6. MaskCoherent(q, sequence) BY <1>2, <1>4, <1>5 DEF MaskCoherent
<1>7. Coherent(q, sequence) /\ SameTarget(q, Shown)
  BY <1>4, <1>6, HighlightKeeps, FieldsOfShown DEF Coherent, IInv, SameTarget
<1>8. q.override = override /\ q.guard = guard BY <1>4, FieldsOfShown DEF SameHighlight
<1>9. UnderWayTyped' BY NothingAdded DEF IInv, LinkBreaks
<1> QED BY <1>1, <1>7, <1>8, <1>9, QuietStep DEF LinkBreaks

LEMMA LinkOpensStep ==
  ASSUME IInv, LinkOpens PROVE IInv' /\ Steady
<1> DEFINE q == ClearConnectionState(Shown)
<1>1. Coherent(q, sequence) /\ SameHighlight(q, Shown) /\ SameTarget(q, Shown)
  BY ClearConnectionStateKeeps DEF IInv
<1>2. SetShown(q) BY DEF LinkOpens
<1> HIDE DEF q
<1> QED BY <1>1, <1>2, MaskStep DEF LinkOpens

-----------------------------------------------------------------------------
(* Clicks and keystrokes.                                                  *)

\* A new switch: what it highlights, and its mask.
LEMMA NewSequenceTyped ==
  ASSUME IInv, NewSequence
  PROVE  /\ sequence' = sequence + 1 /\ sequence' \in Switches
         /\ Lasting \in SUBSET HoldType
BY LastingTyped, SwitchConstants
   DEF IInv, NewSequence, Switches, UnderWayTyped, Coherent

LEMMA SetOverrideIs ==
  ASSUME IInv, NEW i \in Index, NewSequence
  PROVE  LET q == SetOverride(i)
         IN  /\ q \in ShownType /\ GuardCoherent(q, sequence + 1) /\ DisplayCoherent(q)
             /\ Stands(q, i)
<1> DEFINE q == SetOverride(i)
           g == [index |-> i, sequence |-> sequence']
<1>1. sequence' = sequence + 1 /\ sequence' \in Switches /\ Lasting \in SUBSET HoldType
  BY NewSequenceTyped
<1>2. g \in GuardType /\ i \in Indices \cup {PendingIndex} BY <1>1 DEF GuardType, Indices
<1>3. /\ q \in ShownType /\ q.override = i /\ q.guard = g /\ q.metadata = i
  BY <1>1, <1>2 DEF IInv, Coherent, ShownType, SetOverride, Shown
<1> HIDE DEF q
<1>4. g.index = i /\ g.sequence = sequence + 1 BY <1>1
<1>5. i # NoIndex /\ i # PendingIndex BY Strings DEF NoIndex, PendingIndex
<1>6. GuardCoherent(q, sequence + 1) /\ DisplayCoherent(q) /\ Stands(q, i)
  BY <1>3, <1>4, <1>5 DEF GuardCoherent, DisplayCoherent, DisplayActiveIndex, Stands
<1> QED BY <1>3, <1>6 DEF q

LEMMA SetPendingIs ==
  ASSUME IInv, NewSequence
  PROVE  LET q == SetPending
         IN  q \in ShownType /\ GuardCoherent(q, sequence + 1) /\ DisplayCoherent(q)
<1> DEFINE q == SetPending
<1>1. Lasting \in SUBSET HoldType BY NewSequenceTyped
<1>2. NoGuard \in GuardType BY DEF GuardType
<1>3. q \in ShownType /\ q.override = PendingIndex /\ q.guard = NoGuard
  BY <1>1, <1>2 DEF IInv, Coherent, ShownType, SetPending, Shown
<1> HIDE DEF q
<1>4. PendingIndex \notin Index /\ PendingIndex # NoIndex
  BY Strings DEF NoIndex, PendingIndex
<1>5. GuardCoherent(q, sequence + 1) /\ DisplayCoherent(q)
  BY <1>3, <1>4 DEF GuardCoherent, DisplayCoherent, DisplayActiveIndex
<1> QED BY <1>3, <1>5 DEF q

LEMMA MoreUnderWay ==
  ASSUME UnderWayTyped, sequence' \in {sequence, sequence + 1}, sequence' <= MaxSequence,
         \A r \in posts' : r \in posts \/ (r \in PostType /\ r.sequence = sequence'),
         \A r \in readbacks' : r \in readbacks \/ (r \in ReadbackType /\ r.sequence = sequence'),
         UNCHANGED <<paints, link>>, UNCHANGED setbacks \/ Setback
  PROVE  UnderWayTyped'
<1>1. sequence \in Nat /\ sequence <= MaxSequence /\ sequence' \in 0 .. MaxSequence
  BY SwitchConstants DEF UnderWayTyped
<1>2. setbacks' \in 0 .. MaxSetbacks BY SwitchConstants DEF UnderWayTyped, Setback
<1>3. \A r \in posts \cup readbacks : r.sequence \in Nat /\ r.sequence <= sequence'
  BY <1>1, SwitchConstants DEF UnderWayTyped, PostType, ReadbackType, Switches
<1> QED BY <1>1, <1>2, <1>3 DEF UnderWayTyped

LEMMA ReadbackTyped ==
  ASSUME NEW s \in Switches, NEW e \in Indices, NEW v \in Indices
  PROVE  /\ Readback(s, e, v) \in ReadbackType
         /\ Readback(s, e, v).sequence = s /\ Readback(s, e, v).expected = e
BY SwitchConstants DEF Readback, ReadbackType

LEMMA AgainTyped ==
  ASSUME NEW r \in ReadbackType, ~LastAttempt(r)
  PROVE  /\ Again(r) \in ReadbackType
         /\ Again(r).sequence = r.sequence /\ Again(r).expected = r.expected
<1>1. r.attempt + 1 \in 0 .. ReadbackMaxAttempts - 1
  BY SwitchConstants DEF ReadbackType, LastAttempt
<1> QED BY <1>1 DEF Again, ReadbackType

LEMMA ClickWindowStep ==
  ASSUME IInv, NEW i \in Index, ClickWindow(i) PROVE IInv' /\ Steady
<1> DEFINE q == BeginLoading(SetOverride(i), sequence', i)
           post == [sequence |-> sequence', index |-> i, previous |-> metadata]
<1>1. /\ sequence' = sequence + 1 /\ sequence' \in Switches
      /\ i \in Indices /\ metadata \in Index
  BY NewSequenceTyped, FieldsOfShown DEF ClickWindow, Indices, IInv, Coherent, ShownType
<1>2. /\ SetOverride(i) \in ShownType /\ GuardCoherent(SetOverride(i), sequence + 1)
      /\ DisplayCoherent(SetOverride(i)) /\ Stands(SetOverride(i), i)
  BY SetOverrideIs DEF ClickWindow
<1>3. /\ Coherent(q, sequence + 1) /\ SameHighlight(q, SetOverride(i))
      /\ q.loading.expected = i
  BY <1>1, <1>2, BeginLoadingKeeps
<1>4. Shown' = q BY <1>3, SetShownIs DEF ClickWindow, Coherent
<1>5. Stands(q, i) /\ q.override # PendingIndex
  BY <1>2, <1>3, Strings DEF Stands, SameHighlight, NoIndex, PendingIndex
<1> HIDE DEF q
<1>6. post \in PostType /\ post.sequence = sequence' /\ post.index = i BY <1>1 DEF PostType
<1>7. posts' = posts \cup {post} /\ readbacks' = readbacks BY DEF ClickWindow
<1> HIDE DEF post
<1>8. UnderWayTyped' BY <1>1, <1>6, <1>7, MoreUnderWay DEF IInv, ClickWindow, Switches
<1> QED BY <1>1, <1>3, <1>4, <1>5, <1>6, <1>7, <1>8, BeginsSwitch

LEMMA TypeWindowStep ==
  ASSUME IInv, NEW i \in Index, TypeWindow(i) PROVE IInv' /\ Steady
<1> DEFINE q == BeginLoading(SetOverride(i), sequence', i)
           r == Readback(sequence', i, NoIndex)
<1>1. sequence' = sequence + 1 /\ sequence' \in Switches /\ i \in Indices /\ NoIndex \in Indices
  BY NewSequenceTyped DEF TypeWindow, Indices
<1>2. /\ SetOverride(i) \in ShownType /\ GuardCoherent(SetOverride(i), sequence + 1)
      /\ DisplayCoherent(SetOverride(i)) /\ Stands(SetOverride(i), i)
  BY SetOverrideIs DEF TypeWindow
<1>3. /\ Coherent(q, sequence + 1) /\ SameHighlight(q, SetOverride(i))
      /\ q.loading.expected = i
  BY <1>1, <1>2, BeginLoadingKeeps
<1>4. Shown' = q BY <1>3, SetShownIs DEF TypeWindow, Coherent
<1>5. Stands(q, i) /\ q.override # PendingIndex
  BY <1>2, <1>3, Strings DEF Stands, SameHighlight, NoIndex, PendingIndex
<1> HIDE DEF q
<1>6. r \in ReadbackType /\ r.sequence = sequence' /\ r.expected = i BY <1>1, ReadbackTyped
<1>7. readbacks' = readbacks \cup {r} /\ posts' = posts BY DEF TypeWindow
<1> HIDE DEF r
<1>8. UnderWayTyped' BY <1>1, <1>6, <1>7, MoreUnderWay DEF IInv, TypeWindow, Switches
<1> QED BY <1>1, <1>3, <1>4, <1>5, <1>6, <1>7, <1>8, BeginsSwitch

\* A relative switch, confirmed at once or not.
LEMMA RelativeStep ==
  ASSUME IInv, NewSequence, NEW q, SetShown(q),
         q \in {BeginLoading(SetPending, sequence', NoIndex),
                Confirmed(BeginLoading(SetPending, sequence', NoIndex))},
         readbacks' = readbacks \cup {Readback(sequence', NoIndex, metadata)},
         UNCHANGED <<posts, paints, link, setbacks>>
  PROVE  IInv' /\ Steady
<1> DEFINE b == BeginLoading(SetPending, sequence', NoIndex)
           r == Readback(sequence', NoIndex, metadata)
<1>1. /\ sequence' = sequence + 1 /\ sequence' \in Switches
      /\ NoIndex \in Indices /\ metadata \in Indices
  BY NewSequenceTyped, FieldsOfShown DEF Indices, IInv, Coherent, ShownType
<1>2. Coherent(b, sequence + 1) /\ b.loading # NoLoading /\ b.loading.expected = NoIndex
  BY <1>1, SetPendingIs, BeginLoadingKeeps
<1> HIDE DEF b
<1>3. Coherent(q, sequence + 1) /\ SameTarget(q, b)
  BY <1>2, ConfirmedKeeps DEF b, SameTarget
<1>4. Shown' = q BY <1>3, SetShownIs DEF Coherent
<1>5. q.loading # NoLoading => q.loading.expected = NoIndex BY <1>2, <1>3 DEF SameTarget
<1>6. r \in ReadbackType /\ r.sequence = sequence' /\ r.expected = NoIndex
  BY <1>1, ReadbackTyped
<1>7. readbacks' = readbacks \cup {r} OBVIOUS
<1> HIDE DEF r
<1>8. UnderWayTyped' BY <1>1, <1>6, <1>7, MoreUnderWay DEF IInv, Switches
<1>9. \E x \in readbacks' : Of(x, sequence + 1) BY <1>1, <1>6, <1>7 DEF Of
<1> QED BY <1>1, <1>3, <1>4, <1>5, <1>6, <1>7, <1>8, <1>9, BeginsSwitch

LEMMA ClickRelativeStep ==
  ASSUME IInv, ClickRelative PROVE IInv' /\ Steady
<1>1. SetShown(Confirmed(BeginLoading(SetPending, sequence', NoIndex)))
  BY DEF ClickRelative, Confirmed
<1> QED BY <1>1, RelativeStep DEF ClickRelative

LEMMA TypeRelativeStep ==
  ASSUME IInv, TypeRelative PROVE IInv' /\ Steady
BY RelativeStep DEF TypeRelative

LEMMA RetryStep ==
  ASSUME IInv, Retry PROVE IInv' /\ Steady
<1> DEFINE e == loading.expected
           b == BeginLoading(Shown, sequence, e)
           q == PaintBarrier(b, sequence)
           r == Readback(sequence, e, NoIndex)
<1>1. loading # NoLoading /\ sequence \in Switches /\ e \in Indices /\ NoIndex \in Indices
  BY LoadsCoherently, FieldsOfShown DEF IInv, Retry, Stalled, Indices
<1>2. /\ Coherent(b, sequence) /\ SameHighlight(b, Shown)
      /\ b.loading # NoLoading /\ b.loading.expected = e
  BY <1>1, BeginLoadingKeeps DEF IInv, Coherent
<1> HIDE DEF b
<1>3. Coherent(q, sequence) /\ SameHighlight(q, b) /\ SameTarget(q, b)
  BY <1>2, PaintBarrierKeeps
<1>4. Shown' = q BY <1>3, SetShownIs DEF Retry, Coherent, b
<1> HIDE DEF q
<1>5. SameHighlight(q, Shown) /\ SameTarget(q, Shown)
  BY <1>1, <1>2, <1>3, FieldsOfShown DEF SameHighlight, SameTarget
<1>6. r \in ReadbackType /\ r.sequence = sequence /\ r.expected = e BY <1>1, ReadbackTyped
<1>7. /\ readbacks' = readbacks \cup {r} /\ sequence' = sequence /\ posts' = posts
      /\ UNCHANGED <<paints, link>> /\ Setback
  BY DEF Retry
<1> HIDE DEF r
<1>8. UnderWayTyped' BY <1>6, <1>7, MoreUnderWay, SwitchConstants DEF IInv, UnderWayTyped
<1>9. ASSUME NEW x \in Indices, TargetIs(x)
      PROVE  /\ \A o \in readbacks' : Of(o, sequence) => o.expected = x
             /\ x # NoIndex => Stands(q, x)
  BY <1>1, <1>5, <1>6, <1>7, <1>9, FieldsOfShown DEF TargetIs, Stands, SameHighlight
<1>10. q.override = override BY <1>5, FieldsOfShown DEF SameHighlight
<1>11. q.override = PendingIndex => \E o \in readbacks' : Of(o, sequence)
  BY <1>7, <1>10 DEF IInv, PendingIsAwaited
<1> QED BY <1>3, <1>4, <1>5, <1>7, <1>8, <1>9, <1>10, <1>11, WithinSwitch

LEMMA CancelStep ==
  ASSUME IInv, Cancel PROVE IInv' /\ Steady
<1> DEFINE x == [Shown EXCEPT !.loading = NoLoading, !.holds = Lasting]
           c == ClearMask(x, sequence)
           q == ClearOverride(c, sequence)
           r == Readback(sequence', NoIndex, NoIndex)
<1>1. /\ sequence' = sequence + 1 /\ sequence' \in Switches
      /\ Lasting \in SUBSET HoldType /\ NoIndex \in Indices
  BY NewSequenceTyped DEF Cancel, Indices
<1>2. NoLoading \in LoadingType BY DEF LoadingType
<1>3. x \in ShownType /\ x.loading = NoLoading /\ x.mask = mask /\ x.guard = guard
  BY <1>1, <1>2 DEF IInv, Coherent, ShownType, Shown
<1> HIDE DEF x
<1>4. MaskIsOf(x, sequence)
  BY <1>3, FieldsOfShown
     DEF IInv, Coherent, MaskCoherent, Cancel, Stalled, MaskIsOf, Of, Masking
<1>5. c \in ShownType /\ c.guard = guard /\ c.loading = NoLoading /\ c.mask = NoMask
  BY <1>3, <1>4, ClearMaskFields DEF SameHighlight
<1> HIDE DEF c
<1>6. /\ q \in ShownType /\ q.loading = NoLoading /\ q.mask = NoMask /\ q.override = NoIndex
      /\ q.guard = IF guard # NoGuard /\ Of(guard, sequence) THEN NoGuard ELSE guard
  BY <1>5, ClearOverrideFields DEF SameMask
<1> HIDE DEF q
<1>7. q.guard = NoGuard BY <1>6, FieldsOfShown DEF IInv, Coherent, GuardCoherent, Of
<1>8. NoIndex \notin Index /\ NoIndex # PendingIndex BY Strings DEF NoIndex, PendingIndex
<1>9. Coherent(q, sequence + 1)
  BY <1>6, <1>7, <1>8 DEF Coherent, GuardCoherent, MaskCoherent, DisplayCoherent,
                          DisplayActiveIndex, NoGuard, NoMask, Masking
<1>10. Shown' = q BY <1>6, SetShownIs DEF Cancel, q, c, x
<1>11. r \in ReadbackType /\ r.sequence = sequence' /\ r.expected = NoIndex
  BY <1>1, ReadbackTyped
<1>12. readbacks' = readbacks \cup {r} /\ UNCHANGED <<posts, paints, link, setbacks>>
  BY DEF Cancel
<1> HIDE DEF r
<1>13. UnderWayTyped' BY <1>1, <1>11, <1>12, MoreUnderWay DEF IInv, Switches
<1> QED BY <1>1, <1>6, <1>8, <1>9, <1>10, <1>11, <1>12, <1>13, BeginsSwitch

-----------------------------------------------------------------------------
(* Answers to requests.                                                    *)

LEMMA PostSucceedsStep ==
  ASSUME IInv, NEW post \in posts, PostSucceeds(post) PROVE IInv' /\ Steady
<1> DEFINE q == PaintBarrier(Shown, sequence)
           r == Readback(sequence, post.index, NoIndex)
<1>1. CASE Of(post, sequence)
  <2>1. sequence \in Switches /\ post.index \in Indices /\ NoIndex \in Indices
    BY <1>1 DEF IInv, UnderWayTyped, PostType, Of, Indices
  <2>2. Coherent(q, sequence) /\ SameHighlight(q, Shown) /\ SameTarget(q, Shown)
    BY PaintBarrierKeeps DEF IInv
  <2>3. Shown' = q BY <1>1, <2>2, SetShownIs DEF PostSucceeds, Coherent
  <2> HIDE DEF q
  <2>4. r \in ReadbackType /\ r.sequence = sequence /\ r.expected = post.index
    BY <2>1, ReadbackTyped
  <2>5. /\ readbacks' = readbacks \cup {r} /\ posts' \subseteq posts
        /\ UNCHANGED <<sequence, paints, link, setbacks>>
    BY <1>1 DEF PostSucceeds
  <2> HIDE DEF r
  <2>6. UnderWayTyped' BY <2>4, <2>5, MoreUnderWay, SwitchConstants DEF IInv, UnderWayTyped
  <2>7. ASSUME NEW x \in Indices, TargetIs(x)
        PROVE  /\ \A o \in readbacks' : Of(o, sequence) => o.expected = x
               /\ x # NoIndex => Stands(q, x)
    BY <1>1, <2>2, <2>4, <2>5, <2>7, FieldsOfShown DEF TargetIs, Stands, SameHighlight
  <2>8. q.override = override BY <2>2, FieldsOfShown DEF SameHighlight
  <2>9. q.override = PendingIndex => \E o \in readbacks' : Of(o, sequence)
    BY <2>5, <2>8 DEF IInv, PendingIsAwaited
  <2> QED BY <2>2, <2>3, <2>5, <2>6, <2>7, <2>8, <2>9, WithinSwitch
<1>2. CASE ~Of(post, sequence)
  <2>1. Shown' = Shown BY <1>2, ShownStays DEF PostSucceeds
  <2>2. UnderWayTyped' BY <1>2, NothingAdded DEF PostSucceeds, IInv, UnderWayTyped
  <2>3. SameTarget(Shown, Shown) BY DEF SameTarget
  <2> QED BY <1>2, <2>1, <2>2, <2>3, QuietStep, FieldsOfShown DEF PostSucceeds, IInv
<1> QED BY <1>1, <1>2

LEMMA PostFailsStep ==
  ASSUME IInv, NEW post \in posts, PostFails(post) PROVE IInv' /\ Steady
<1>1. UnderWayTyped' BY NothingAdded DEF PostFails, IInv, UnderWayTyped
<1>2. CASE ~Of(post, sequence)
  <2>1. Shown' = Shown BY <1>2, ShownStays DEF PostFails
  <2>2. SameTarget(Shown, Shown) BY DEF SameTarget
  <2> QED BY <1>1, <2>1, <2>2, QuietStep, FieldsOfShown DEF PostFails, IInv
<1>3. CASE Of(post, sequence)
  <2> DEFINE p == ClearOverride(Shown, sequence)
             y == [p EXCEPT !.loading = NoLoading, !.metadata = post.previous]
             c == ClearMask(y, sequence)
             q == IF override = NoIndex THEN p ELSE c
  <2>1. /\ Coherent(p, sequence) /\ SameMask(p, Shown) /\ p.override = NoIndex
        /\ p.guard = NoGuard
    BY ClearOverrideKeeps DEF IInv
  <2>2. SetShown(q) BY <1>3 DEF PostFails
  <2> HIDE DEF p
  <2>3. NoLoading \in LoadingType /\ post.previous \in Index
    BY DEF LoadingType, IInv, UnderWayTyped, PostType
  <2>4. /\ y \in ShownType /\ y.loading = NoLoading /\ y.mask = p.mask
        /\ y.override = NoIndex /\ y.guard = NoGuard
    BY <2>1, <2>3 DEF Coherent, ShownType
  <2> HIDE DEF y
  <2>5. /\ c \in ShownType /\ c.loading = NoLoading /\ c.override = NoIndex
        /\ c.guard = NoGuard
        /\ c.mask = IF MaskIsOf(y, sequence) THEN NoMask ELSE y.mask
    BY <2>4, ClearMaskFields DEF SameHighlight
  <2> HIDE DEF c
  <2>6. MaskCoherent(c, sequence)
    BY <2>1, <2>4, <2>5 DEF Coherent, MaskCoherent, MaskIsOf, Of, NoMask, Masking
  <2>7. NoIndex \notin Index /\ NoIndex # PendingIndex BY Strings DEF NoIndex, PendingIndex
  <2>8. Coherent(c, sequence)
    BY <2>5, <2>6, <2>7
       DEF Coherent, GuardCoherent, DisplayCoherent, DisplayActiveIndex, NoGuard
  <2>9. /\ Coherent(q, sequence) /\ q.override = NoIndex /\ q.guard = NoGuard
        /\ SameTarget(q, Shown)
    BY <2>1, <2>5, <2>8 DEF SameMask, SameTarget
  <2> HIDE DEF q
  <2>10. Shown' = q BY <2>2, <2>9, SetShownIs DEF Coherent
  <2> QED BY <1>1, <2>9, <2>10, QuietStep DEF PostFails
<1> QED BY <1>2, <1>3

-----------------------------------------------------------------------------
(* Readbacks.                                                              *)

LEMMA SupersededStep ==
  ASSUME IInv, NEW r \in readbacks, SupersededReadback(r) PROVE IInv' /\ Steady
<1>1. Shown' = Shown BY ShownStays DEF SupersededReadback
<1>2. UnderWayTyped' BY NothingAdded DEF SupersededReadback, IInv, UnderWayTyped
<1>3. SameTarget(Shown, Shown) BY DEF SameTarget
<1>4. ~Of(r, sequence) BY DEF SupersededReadback, Superseded
<1> QED BY <1>1, <1>2, <1>3, <1>4, QuietStep, FieldsOfShown DEF SupersededReadback, IInv

\* The highlight is where a readback of the newest switch has its target.
LEMMA ReadbackStands ==
  ASSUME IInv, NEW r \in readbacks, Of(r, sequence), r.expected # NoIndex
  PROVE  Stands(Shown, r.expected) /\ r.expected \in Index /\ override # PendingIndex
<1>1. Stands(Shown, r.expected) BY DEF IInv, OneTarget, TargetIs
<1>2. r.expected \in Index BY DEF IInv, UnderWayTyped, ReadbackType, Indices
<1> QED BY <1>1, <1>2, Strings, FieldsOfShown DEF Stands, NoIndex, PendingIndex

\* What confirms a readback is what the payload shows, and the guard agrees with it.
LEMMA ConfirmingIndex ==
  ASSUME IInv, NEW r \in readbacks, Of(r, sequence), NEW i \in Index,
         Confirms(r, ReadIndex(r, i))
  PROVE  LET active == ReadIndex(r, i)
         IN  /\ active \in Index /\ active = PayloadWithWindowOverrides(Shown, i)
             /\ guard.index \in {active, NoIndex}
             /\ override \in Index => override = active
             /\ r.expected # NoIndex => active = r.expected
<1>1. NoIndex \notin Index /\ PendingIndex \notin Index /\ NoIndex # PendingIndex
  BY Strings DEF NoIndex, PendingIndex
<1>2. CASE r.expected # NoIndex
  <2>1. Stands(Shown, r.expected) /\ ReadIndex(r, i) = i /\ i = r.expected
    BY <1>2, ReadbackStands DEF Confirms, ReadIndex
  <2>2. override \in {i, NoIndex} /\ guard.index \in {i, NoIndex}
    BY <2>1, FieldsOfShown DEF Stands
  <2>3. PayloadWithWindowOverrides(Shown, i) = i
    BY <1>1, <2>2, FieldsOfShown DEF PayloadWithWindowOverrides, DisplayActiveIndex
  <2> QED BY <1>1, <2>1, <2>2, <2>3
<1>3. CASE r.expected = NoIndex
  <2> DEFINE active == PayloadWithWindowOverrides(Shown, i)
  <2>1. ReadIndex(r, i) = active BY <1>3 DEF ReadIndex
  <2>2. active \in Index BY DEF PayloadWithWindowOverrides
  <2>3. override \in Indices \cup {PendingIndex} /\ guard.index \in Indices
    BY FieldsOfShown DEF IInv, Coherent, ShownType, GuardType, NoGuard, Indices
  <2>4. CASE override \in Index
    <3>1. active = override
      BY <1>1, <2>4, FieldsOfShown DEF PayloadWithWindowOverrides, DisplayActiveIndex
    <3>2. guard.index \in {active, NoIndex}
      BY <2>4, <3>1, FieldsOfShown DEF IInv, Coherent, GuardCoherent
    <3> QED BY <1>3, <2>1, <2>2, <3>1, <3>2
  <2>5. CASE override = NoIndex
    <3>1. guard.index \in Index => active = guard.index
      BY <2>5, FieldsOfShown DEF PayloadWithWindowOverrides, DisplayActiveIndex
    <3> QED BY <1>1, <1>3, <2>1, <2>2, <2>3, <2>5, <3>1 DEF Indices
  <2>6. CASE override = PendingIndex
    <3>1. guard = NoGuard BY <2>6, FieldsOfShown DEF IInv, Coherent, GuardCoherent
    <3> QED BY <1>1, <1>3, <2>1, <2>2, <2>6, <3>1 DEF NoGuard
  <2> QED BY <2>3, <2>4, <2>5, <2>6 DEF Indices
<1> QED BY <1>2, <1>3

LEMMA ReadbackAnswersStep ==
  ASSUME IInv, NEW r \in readbacks, NEW i \in Index, ReadbackAnswers(r, i)
  PROVE  IInv' /\ Steady
<1> DEFINE p == ApplySignals(Shown, i)
           active == ReadIndex(r, i)
<1>1. Of(r, sequence) /\ r \in ReadbackType
  BY DEF ReadbackAnswers, Superseded, IInv, UnderWayTyped
<1>2. /\ Coherent(p, sequence) /\ SameMask(p, Shown)
      /\ p.override = override /\ p.guard = guard
      /\ p.metadata = PayloadWithWindowOverrides(Shown, i)
  BY ApplySignalsKeeps, FieldsOfShown DEF IInv
<1>3. sequence' = sequence /\ UNCHANGED <<posts, paints, link, setbacks>>
  BY DEF ReadbackAnswers
<1>4. CASE Confirms(r, active)
  <2> DEFINE c == ConfirmOverride(p, active, sequence)
             m == [c EXCEPT !.metadata = active]
             q == PaintBarrier(m, sequence)
  <2>1. SetShown(q) /\ readbacks' = readbacks \ {r} BY <1>4 DEF ReadbackAnswers
  <2>2. /\ active \in Index /\ active = PayloadWithWindowOverrides(Shown, i)
        /\ guard.index \in {active, NoIndex}
        /\ override \in Index => override = active
        /\ r.expected # NoIndex => active = r.expected
    BY <1>1, <1>4, ConfirmingIndex
  <2> HIDE DEF p, active
  <2>3. sequence \in 0 .. MaxSequence BY DEF IInv, UnderWayTyped
  <2>4. Coherent(c, sequence) /\ SameMask(c, p) /\ c.override = active /\ c.guard = guard
    BY <1>2, <2>2, <2>3, ConfirmOverrideKeeps
  <2> HIDE DEF c
  <2>5. active # NoIndex /\ active # PendingIndex
    BY <2>2, Strings DEF NoIndex, PendingIndex
  <2>6. Coherent(m, sequence) /\ SameMask(m, c) /\ m.override = active /\ m.guard = guard
    BY <2>2, <2>4, <2>5, MetadataKeeps DEF DisplayActiveIndex
  <2> HIDE DEF m
  <2>7. Coherent(q, sequence) /\ SameHighlight(q, m) /\ SameTarget(q, m)
    BY <2>6, PaintBarrierKeeps
  <2>8. Shown' = q BY <2>1, <2>7, SetShownIs DEF Coherent
  <2> HIDE DEF q
  <2>9. SameTarget(q, Shown) BY <1>2, <2>4, <2>6, <2>7 DEF SameMask, SameTarget
  <2>10. q.override = active /\ q.guard = guard BY <2>6, <2>7 DEF SameHighlight
  <2>11. ASSUME NEW x \in Indices, TargetIs(x)
         PROVE  /\ \A o \in readbacks' : Of(o, sequence) => o.expected = x
                /\ x # NoIndex => Stands(q, x)
    <3>1. r.expected = x BY <1>1, <2>11 DEF TargetIs
    <3>2. x # NoIndex => Stands(q, x) BY <2>2, <2>10, <3>1 DEF Stands
    <3> QED BY <2>1, <2>11, <3>2 DEF TargetIs
  <2>12. UnderWayTyped' BY <1>3, <2>1, NothingAdded DEF IInv, UnderWayTyped
  <2> QED BY <1>3, <2>2, <2>5, <2>7, <2>8, <2>9, <2>10, <2>11, <2>12, WithinSwitch
<1>5. CASE ~Confirms(r, active) /\ LastAttempt(r)
  <2> DEFINE q == Stall(p, sequence)
  <2>1. SetShown(q) /\ readbacks' = readbacks \ {r} BY <1>5 DEF ReadbackAnswers
  <2>2. override # PendingIndex
    BY <1>1, <1>5, ReadbackStands DEF Confirms, AcceptsRelative
  <2> HIDE DEF p
  <2>3. Coherent(q, sequence) /\ SameHighlight(q, p) /\ SameTarget(q, p)
    BY <1>2, StallKeeps
  <2>4. Shown' = q BY <2>1, <2>3, SetShownIs DEF Coherent
  <2> HIDE DEF q
  <2>5. q.override = override /\ q.guard = guard BY <1>2, <2>3 DEF SameHighlight
  <2>6. SameTarget(q, Shown) BY <1>2, <2>3 DEF SameMask, SameTarget
  <2>7. ASSUME NEW x \in Indices, TargetIs(x)
        PROVE  /\ \A o \in readbacks' : Of(o, sequence) => o.expected = x
               /\ x # NoIndex => Stands(q, x)
    BY <2>1, <2>5, <2>7, FieldsOfShown DEF TargetIs, Stands
  <2>8. UnderWayTyped' BY <1>3, <2>1, NothingAdded DEF IInv, UnderWayTyped
  <2> QED BY <1>3, <2>2, <2>3, <2>4, <2>5, <2>6, <2>7, <2>8, WithinSwitch
<1>6. CASE ~Confirms(r, active) /\ ~LastAttempt(r)
  <2>1. SetShown(p) /\ readbacks' = (readbacks \ {r}) \cup {Again(r)}
    BY <1>6 DEF ReadbackAnswers
  <2>2. Shown' = p BY <1>2, <2>1, SetShownIs DEF Coherent
  <2> HIDE DEF p
  <2>3. /\ Again(r) \in ReadbackType /\ Again(r).sequence = sequence
        /\ Again(r).expected = r.expected
    BY <1>1, <1>6, AgainTyped DEF Of
  <2>4. UnderWayTyped' BY <1>3, <2>1, <2>3, MoreUnderWay, SwitchConstants DEF IInv, UnderWayTyped
  <2>5. SameTarget(p, Shown) BY <1>2 DEF SameMask, SameTarget
  <2>6. /\ \A a \in readbacks' : Of(a, sequence) =>
              \E o \in readbacks : Of(o, sequence) /\ o.expected = a.expected
        /\ \E a \in readbacks' : Of(a, sequence)
    BY <1>1, <2>1, <2>3 DEF Of
  <2> QED BY <1>2, <1>3, <2>2, <2>4, <2>5, <2>6, QuietStep
<1> QED BY <1>4, <1>5, <1>6

LEMMA ReconcileKeeps ==
  ASSUME IInv, NEW r \in readbacks, Of(r, sequence)
  PROVE  LET q == Reconcile(Shown, r.expected)
         IN  /\ Coherent(q, sequence) /\ SameMask(q, Shown) /\ q.guard = guard
             /\ q.override # PendingIndex
             /\ override # PendingIndex => q.override = override
             /\ override = PendingIndex => r.expected = NoIndex
<1> DEFINE q == Reconcile(Shown, r.expected)
           c == ConfirmOverride(Shown, metadata, sequence)
<1>1. /\ NoIndex \notin Index /\ PendingIndex \notin Index /\ NoIndex # PendingIndex
      /\ metadata \in Index /\ sequence \in 0 .. MaxSequence
      /\ override \in Indices \cup {PendingIndex}
  BY Strings, FieldsOfShown
     DEF NoIndex, PendingIndex, IInv, Coherent, ShownType, UnderWayTyped
<1>2. override = PendingIndex => r.expected = NoIndex BY ReadbackStands
<1>3. ASSUME guard.index \in {metadata, NoIndex}
      PROVE  Coherent(c, sequence) /\ SameMask(c, Shown) /\ c.override = metadata /\ c.guard = guard
  BY <1>1, <1>3, ConfirmOverrideKeeps, FieldsOfShown DEF IInv
<1>4. CASE override = PendingIndex
  <2>1. q = c BY <1>4, FieldsOfShown DEF Reconcile
  <2>2. guard.index = NoIndex
    BY <1>4, FieldsOfShown DEF IInv, Coherent, GuardCoherent, NoGuard
  <2> QED BY <1>1, <1>2, <1>3, <1>4, <2>1, <2>2
<1>5. CASE override # PendingIndex /\ q = c /\ override \in Index
  <2>1. metadata = override
    BY <1>1, <1>5, FieldsOfShown DEF IInv, Coherent, DisplayCoherent, DisplayActiveIndex
  <2>2. guard.index \in {metadata, NoIndex}
    BY <1>5, <2>1, FieldsOfShown DEF IInv, Coherent, GuardCoherent
  <2> QED BY <1>1, <1>3, <1>5, <2>1, <2>2
<1>6. CASE override # PendingIndex /\ q = Shown
  BY <1>6, FieldsOfShown DEF IInv, SameMask
<1>7. (q = c /\ override # NoIndex) \/ q = Shown BY <1>1, FieldsOfShown DEF Reconcile
<1> QED BY <1>1, <1>4, <1>5, <1>6, <1>7 DEF Indices

LEMMA ReadbackFailsStep ==
  ASSUME IInv, NEW r \in readbacks, ReadbackFails(r) PROVE IInv' /\ Steady
<1>1. Of(r, sequence) /\ r \in ReadbackType
  BY DEF ReadbackFails, Superseded, IInv, UnderWayTyped
<1>2. sequence' = sequence /\ UNCHANGED <<posts, paints, link>> /\ Setback
  BY DEF ReadbackFails
<1>3. CASE LastAttempt(r)
  <2> DEFINE p == Reconcile(Shown, r.expected)
             q == IF LoadingIsOf(p, sequence) THEN Stall(p, sequence) ELSE ClearMask(p, sequence)
  <2>1. SetShown(q) /\ readbacks' = readbacks \ {r} BY <1>3 DEF ReadbackFails
  <2>2. /\ Coherent(p, sequence) /\ SameMask(p, Shown) /\ p.guard = guard
        /\ p.override # PendingIndex
        /\ override # PendingIndex => p.override = override
        /\ override = PendingIndex => r.expected = NoIndex
    BY <1>1, ReconcileKeeps
  <2> HIDE DEF p
  <2>3. Coherent(q, sequence) /\ SameHighlight(q, p) /\ SameTarget(q, p)
    BY <2>2, StallKeeps, ClearMaskKeeps, LoadsCoherently
  <2>4. Shown' = q BY <2>1, <2>3, SetShownIs DEF Coherent
  <2> HIDE DEF q
  <2>5. q.override = p.override /\ q.guard = guard BY <2>2, <2>3 DEF SameHighlight
  <2>6. SameTarget(q, Shown) BY <2>2, <2>3 DEF SameMask, SameTarget
  <2>7. ASSUME NEW x \in Indices, TargetIs(x)
        PROVE  /\ \A o \in readbacks' : Of(o, sequence) => o.expected = x
               /\ x # NoIndex => Stands(q, x)
    <3>1. r.expected = x BY <1>1, <2>7 DEF TargetIs
    <3>2. x # NoIndex => Stands(q, x)
      BY <2>2, <2>5, <2>7, <3>1, FieldsOfShown DEF TargetIs, Stands
    <3> QED BY <2>1, <2>7, <3>2 DEF TargetIs
  <2>8. UnderWayTyped' BY <1>2, <2>1, NothingAdded DEF IInv, UnderWayTyped
  <2>9. override \in Index /\ q.override \in Index => q.override = override
    BY <2>2, <2>5, Strings DEF PendingIndex
  <2> QED BY <1>2, <2>2, <2>3, <2>4, <2>5, <2>6, <2>7, <2>8, <2>9, WithinSwitch
<1>4. CASE ~LastAttempt(r)
  <2>1. UNCHANGED shownVars /\ readbacks' = (readbacks \ {r}) \cup {Again(r)}
    BY <1>4 DEF ReadbackFails
  <2>2. Shown' = Shown BY <2>1, ShownStays
  <2>3. /\ Again(r) \in ReadbackType /\ Again(r).sequence = sequence
        /\ Again(r).expected = r.expected
    BY <1>1, <1>4, AgainTyped DEF Of
  <2>4. UnderWayTyped' BY <1>2, <2>1, <2>3, MoreUnderWay, SwitchConstants DEF IInv, UnderWayTyped
  <2>5. SameTarget(Shown, Shown) BY DEF SameTarget
  <2>6. /\ \A a \in readbacks' : Of(a, sequence) =>
              \E o \in readbacks : Of(o, sequence) /\ o.expected = a.expected
        /\ \E a \in readbacks' : Of(a, sequence)
    BY <1>1, <2>1, <2>3 DEF Of
  <2> QED BY <1>2, <2>2, <2>4, <2>5, <2>6, QuietStep, FieldsOfShown DEF IInv
<1> QED BY <1>3, <1>4

-----------------------------------------------------------------------------
(* The invariant and what follows from it.                                 *)

LEMMA IInvInit ==
  ASSUME SwitchInit PROVE IInv
<1>1. UnderWayTyped BY SwitchConstants DEF SwitchInit, UnderWayTyped
<1>2. Shown \in ShownType
  BY DEF SwitchInit, Shown, ShownType, Indices, GuardType, LoadingType, MaskType
<1>3. NoIndex \notin Index /\ NoIndex # PendingIndex BY Strings DEF NoIndex, PendingIndex
<1>4. GuardCoherent(Shown, sequence) /\ DisplayCoherent(Shown)
  BY <1>3, FieldsOfShown
     DEF SwitchInit, GuardCoherent, DisplayCoherent, DisplayActiveIndex, NoGuard
<1>5. MaskCoherent(Shown, sequence)
  BY FieldsOfShown DEF SwitchInit, MaskCoherent, NoMask, Masking
<1>6. TargetIs(NoIndex) /\ NoIndex \in Indices BY DEF SwitchInit, TargetIs, Indices
<1>7. PendingIsAwaited BY <1>3 DEF SwitchInit, PendingIsAwaited
<1> QED BY <1>1, <1>2, <1>4, <1>5, <1>6, <1>7 DEF IInv, Coherent, OneTarget

LEMMA IInvStep ==
  ASSUME IInv, [SwitchNext]_switchVars PROVE IInv' /\ Steady
<1>1. CASE SwitchUser
  BY <1>1, ClickWindowStep, TypeWindowStep, ClickRelativeStep, TypeRelativeStep,
     RetryStep, CancelStep DEF SwitchUser
<1>2. CASE SwitchAnswers
  BY <1>2, PostSucceedsStep, PostFailsStep, SupersededStep, ReadbackFailsStep,
     ReadbackAnswersStep, PayloadSteps DEF SwitchAnswers
<1>3. CASE SwitchTimers
  BY <1>3, RevealTimeoutStep, PaintCapStep, GuardExpiresStep, HoldEndsStep, FinishPaintStep
  DEF SwitchTimers
<1>4. CASE SwitchSocket
  BY <1>4, TerminalFrameStep, LinkBreaksStep, LinkOpensStep DEF SwitchSocket
<1>5. CASE UNCHANGED switchVars
  BY <1>5, NothingShownStep DEF switchVars, IInv, UnderWayTyped
<1> QED BY <1>1, <1>2, <1>3, <1>4, <1>5 DEF SwitchNext

LEMMA IInvHolds == SwitchSpec => []IInv
<1>1. SwitchInit => IInv BY IInvInit
<1>2. IInv /\ [SwitchNext]_switchVars => IInv' BY IInvStep
<1> QED BY <1>1, <1>2, PTL DEF SwitchSpec

(***************************************************************************)
(* A switch that is not confirmed hides the old window, unless a reconnect *)
(* replaced its mask.                                                      *)
(***************************************************************************)
THEOREM OldScreenHiddenHolds == SwitchSpec => []OldScreenHidden
<1>1. IInv => OldScreenHidden
  BY FieldsOfShown DEF IInv, Coherent, MaskCoherent, OldScreenHidden, NoLoading
<1> QED BY <1>1, IInvHolds, PTL

(***************************************************************************)
(* Every mask is one that its paint, its timer, Retry or Cancel ends.      *)
(***************************************************************************)
THEOREM MaskCanEndHolds == SwitchSpec => []MaskCanEnd
<1>1. IInv => MaskCanEnd
  BY FieldsOfShown DEF IInv, Coherent, MaskCoherent, MaskCanEnd, LoadingIsOf, Of
<1> QED BY <1>1, IInvHolds, PTL

(***************************************************************************)
(* While no window is highlighted a readback of the newest switch is on    *)
(* its way.                                                                *)
(***************************************************************************)
THEOREM PendingIsAwaitedHolds == SwitchSpec => []PendingIsAwaited
<1>1. IInv => PendingIsAwaited BY DEF IInv
<1> QED BY <1>1, IInvHolds, PTL

(***************************************************************************)
(* The window that is highlighted is the one whose metadata is shown.      *)
(***************************************************************************)
THEOREM HighlightIsShownHolds == SwitchSpec => []HighlightIsShown
<1>1. IInv => HighlightIsShown
  BY FieldsOfShown DEF IInv, Coherent, DisplayCoherent, HighlightIsShown
<1> QED BY <1>1, IInvHolds, PTL

(***************************************************************************)
(* Within a switch the highlight never jumps from one window to another.   *)
(***************************************************************************)
THEOREM HighlightNeverJumpsHolds == SwitchSpec => HighlightNeverJumps
<1>1. IInv /\ [SwitchNext]_switchVars =>
        [sequence' = sequence /\ override \in Index /\ override' \in Index
           => override' = override]_switchVars
  BY IInvStep DEF Steady
<1> QED BY <1>1, IInvHolds, PTL DEF SwitchSpec, HighlightNeverJumps

(***************************************************************************)
(* The page's record of the switch, and what is under way for it, keep to  *)
(* their values, and no readback has more attempts than it may.            *)
(***************************************************************************)
THEOREM SwitchTypeOKHolds == SwitchSpec => []SwitchTypeOK
<1>1. IInv => SwitchTypeOK
  BY DEF IInv, UnderWayTyped, Coherent, Shown, ShownType, GuardType, LoadingType, MaskType,
         HoldType, PostType, ReadbackType, Indices, SwitchTypeOK
<1> QED BY <1>1, IInvHolds, PTL
=============================================================================
