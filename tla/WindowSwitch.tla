---------------------------- MODULE WindowSwitch ----------------------------
(***************************************************************************)
(* Switching the tmux window of one session.  A click shows its target at  *)
(* once: the override moves the highlight and an opaque mask hides the     *)
(* terminal until the switch is confirmed.  Behind it run the request to   *)
(* tmux, readbacks of tmux's active window, the mask's timers, the frames  *)
(* of the terminal's socket and the payloads the server pushes; a second   *)
(* click may come at any moment, and the sequence tells what is stale.     *)
(*                                                                         *)
(* tmux is the environment: other clients switch its window, and an answer *)
(* may be of any age, so each names any window.  The session exists, with  *)
(* every window of Index.                                                  *)
(*                                                                         *)
(* Source: 78_panel_shell.js, 99_terminal_boot.js, 70_layout_actions.js.   *)
(***************************************************************************)
EXTENDS Naturals

CONSTANTS Index,          \* the windows
          ReadbackMaxAttempts, \* tmuxWindowReadbackMaxAttempts
          MaxSequence,    \* bound: how many switches and cancels there are
          MaxSetbacks     \* bound: how often a request or a readback fails, the socket
                          \*   breaks, the user retries

VARIABLES metadata,       \* the active window in transcriptMetadataState.payload
          override,       \* record.activeIndexOverride
          sequence,       \* record.sequence
          guard,          \* record.directTargetGuard
          loading,        \* record.switchLoading
          mask,           \* the terminal's connection state node
          posts,          \* POSTs of /api/tmux-window without an answer
          readbacks,      \* readbacks that wait for their delay or for their answer
          holds,          \* the timers of tmuxWindowConfirmedOverrideHoldMs
          paints,         \* the switches a paint frame is due for
          link,           \* the terminal's socket
          replaced,       \* history: a reconnect took the place of the mask
          setbacks        \* how many there were

shownVars == <<metadata, override, guard, loading, mask, holds, replaced>>
switchVars == <<shownVars, sequence, posts, readbacks, paints, link, setbacks>>

ASSUME SwitchConstants ==
  /\ "none" \notin Index /\ "pending" \notin Index
  /\ ReadbackMaxAttempts \in Nat \ {0}
  /\ MaxSequence \in Nat
  /\ MaxSetbacks \in Nat

NoIndex == "none"
PendingIndex == "pending"        \* tmuxWindowPendingActiveIndex
NoGuard == [index |-> NoIndex]
NoLoading == [phase |-> "none"]
NoMask == [state |-> "none"]
Masking == {"switching", "switch-stalled"}
Generic == 0                \* the sequence of what belongs to no switch

SwitchInit ==
  /\ metadata \in Index
  /\ override = NoIndex
  /\ sequence = 0
  /\ guard = NoGuard
  /\ loading = NoLoading
  /\ mask = NoMask
  /\ posts = {} /\ readbacks = {} /\ holds = {} /\ paints = {}
  /\ link = "open"
  /\ replaced = FALSE
  /\ setbacks = 0

-----------------------------------------------------------------------------
(* What a step does to the page is built from functions of its record p.   *)

Shown == [metadata |-> metadata, override |-> override, guard |-> guard,
         loading |-> loading, mask |-> mask, holds |-> holds, replaced |-> replaced]
SetShown(p) ==
  /\ metadata' = p.metadata
  /\ override' = p.override /\ guard' = p.guard
  /\ loading' = p.loading /\ mask' = p.mask
  /\ holds' = p.holds /\ replaced' = p.replaced

(***************************************************************************)
(* tmuxWindowDisplayActiveIndex: the override, or the guard of the last    *)
(* direct switch; NoIndex leaves it to the payload.                        *)
(***************************************************************************)
DisplayActiveIndex(p) == IF p.override # NoIndex THEN p.override ELSE p.guard.index

(***************************************************************************)
(* showTerminalConnectionState for the mask of a switch, and               *)
(* clearTerminalConnectionState with the sequence of one.                  *)
(***************************************************************************)
ShowMask(p, state, s) == [p EXCEPT !.mask = [state |-> state, sequence |-> s], !.replaced = FALSE]
Of(x, s) == x.sequence = s
MaskIsOf(p, s) == p.mask.state \in Masking /\ Of(p.mask, s)
ClearMask(p, s) == [p EXCEPT !.mask = IF MaskIsOf(p, s) THEN NoMask ELSE @]
\* Without a sequence it lifts ordinary states only.
\* Wrong variant: any state.
ClearAnyState(p) == [p EXCEPT !.mask = NoMask]
ClearConnectionState(p) == [p EXCEPT !.mask = IF @.state \in Masking THEN @ ELSE NoMask]

(***************************************************************************)
(* beginTmuxWindowSwitchLoading and stallTmuxWindowSwitchLoading.          *)
(***************************************************************************)
BeginLoading(p, s, expected) ==
  ShowMask([p EXCEPT !.loading = [phase |-> "requested", sequence |-> s, expected |-> expected,
                                  timer |-> TRUE]], "switching", s)
LoadingIsOf(p, s) == p.loading # NoLoading /\ Of(p.loading, s)
Stall(p, s) ==
  IF LoadingIsOf(p, s) /\ s = sequence
    THEN ShowMask([p EXCEPT !.loading.timer = FALSE], "switch-stalled", s)
    ELSE p

(***************************************************************************)
(* beginTmuxWindowSwitchPaintBarrier: the switch is confirmed; with none   *)
(* to confirm, the mask of the sequence is lifted.                         *)
(***************************************************************************)
PaintBarrier(p, s) ==
  IF LoadingIsOf(p, s) /\ s = sequence THEN [p EXCEPT !.loading.phase = "confirmed"]
  ELSE ClearMask(p, s)

(***************************************************************************)
(* confirmTmuxWindowActiveIndexOverride: a raw payload confirms without a  *)
(* sequence.                                                               *)
(***************************************************************************)
ConfirmOverride(p, index, s) ==
  [p EXCEPT !.override = index, !.holds = @ \cup {[sequence |-> s, index |-> index]}]

(***************************************************************************)
(* clearTmuxWindowActiveIndexOverride with clearDirectTarget.              *)
(***************************************************************************)
ClearOverride(p, s) ==
  [p EXCEPT !.override = NoIndex,
            !.guard = IF @ # NoGuard /\ Of(@, s) THEN NoGuard ELSE @]

(***************************************************************************)
(* applyTmuxSignalsPayload: tmux's window gives way to the one displayed,  *)
(* and the payload as it came confirms an override it agrees with.         *)
(***************************************************************************)
\* Wrong variant: the payload is shown as it came.
RawPayload(p, index) == index
PayloadWithWindowOverrides(p, index) ==
  IF DisplayActiveIndex(p) \in Index THEN DisplayActiveIndex(p) ELSE index
ApplySignals(p, index) ==
  LET q == [p EXCEPT !.metadata = PayloadWithWindowOverrides(p, index)]
  IN  IF p.override = index THEN ConfirmOverride(q, index, Generic) ELSE q

-----------------------------------------------------------------------------
(* Switches.                                                               *)

Setback == setbacks < MaxSetbacks /\ setbacks' = setbacks + 1
NewSequence == sequence < MaxSequence /\ sequence' = sequence + 1
\* What the timers of an older switch find is not theirs to release.
Lasting == {h \in holds : Of(h, Generic)}
Readback(s, expected, previous) ==
  [sequence |-> s, expected |-> expected, previous |-> previous, attempt |-> 0]

(***************************************************************************)
(* setTmuxWindowActiveIndexOverride, setTmuxWindowActiveIndexPending.      *)
(***************************************************************************)
SetOverride(index) ==
  [Shown EXCEPT !.override = index, !.guard = [index |-> index, sequence |-> sequence'],
               !.metadata = index, !.holds = Lasting]
SetPending == [Shown EXCEPT !.override = PendingIndex, !.guard = NoGuard, !.holds = Lasting]

(***************************************************************************)
(* tmuxWindow of a window's button: the request is sent.                   *)
(***************************************************************************)
ClickWindow(index) ==
  /\ NewSequence
  /\ SetShown(BeginLoading(SetOverride(index), sequence', index))
  /\ posts' = posts \cup {[sequence |-> sequence', index |-> index, previous |-> metadata]}
  /\ UNCHANGED <<readbacks, paints, link, setbacks>>

(***************************************************************************)
(* tmuxWindow of next, previous, last: sent as a keystroke, which confirms *)
(* the switch at once.                                                     *)
(***************************************************************************)
ClickRelative ==
  /\ link = "open"
  /\ NewSequence
  /\ SetShown([BeginLoading(SetPending, sequence', NoIndex) EXCEPT !.loading.phase = "confirmed"])
  /\ readbacks' = readbacks \cup {Readback(sequence', NoIndex, metadata)}
  /\ UNCHANGED <<posts, paints, link, setbacks>>

(***************************************************************************)
(* noteTerminalTmuxWindowSwitch: the keystrokes were typed in the terminal *)
(* and only a readback confirms them.                                      *)
(***************************************************************************)
TypeWindow(index) ==
  /\ NewSequence
  /\ SetShown(BeginLoading(SetOverride(index), sequence', index))
  /\ readbacks' = readbacks \cup {Readback(sequence', index, NoIndex)}
  /\ UNCHANGED <<posts, paints, link, setbacks>>
TypeRelative ==
  /\ NewSequence
  /\ SetShown(BeginLoading(SetPending, sequence', NoIndex))
  /\ readbacks' = readbacks \cup {Readback(sequence', NoIndex, metadata)}
  /\ UNCHANGED <<posts, paints, link, setbacks>>

(***************************************************************************)
(* The answer to a request; of a switch that is not the newest it is       *)
(* ignored.  A failure restores the session's info as it was at the click, *)
(* unless the override has been released.                                  *)
(***************************************************************************)
PostSucceeds(post) ==
  /\ post \in posts
  /\ posts' = posts \ {post}
  /\ IF Of(post, sequence)
       THEN /\ SetShown(PaintBarrier(Shown, sequence))
            /\ readbacks' = readbacks \cup {Readback(sequence, post.index, NoIndex)}
       ELSE UNCHANGED <<shownVars, readbacks>>
  /\ UNCHANGED <<sequence, paints, link, setbacks>>

PostFails(post) ==
  /\ post \in posts
  /\ Setback
  /\ posts' = posts \ {post}
  /\ IF ~Of(post, sequence) THEN UNCHANGED shownVars
     ELSE LET p == ClearOverride(Shown, sequence)
          IN  SetShown(IF override = NoIndex THEN p
                      ELSE ClearMask([p EXCEPT !.loading = NoLoading, !.metadata = post.previous],
                                     sequence))
  /\ UNCHANGED <<sequence, readbacks, paints, link>>

-----------------------------------------------------------------------------
(* Readbacks.                                                              *)

\* Wrong variant: the readback of an older switch still counts.
NeverSuperseded(r) == FALSE
Superseded(r) == ~Of(r, sequence)
\* Wrong variant: one attempt too many.
OneMoreAttempt(r) == r.attempt + 1 > ReadbackMaxAttempts
LastAttempt(r) == r.attempt + 1 >= ReadbackMaxAttempts
Again(r) == [r EXCEPT !.attempt = @ + 1]

\* Superseded, it is not asked, or its answer is ignored.
SupersededReadback(r) ==
  /\ r \in readbacks /\ Superseded(r)
  /\ readbacks' = readbacks \ {r}
  /\ UNCHANGED <<shownVars, sequence, posts, paints, link, setbacks>>

(***************************************************************************)
(* refreshTmuxWindowActiveFromSignals: what the payload shows confirms the *)
(* switch; a direct one is confirmed by its target alone, in the payload   *)
(* as it came, and a relative one by another window than the previous one, *)
(* until the last attempt takes any.                                       *)
(***************************************************************************)
\* Wrong variant: the last attempt still waits for another window.
AcceptsChanged(r, index) == index # r.previous
AcceptsRelative(r, index) == index # r.previous \/ LastAttempt(r)
ReadIndex(r, index) ==
  IF r.expected # NoIndex THEN index ELSE PayloadWithWindowOverrides(Shown, index)
Confirms(r, index) ==
  IF r.expected # NoIndex THEN index = r.expected ELSE AcceptsRelative(r, index)

ReadbackAnswers(r, index) ==
  /\ r \in readbacks /\ ~Superseded(r)
  /\ LET p == ApplySignals(Shown, index)
         active == ReadIndex(r, index)
     IN  IF Confirms(r, active)
           THEN /\ LET q == ConfirmOverride(p, active, sequence)
                   IN  SetShown(PaintBarrier([q EXCEPT !.metadata = active], sequence))
                /\ readbacks' = readbacks \ {r}
         ELSE IF LastAttempt(r)
           THEN SetShown(Stall(p, sequence)) /\ readbacks' = readbacks \ {r}
         ELSE SetShown(p) /\ readbacks' = (readbacks \ {r}) \cup {Again(r)}
  /\ UNCHANGED <<sequence, posts, paints, link, setbacks>>

(***************************************************************************)
(* A readback that fails: the last one has the page's own copy confirm     *)
(* the switch (reconcileTmuxWindowActiveIndexOverride).                    *)
(***************************************************************************)
Reconcile(p, expected) ==
  LET target == IF expected # NoIndex THEN expected ELSE p.override
  IN  IF p.override = PendingIndex \/ (p.override # NoIndex /\ p.metadata = target)
        THEN ConfirmOverride(p, p.metadata, sequence) ELSE p
ReadbackFails(r) ==
  /\ r \in readbacks /\ ~Superseded(r)
  /\ Setback
  /\ IF LastAttempt(r)
       THEN LET p == Reconcile(Shown, r.expected)
            IN  /\ SetShown(IF LoadingIsOf(p, sequence) THEN Stall(p, sequence)
                            ELSE ClearMask(p, sequence))
                /\ readbacks' = readbacks \ {r}
       ELSE /\ readbacks' = (readbacks \ {r}) \cup {Again(r)}
            /\ UNCHANGED shownVars
  /\ UNCHANGED <<sequence, posts, paints, link>>

-----------------------------------------------------------------------------
(* Payloads and timers of the highlight.                                   *)

PushSignals(index) ==
  /\ SetShown(ApplySignals(Shown, index))
  /\ UNCHANGED <<sequence, posts, readbacks, paints, link, setbacks>>

(***************************************************************************)
(* transcriptPayloadWithTmuxWindowOverrides: it gives way to what is       *)
(* displayed, and confirms nothing.  Where nothing is, the window of the   *)
(* signals that came before it is of any age too.                          *)
(***************************************************************************)
MetadataArrives(index) ==
  /\ metadata' = PayloadWithWindowOverrides(Shown, index)
  /\ UNCHANGED <<override, guard, loading, mask, holds, replaced, sequence, posts,
                 readbacks, paints, link, setbacks>>

(***************************************************************************)
(* A confirmed override is released once the metadata agrees; the guard    *)
(* outlives it.                                                            *)
(***************************************************************************)
HoldEnds(h) ==
  /\ h \in holds
  /\ holds' = holds \ {h}
  /\ override' = IF h.sequence \in {Generic, sequence} /\ override = h.index /\ metadata = h.index
                   THEN NoIndex ELSE override
  /\ UNCHANGED <<metadata, guard, loading, mask, replaced, sequence, posts, readbacks,
                 paints, link, setbacks>>

GuardExpires ==
  /\ guard # NoGuard
  /\ guard' = NoGuard
  /\ UNCHANGED <<metadata, override, loading, mask, holds, replaced, sequence, posts,
                 readbacks, paints, link, setbacks>>

-----------------------------------------------------------------------------
(* The mask.                                                               *)

RevealTimeout ==
  /\ loading # NoLoading /\ loading.timer
  /\ SetShown(Stall(Shown, loading.sequence))
  /\ UNCHANGED <<sequence, posts, readbacks, paints, link, setbacks>>

(***************************************************************************)
(* The buttons of a stalled mask: retryTmuxWindowSwitchLoading and         *)
(* cancelTmuxWindowSwitchLoading.                                          *)
(***************************************************************************)
Stalled == mask.state = "switch-stalled" /\ loading # NoLoading /\ Of(loading, sequence)
Retry ==
  /\ Stalled
  /\ Setback
  /\ SetShown(PaintBarrier(BeginLoading(Shown, sequence, loading.expected), sequence))
  /\ readbacks' = readbacks \cup {Readback(sequence, loading.expected, NoIndex)}
  /\ UNCHANGED <<sequence, posts, paints, link>>
Cancel ==
  /\ Stalled
  /\ NewSequence
  /\ SetShown(ClearOverride(ClearMask([Shown EXCEPT !.loading = NoLoading, !.holds = Lasting],
                                 sequence), sequence))
  /\ readbacks' = readbacks \cup {Readback(sequence', NoIndex, NoIndex)}
  /\ UNCHANGED <<posts, paints, link, setbacks>>

(***************************************************************************)
(* A confirmed switch is painted after the next frame of the socket, or    *)
(* after a short delay without one.                                        *)
(***************************************************************************)
PaintIsDue == IF loading.phase = "confirmed" THEN paints \cup {loading.sequence} ELSE paints
PaintCap ==
  /\ loading.phase = "confirmed"
  /\ paints' = PaintIsDue
  /\ UNCHANGED <<shownVars, sequence, posts, readbacks, link, setbacks>>
TerminalFrame ==
  /\ link = "open"
  /\ SetShown(ClearConnectionState(Shown))
  /\ paints' = PaintIsDue
  /\ UNCHANGED <<sequence, posts, readbacks, link, setbacks>>

\* Wrong variant: a paint frame reveals a switch that is not confirmed.
PaintsAny(s) == loading # NoLoading
Paints(s) == loading.phase = "confirmed" /\ Of(loading, s) /\ s = sequence
FinishPaint(s) ==
  /\ s \in paints
  /\ paints' = paints \ {s}
  /\ IF Paints(s) THEN SetShown([ClearMask(Shown, s) EXCEPT !.loading = NoLoading])
     ELSE UNCHANGED shownVars
  /\ UNCHANGED <<sequence, posts, readbacks, link, setbacks>>

(***************************************************************************)
(* The socket breaks and the session still lives:                          *)
(* scheduleTerminalReconnect shows its own state over whatever is there.   *)
(***************************************************************************)
LinkBreaks ==
  /\ link = "open"
  /\ Setback
  /\ link' = "reconnecting"
  /\ mask' = [state |-> "reconnecting", sequence |-> Generic]
  /\ replaced' = (replaced \/ mask.state \in Masking)
  /\ UNCHANGED <<metadata, override, guard, loading, holds, sequence, posts, readbacks, paints>>
LinkOpens ==
  /\ link = "reconnecting"
  /\ link' = "open"
  /\ SetShown(ClearConnectionState(Shown))
  /\ UNCHANGED <<sequence, posts, readbacks, paints, setbacks>>

-----------------------------------------------------------------------------
SwitchUser ==
  \/ \E i \in Index : ClickWindow(i) \/ TypeWindow(i)
  \/ ClickRelative \/ TypeRelative \/ Retry \/ Cancel
SwitchAnswers ==
  \/ \E p \in posts : PostSucceeds(p) \/ PostFails(p)
  \/ \E r \in readbacks : SupersededReadback(r) \/ ReadbackFails(r)
                            \/ \E i \in Index : ReadbackAnswers(r, i)
  \/ \E i \in Index : PushSignals(i) \/ MetadataArrives(i)
SwitchTimers ==
  \/ RevealTimeout \/ PaintCap \/ GuardExpires
  \/ \E h \in holds : HoldEnds(h)
  \/ \E s \in paints : FinishPaint(s)
SwitchSocket == TerminalFrame \/ LinkBreaks \/ LinkOpens

SwitchNext == SwitchUser \/ SwitchAnswers \/ SwitchTimers \/ SwitchSocket
SwitchSpec == SwitchInit /\ [][SwitchNext]_switchVars
-----------------------------------------------------------------------------
(***************************************************************************)
(* The page's record of the switch keeps to its values.                    *)
(***************************************************************************)
Switches == 1 .. MaxSequence
SwitchTypeOK ==
  /\ metadata \in Index
  /\ override \in Index \cup {NoIndex, PendingIndex}
  /\ sequence \in 0 .. MaxSequence
  /\ guard \in {NoGuard} \cup [index : Index, sequence : Switches]
  /\ loading \in {NoLoading} \cup [phase : {"requested", "confirmed"}, sequence : Switches,
                                   expected : Index \cup {NoIndex}, timer : BOOLEAN]
  /\ mask \in {NoMask} \cup [state : Masking, sequence : Switches]
                \cup [state : {"reconnecting"}, sequence : {Generic}]
  /\ posts \subseteq [sequence : Switches, index : Index, previous : Index]
  /\ readbacks \subseteq [sequence : Switches, expected : Index \cup {NoIndex},
                          previous : Index \cup {NoIndex}, attempt : 0 .. ReadbackMaxAttempts - 1]
  /\ holds \subseteq [sequence : 0 .. MaxSequence, index : Index]
  /\ paints \subseteq Switches
  /\ link \in {"open", "reconnecting"}
  /\ replaced \in BOOLEAN
  /\ setbacks \in 0 .. MaxSetbacks

(***************************************************************************)
(* A switch that is not confirmed hides the old window: no answer, frame,  *)
(* timer or open socket of another switch, or of none, lifts its mask.     *)
(* Apart from the mask that a reconnect replaced (README).                 *)
(***************************************************************************)
OldScreenHidden ==
  loading.phase = "requested" /\ ~replaced => MaskIsOf(Shown, loading.sequence)

(***************************************************************************)
(* A mask can end: it is that of the newest switch, which still loads, so  *)
(* its paint, Retry and Cancel find it; and until it offers those two its  *)
(* timer runs.                                                             *)
(***************************************************************************)
MaskCanEnd ==
  mask.state \in Masking =>
    /\ Of(mask, sequence) /\ LoadingIsOf(Shown, sequence)
    /\ mask.state = "switching" => loading.timer

(***************************************************************************)
(* While no window is highlighted a readback of the newest switch is on    *)
(* its way: the last attempt settles the highlight, whatever it finds.     *)
(***************************************************************************)
PendingIsAwaited ==
  override = PendingIndex => \E r \in readbacks : Of(r, sequence)

(***************************************************************************)
(* The window that is highlighted is the one whose metadata is shown,      *)
(* although payloads of any age arrive.                                    *)
(***************************************************************************)
HighlightIsShown ==
  DisplayActiveIndex(Shown) \in Index => metadata = DisplayActiveIndex(Shown)

(***************************************************************************)
(* Within a switch the highlight never jumps from one window to another:   *)
(* answers to older switches and late payloads do not move it.             *)
(***************************************************************************)
HighlightNeverJumps ==
  [][sequence' = sequence /\ override \in Index /\ override' \in Index
       => override' = override]_switchVars
=============================================================================
