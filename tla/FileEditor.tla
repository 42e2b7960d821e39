----------------------------- MODULE FileEditor -----------------------------
(***************************************************************************)
(* One file open in one editor tab.  The text is edited in the page, saved *)
(* by hand, by a timer or on closing, and the file may be changed on disk  *)
(* by others at any time: the page polls it, reloads a clean editor, warns *)
(* a dirty one, and every answer it awaits (a listing, a read, a save, a   *)
(* dialog) may find the editor in another state than when it was asked.    *)
(*                                                                         *)
(* Texts are numbers: those that save hygiene (trailing blanks, the final  *)
(* newline) makes equal count as one.  A modification time stands for the  *)
(* time and the size the code compares.  Modelled is one poll at a time,   *)
(* the one of refreshWatchedFilesystem, and of the comparison dialog its   *)
(* outcome, which is one of the conflict dialog's.                         *)
(*                                                                         *)
(* Source: 45_file_explorer_actions.js, 92_codemirror_editor.js,           *)
(* 86_changes_editor.js, and io_ops.py for the write on the server.        *)
(***************************************************************************)
EXTENDS Naturals, FiniteSets

CONSTANT FileBudgets   \* bound: how often the user edits, others change the file, a request fails,
                       \*   how many of save, reload and close the user asks for

VARIABLES disk,        \* the file
          doc,         \* fileState.get(path)
          prompt,      \* whether the dialog "changed on disk" is open
          close,       \* how far removeOpenFile is
          timer,       \* whether fileEditorAutosaveTimers has the path
          ack,         \* fileEditorSelfWriteAcks.get(path)
          owner,       \* fileEditorSaveOwners.get(path)
          reload,      \* openFileReloadFlights.get(path)
          poll,        \* refreshOpenFilesIfChanged
          autosave,    \* fileEditorAutosaveEnabled
          texts,       \* how many texts there have been
          unsaved,     \* history: what the user typed last, until it is on disk or given up
          damage,      \* history: how what the user typed was lost
          shown,       \* history: the texts of the file that the page has loaded or written
          fileLeft     \* what is left of the budget

historyVars == <<texts, unsaved, damage, shown>>
pageState == <<doc, prompt, close, timer, ack, owner, reload, poll, autosave>>
fileVars == <<disk, pageState, historyVars, fileLeft>>

Nothing == 0           \* no text; an empty file
FirstTime == 2
NoChange == 0          \* no externalChanged
AtConflict == 1        \* externalChanged as showFileSaveConflictDialog sets it
AnyTime == 0           \* a write without expected_mtime

Document(kind, text, mtime, missing) ==
  [kind |-> kind, content |-> text, original |-> text, mtime |-> mtime, missing |-> missing,
   changed |-> NoChange, error |-> FALSE, prompted |-> FALSE]
NoDocument == Document("none", Nothing, 0, FALSE)
TextState(text, mtime) == Document("text", text, mtime, FALSE)
ErrorState == Document("error", Nothing, 0, FALSE)
MissingFileState == Document("error", Nothing, 0, TRUE)

Request(force, closes) == [asked |-> TRUE, force |-> force, closes |-> closes]
NoRequest == [asked |-> FALSE, force |-> FALSE, closes |-> FALSE]
Due(request) == [phase |-> "due", request |-> request, pending |-> NoRequest]
NoOwner == [phase |-> "none"]
NoReload == [stage |-> "none"]
NoPoll == [stage |-> "none"]
NoAck == [mtime |-> 0, pending |-> FALSE]

Dirty(d) == d.content # d.original
Marked(d) == d.changed # NoChange \/ d.missing \/ d.error
Tab == close # "closed"
Modal == prompt \/ close = "asking" \/ owner.phase = "asking"
FileSpend(what) == fileLeft[what] > 0 /\ fileLeft' = [fileLeft EXCEPT ![what] = @ - 1]

(***************************************************************************)
(* The continuation of a save and that of a close run before the page      *)
(* handles anything else.                                                  *)
(***************************************************************************)
Quiet == owner.phase # "due" /\ close # "confirmed"

FileInit ==
  /\ disk = [there |-> TRUE, text |-> 1, mtime |-> FirstTime]
  /\ doc = TextState(1, FirstTime)
  /\ prompt = FALSE
  /\ close = "open"
  /\ timer = FALSE
  /\ ack = NoAck
  /\ owner = NoOwner
  /\ reload = NoReload
  /\ poll = NoPoll
  /\ autosave \in BOOLEAN
  /\ texts = 1
  /\ unsaved = Nothing
  /\ damage = {}
  /\ shown = {1}
  /\ fileLeft \in FileBudgets

-----------------------------------------------------------------------------
(* What the handlers share.                                                *)

(***************************************************************************)
(* setFileState puts another object in place of doc.  A save and a poll    *)
(* that are under way keep the old one: a save's answer no longer reaches  *)
(* the editor, and a poll judges the disk by what the old object says.     *)
(***************************************************************************)
Detached(o) == IF o.phase = "writing" THEN [o EXCEPT !.holds = FALSE] ELSE o
Released(p) ==
  IF p.stage = "none" \/ p.holds # "current" THEN p
  ELSE [p EXCEPT !.frozen = doc,
                 !.holds = IF owner.phase = "writing" /\ owner.holds THEN "written" ELSE "stale"]

(***************************************************************************)
(* openFileAutosaveReady of the state d, the acknowledgement being a.      *)
(***************************************************************************)
OpenFileAutosaveReady(d, a) ==
  autosave /\ d.kind = "text" /\ Dirty(d) /\ (d.changed = NoChange \/ a # NoAck)
  /\ ~d.missing /\ ~d.error

QueueFileEditorSave(request) ==
  owner' = IF owner.phase = "none" THEN Due(request)
           ELSE [owner EXCEPT !.pending = Request(@.force \/ request.force, @.closes \/ request.closes)]

(***************************************************************************)
(* What resolving a request means to the close that waits for it.          *)
(***************************************************************************)
Resolved(request, result) ==
  CASE ~request.closes -> close
    [] request.closes /\ result -> "confirmed"
    [] OTHER -> IF close = "saving" THEN "asking" ELSE "open"

(***************************************************************************)
(* The end of a round of runFileEditorSaveOwner: the request is resolved,  *)
(* the one that waits is next, and after a save the text typed meanwhile   *)
(* is saved at once.                                                       *)
(***************************************************************************)
Settles(result, d, a) ==
  /\ close' = Resolved(owner.request, result)
  /\ owner' = IF owner.pending.asked THEN Due(owner.pending)
              ELSE IF result /\ OpenFileAutosaveReady(d, a) THEN Due(Request(FALSE, FALSE))
              ELSE NoOwner

\* Wrong variant: the request that waited is not resolved.
ConflictForgetsPending(result) ==
  /\ close' = Resolved(owner.request, result)
  /\ owner' = NoOwner

(***************************************************************************)
(* The end of a conflict that was not overwritten: the owner is gone, and  *)
(* with it the request that waited.                                        *)
(***************************************************************************)
ConflictEnds(result) ==
  /\ close' = IF owner.pending.closes THEN Resolved(owner.pending, FALSE)
              ELSE Resolved(owner.request, result)
  /\ owner' = NoOwner

GivesUp == unsaved' = Nothing

(***************************************************************************)
(* replaceOpenFileStateFromDisk: a reload under way is joined.  A poll     *)
(* brings the entry it has listed; others list the directory first.  safe  *)
(* tells that the state d by which the reload was decided had nothing of   *)
(* the user's that it could replace.                                       *)
(***************************************************************************)
Safe(d) == Dirty(d) => GivesUp
Reloading(entry, safe) ==
  [stage |-> IF entry = 0 THEN "listing" ELSE "reading", entry |-> entry, found |-> NoDocument,
   safe |-> safe]
ReplaceOpenFileStateFromDisk(entry, d) ==
  reload' = IF reload.stage = "none" THEN Reloading(entry, Safe(d)) ELSE reload

-----------------------------------------------------------------------------
(* The file.                                                               *)

Others == <<pageState, unsaved, damage, shown>>

ExternalWrite ==
  /\ ~(owner.phase = "writing" /\ owner.stage = "truncated")
  /\ FileSpend("changes")
  /\ texts' = texts + 1
  /\ disk' = [there |-> TRUE, text |-> texts + 1, mtime |-> disk.mtime + 1]
  /\ UNCHANGED Others

ExternalDelete ==
  /\ ~(owner.phase = "writing" /\ owner.stage = "truncated")
  /\ disk.there
  /\ FileSpend("changes")
  /\ disk' = [disk EXCEPT !.there = FALSE, !.text = Nothing]
  /\ UNCHANGED <<Others, texts>>

(***************************************************************************)
(* write_file.  O_CREAT makes a file that is gone before the time is       *)
(* compared, so that a save that is refused leaves an empty file behind.   *)
(***************************************************************************)
WriteFileChecks ==
  /\ owner.phase = "writing" /\ owner.stage = "sent"
  /\ LET found == IF disk.there THEN disk
                  ELSE [there |-> TRUE, text |-> Nothing, mtime |-> disk.mtime + 1] IN
     IF owner.expected \in {AnyTime, found.mtime}
       THEN /\ disk' = [found EXCEPT !.text = Nothing, !.mtime = @ + 1]
            /\ owner' = [owner EXCEPT !.stage = "truncated"]
            /\ shown' = shown \cup {Nothing}
       ELSE /\ disk' = found
            /\ owner' = [owner EXCEPT !.stage = "refused"]
            /\ UNCHANGED shown
  /\ UNCHANGED <<doc, prompt, close, timer, ack, reload, poll, autosave, texts, unsaved, damage,
                 fileLeft>>

WriteFileWrites ==
  /\ owner.phase = "writing" /\ owner.stage = "truncated"
  /\ disk' = [disk EXCEPT !.text = owner.text, !.mtime = @ + 1]
  /\ owner' = [owner EXCEPT !.stage = "written", !.mtime = disk.mtime + 1]
  /\ shown' = shown \cup {owner.text}
  /\ unsaved' = IF unsaved = owner.text THEN Nothing ELSE unsaved
  /\ UNCHANGED <<doc, prompt, close, timer, ack, reload, poll, autosave, texts, damage, fileLeft>>

-----------------------------------------------------------------------------
(* Editing.                                                                *)

(***************************************************************************)
(* What a save under way has written is no longer to be lost.  The saved   *)
(* text typed again is to be lost as any other when a save of another text *)
(* is under way, or has been written and its answer lost: then the editor  *)
(* counts as clean, and the file has the other text.                       *)
(***************************************************************************)
IsWritten(text) == owner.phase = "writing" /\ owner.stage = "written" /\ owner.text = text
Overtaken(text) == owner.phase = "writing" \/ (disk.there /\ disk.text \in shown \ {text})

(***************************************************************************)
(* handleFileEditorContentChanged: a fresh text, or the saved one again.   *)
(* A file that has changed is reloaded under the edit when the edit leaves *)
(* it clean, and otherwise asked about, once.                              *)
(***************************************************************************)
Type(text) ==
  /\ Quiet /\ ~Modal /\ Tab /\ doc.kind = "text"
  /\ text # doc.content
  /\ FileSpend("edits")
  /\ LET asks == doc.changed # NoChange /\ ~doc.prompted /\ ack = NoAck
         dirty == text # doc.original IN
     /\ doc' = [doc EXCEPT !.content = text, !.prompted = @ \/ (asks /\ dirty)]
     /\ prompt' = (asks /\ dirty)
     /\ unsaved' = IF ~IsWritten(text) /\ (dirty \/ Overtaken(text)) THEN text ELSE Nothing
     /\ IF asks /\ ~dirty
          THEN ReplaceOpenFileStateFromDisk(0, doc')
          ELSE UNCHANGED reload
  /\ timer' = OpenFileAutosaveReady(doc', ack)
  /\ UNCHANGED <<disk, close, ack, owner, poll, autosave, damage, shown>>

HandleFileEditorContentChanged ==
  \/ Type(texts + 1) /\ texts' = texts + 1
  \/ Type(doc.original) /\ UNCHANGED texts

PromptExternalChange(choice) ==
  /\ Quiet /\ prompt
  /\ prompt' = FALSE
  /\ IF choice = "reload"
       THEN IF doc.kind = "none" THEN UNCHANGED <<unsaved, reload>>
            ELSE GivesUp /\ ReplaceOpenFileStateFromDisk(0, doc)
       ELSE UNCHANGED <<unsaved, reload>>
  /\ UNCHANGED <<disk, doc, close, timer, ack, owner, poll, autosave, texts, damage, shown, fileLeft>>

(***************************************************************************)
(* The reload button: a dirty editor asks first.                           *)
(***************************************************************************)
ReloadOpenFileFromDisk ==
  /\ Quiet /\ ~Modal /\ Tab
  /\ FileSpend("clicks")
  /\ GivesUp
  /\ ReplaceOpenFileStateFromDisk(0, doc)
  /\ UNCHANGED <<disk, doc, prompt, close, timer, ack, owner, poll, autosave, texts, damage, shown>>

-----------------------------------------------------------------------------
(* Saving.                                                                 *)

SaveFileEditor ==
  /\ Quiet /\ ~Modal /\ Tab /\ doc.kind = "text"
  /\ FileSpend("clicks")
  /\ QueueFileEditorSave(Request(FALSE, FALSE))
  /\ UNCHANGED <<disk, doc, prompt, close, timer, ack, reload, poll, autosave, historyVars>>

AutoSaveFileEditor ==
  /\ Quiet /\ timer
  /\ timer' = FALSE
  /\ IF OpenFileAutosaveReady(doc, ack) THEN QueueFileEditorSave(Request(FALSE, FALSE))
     ELSE UNCHANGED owner
  /\ UNCHANGED <<disk, doc, prompt, close, ack, reload, poll, autosave, historyVars, fileLeft>>

(***************************************************************************)
(* showFileSaveConflictDialog opens: the state is marked changed.          *)
(***************************************************************************)
AsksAboutConflict ==
  /\ owner' = [phase |-> "asking", request |-> owner.request, pending |-> owner.pending]
  /\ doc' = IF doc.kind # "none" /\ doc.changed = NoChange /\ ~doc.missing
              THEN [doc EXCEPT !.changed = AtConflict] ELSE doc
  /\ UNCHANGED close

(***************************************************************************)
(* performFileEditorSave, up to the request or to what makes one needless. *)
(***************************************************************************)
SaveBlocked == ~owner.request.force /\ ((doc.changed # NoChange /\ ack = NoAck) \/ doc.missing)

PerformNothing(result) ==
  Settles(result, doc, ack) /\ UNCHANGED <<doc, timer, ack, reload>>

PerformReload ==
  /\ owner' = [owner EXCEPT !.phase = "reloading"]
  /\ ReplaceOpenFileStateFromDisk(0, doc)
  /\ UNCHANGED <<doc, close, timer, ack>>

PerformWrite ==
  /\ owner' = [phase |-> "writing", request |-> owner.request, pending |-> owner.pending,
               text |-> doc.content, stage |-> "sent", mtime |-> 0, holds |-> TRUE,
               expected |-> IF owner.request.force THEN AnyTime ELSE doc.mtime]
  /\ ack' = [mtime |-> doc.mtime, pending |-> TRUE]
  /\ UNCHANGED <<doc, close, timer, reload>>

PerformFileEditorSave ==
  /\ owner.phase = "due"
  /\ CASE doc.kind # "text"              -> PerformNothing(FALSE)
       [] doc.kind = "text" /\ SaveBlocked ->
            IF Dirty(doc) THEN AsksAboutConflict /\ timer' = FALSE /\ UNCHANGED <<ack, reload>>
            ELSE PerformReload
       [] OTHER -> IF Dirty(doc) \/ owner.request.force THEN PerformWrite ELSE PerformNothing(TRUE)
  /\ UNCHANGED <<disk, prompt, poll, autosave, historyVars, fileLeft>>

(***************************************************************************)
(* The answer to a save: the state it was made of is clean unless the user *)
(* has typed on, and what a poll has found meanwhile is forgotten.         *)
(***************************************************************************)
SavedState(d) ==
  [d EXCEPT !.mtime = owner.mtime, !.original = owner.text, !.missing = FALSE,
            !.changed = NoChange, !.error = FALSE, !.prompted = FALSE]

SaveAnswered ==
  /\ Quiet /\ owner.phase = "writing" /\ owner.stage = "written"
  /\ doc' = IF owner.holds THEN SavedState(doc) ELSE doc
  /\ poll' = IF poll.stage = "none" \/ poll.holds # "written" THEN poll
             ELSE [poll EXCEPT !.holds = "stale", !.frozen = SavedState(@)]
  /\ ack' = [mtime |-> owner.mtime, pending |-> FALSE]
  /\ timer' = FALSE
  /\ Settles(TRUE, doc', ack')
  /\ UNCHANGED <<disk, prompt, reload, autosave, historyVars, fileLeft>>

(***************************************************************************)
(* A save that fails, or whose answer is lost.  One that was sent on       *)
(* behalf of a tab that has closed was the last that had the text; where   *)
(* the saved text was typed again, the file has it still.                  *)
(***************************************************************************)
LostWithTab ==
  IF ~Tab /\ unsaved # Nothing
    THEN unsaved' = Nothing /\ damage' = damage \cup {"close"}
    ELSE /\ unsaved' = IF disk.there /\ disk.text = unsaved THEN Nothing ELSE unsaved
         /\ UNCHANGED damage

Stale(p) == IF p.stage # "none" /\ p.holds = "written" THEN [p EXCEPT !.holds = "stale"] ELSE p

SaveRefused ==
  /\ Quiet /\ owner.phase = "writing" /\ owner.stage = "refused"
  /\ ack' = NoAck
  /\ poll' = Stale(poll)
  /\ LostWithTab
  /\ AsksAboutConflict
  /\ UNCHANGED <<disk, prompt, timer, reload, autosave, texts, shown, fileLeft>>

SaveFails ==
  /\ Quiet /\ owner.phase = "writing" /\ owner.stage \in {"sent", "written"}
  /\ FileSpend("faults")
  /\ ack' = NoAck
  /\ poll' = Stale(poll)
  /\ LostWithTab
  /\ Settles(FALSE, doc, NoAck)
  /\ UNCHANGED <<disk, doc, prompt, timer, reload, autosave, texts, shown>>

\* Wrong variant: the acknowledgement of a write has no end.
AckStays ==
  /\ Quiet /\ ack # NoAck
  /\ UNCHANGED fileVars

AckExpires ==
  /\ Quiet /\ ack # NoAck
  /\ ack' = NoAck
  /\ UNCHANGED <<disk, doc, prompt, close, timer, owner, reload, poll, autosave, historyVars, fileLeft>>

(***************************************************************************)
(* The answer to the conflict dialog or to the comparison it leads to.     *)
(***************************************************************************)
ResolveConflict(choice) ==
  /\ Quiet /\ owner.phase = "asking"
  /\ CASE choice = "overwrite" ->
            /\ owner' = Due(Request(TRUE, owner.request.closes \/ owner.pending.closes))
            /\ UNCHANGED <<close, reload, unsaved>>
       [] choice = "reload" /\ doc.kind # "none" ->
            /\ owner' = [owner EXCEPT !.phase = "keeping"]
            /\ GivesUp /\ ReplaceOpenFileStateFromDisk(0, doc)
            /\ UNCHANGED close
       [] OTHER -> ConflictEnds(FALSE) /\ UNCHANGED <<reload, unsaved>>
  /\ UNCHANGED <<disk, doc, prompt, timer, ack, poll, autosave, texts, damage, shown, fileLeft>>

-----------------------------------------------------------------------------
(* Loading the file from disk.                                             *)

(***************************************************************************)
(* openFileStateFromDisk: the directory is listed, then the file read.  A  *)
(* file that the listing omits is read all the same                        *)
(* (resolveOpenFileMissingVerdict); one that is gone by the time of the    *)
(* read of a listed file is an error state like any other failure.         *)
(***************************************************************************)
Loads(stage, entry, found) ==
  /\ reload' = [reload EXCEPT !.stage = stage, !.entry = entry, !.found = found]
  /\ UNCHANGED <<disk, doc, prompt, close, timer, ack, owner, poll, autosave, historyVars>>

ListDirectory ==
  /\ reload.stage = "listing"
  /\ IF disk.there THEN Loads("reading", disk.mtime, NoDocument) ELSE Loads("confirming", 0, NoDocument)
  /\ UNCHANGED fileLeft

ReadFile ==
  /\ reload.stage \in {"reading", "confirming"}
  /\ Loads("loaded", reload.entry,
           CASE disk.there -> TextState(disk.text, disk.mtime)
             [] ~disk.there /\ reload.stage = "reading" -> [ErrorState EXCEPT !.mtime = reload.entry]
             [] OTHER -> MissingFileState)
  /\ UNCHANGED fileLeft

ReadFails ==
  /\ reload.stage \in {"listing", "reading", "confirming"}
  /\ FileSpend("faults")
  /\ \E found \in IF reload.stage = "confirming" THEN {NoDocument}
                  ELSE {ErrorState, [ErrorState EXCEPT !.mtime = reload.entry]} :
       Loads("loaded", reload.entry, found)

(***************************************************************************)
(* markOpenFileMissing: a dirty text stays, anything else is replaced.     *)
(***************************************************************************)
KeepsMissing == [doc EXCEPT !.missing = TRUE, !.changed = NoChange, !.error = FALSE]

(***************************************************************************)
(* The state d takes the editor's place whatever has been typed since the  *)
(* reload was begun, and whatever an editor that counts as clean holds     *)
(* that the file does not.                                                 *)
(***************************************************************************)
GivesWayTo(d) ==
  IF unsaved # Nothing /\ unsaved = doc.content /\ unsaved # d.content
    THEN /\ unsaved' = Nothing
         /\ damage' = damage \cup {IF Dirty(doc) THEN "reload" ELSE "clean"}
    ELSE UNCHANGED <<unsaved, damage>>

Replaces ==
  /\ doc' = reload.found
  /\ shown' = IF doc'.kind = "text" THEN shown \cup {doc'.content} ELSE shown
  /\ IF reload.safe THEN GivesWayTo(reload.found) ELSE UNCHANGED <<unsaved, damage>>

\* Wrong variant: a dirty text is replaced as a clean one is.
MissingReplaces ==
  doc' = MissingFileState /\ UNCHANGED <<shown, unsaved, damage>>

FindsMissing ==
  IF Dirty(doc)
    THEN doc' = KeepsMissing /\ UNCHANGED <<shown, unsaved, damage>>
    ELSE doc' = MissingFileState /\ GivesWayTo(MissingFileState) /\ UNCHANGED shown

(***************************************************************************)
(* The owner of saves that waited for the reload goes on; so does a poll,  *)
(* which has the file loaded again unless the editor is now at what it had *)
(* listed.                                                                 *)
(***************************************************************************)
OwnerGoesOn(result, replaced) ==
  CASE owner.phase = "reloading" -> Settles(result, doc', ack)
    [] owner.phase = "keeping"   -> ConflictEnds(result)
    [] OTHER -> owner' = (IF replaced THEN Detached(owner) ELSE owner) /\ UNCHANGED close

\* Wrong variant: a poll whose reload ends goes on waiting.
PollStays(result, replaced) ==
  CASE poll.stage = "joined" /\ doc'.mtime # poll.entry.mtime ->
            reload' = Reloading(poll.entry.mtime, poll.safe) /\ poll' = [poll EXCEPT !.stage = "reloading"]
    [] OTHER -> /\ reload' = NoReload
                /\ poll' = IF poll.stage = "none" \/ ~replaced THEN poll
                           ELSE [Released(poll) EXCEPT !.superseded = @ \/ result]

PollGoesOn(result, replaced) ==
  CASE poll.stage = "joined" /\ doc'.mtime # poll.entry.mtime ->
            reload' = Reloading(poll.entry.mtime, poll.safe) /\ poll' = [poll EXCEPT !.stage = "reloading"]
    [] poll.stage = "reloading" \/ (poll.stage = "joined" /\ doc'.mtime = poll.entry.mtime) ->
            reload' = NoReload /\ poll' = NoPoll
    [] OTHER -> /\ reload' = NoReload
                /\ poll' = IF poll.stage = "none" \/ ~replaced THEN poll
                           ELSE [Released(poll) EXCEPT !.superseded = @ \/ result]

LoadOpenFileStateFromDisk ==
  /\ Quiet /\ reload.stage = "loaded"
  /\ LET result == reload.found.kind # "none" /\ ~reload.found.missing
         replaced == result \/ (reload.found.missing /\ ~Dirty(doc)) IN
     /\ CASE result -> Replaces
          [] reload.found.missing -> FindsMissing
          [] OTHER -> UNCHANGED <<doc, shown, unsaved, damage>>
     /\ timer' = (timer /\ reload.found.kind = "none")
     /\ OwnerGoesOn(result, replaced)
     /\ PollGoesOn(result, replaced)
  /\ UNCHANGED <<disk, prompt, ack, autosave, texts, fileLeft>>

-----------------------------------------------------------------------------
(* The poll.                                                               *)

(***************************************************************************)
(* refreshOpenFilesIfChanged takes the state and awaits the listing.  That *)
(* a clean file in a background tab waits until it is activated is not     *)
(* modelled: the tab is one that is shown.                                 *)
(***************************************************************************)
RefreshOpenFilesIfChanged ==
  /\ Quiet /\ poll.stage = "none"
  /\ doc.kind # "none" /\ (Dirty(doc) \/ Tab)
  /\ poll' = [stage |-> "listed", entry |-> disk, holds |-> "current", frozen |-> NoDocument,
              superseded |-> FALSE, safe |-> TRUE]
  /\ UNCHANGED <<disk, doc, prompt, close, timer, ack, owner, reload, autosave, historyVars, fileLeft>>

Polled(d) == doc' = IF poll.holds = "current" THEN d ELSE doc
PollLeaves == <<disk, prompt, close, ack, owner, autosave, texts, shown, damage>>

(***************************************************************************)
(* fileEditorSelfWriteAcknowledged: what was listed is this page's own     *)
(* write, finished or under way.                                           *)
(***************************************************************************)
FileEditorSelfWriteAcknowledged(entry) ==
  /\ ack # NoAck
  /\ IF ack.pending THEN entry.text = Nothing ELSE entry.mtime = ack.mtime

(***************************************************************************)
(* refreshOpenFileFromFetchedStatus, d being the state the poll has taken. *)
(* openFileBackgroundReloadShouldDefer, the editor having the focus or     *)
(* having been dirty just now, is left open.                               *)
(***************************************************************************)
PollEntryMissing(d) ==
  /\ IF d.missing THEN poll' = NoPoll ELSE poll' = [poll EXCEPT !.stage = "confirming", !.superseded = FALSE]
  /\ UNCHANGED <<doc, timer, reload>>

PollUnchanged(d) ==
  /\ poll' = NoPoll
  /\ Polled(IF Marked(d)
              THEN [d EXCEPT !.missing = FALSE, !.error = FALSE,
                             !.changed = IF Dirty(d) THEN @ ELSE NoChange,
                             !.prompted = @ /\ Dirty(d)]
              ELSE d)
  /\ timer' = IF Dirty(d) THEN OpenFileAutosaveReady(doc', ack) ELSE timer
  /\ UNCHANGED reload

\* Wrong variant: the listed time becomes the one the next save expects.
NotedWithTime(d) == [d EXCEPT !.changed = poll.entry.mtime, !.mtime = poll.entry.mtime,
                              !.prompted = FALSE, !.missing = FALSE, !.error = FALSE]

Noted(d) == [d EXCEPT !.changed = poll.entry.mtime, !.prompted = FALSE, !.missing = FALSE,
                      !.error = FALSE]

PollDirty(d) ==
  /\ poll' = NoPoll
  /\ IF d.changed = poll.entry.mtime THEN UNCHANGED <<doc, timer>>
     ELSE Polled(Noted(d)) /\ timer' = FALSE
  /\ UNCHANGED reload

PollDefers(d) ==
  /\ ~d.missing
  /\ poll' = NoPoll
  /\ Polled(Noted(d))
  /\ UNCHANGED <<timer, reload>>

PollReloads(d) ==
  /\ ReplaceOpenFileStateFromDisk(poll.entry.mtime, d)
  /\ poll' = [poll EXCEPT !.stage = IF reload.stage = "none" THEN "reloading" ELSE "joined",
                          !.safe = Safe(d)]
  /\ UNCHANGED <<doc, timer>>

RefreshOpenFileFromFetchedStatus ==
  /\ Quiet /\ poll.stage = "listed"
  /\ UNCHANGED unsaved
  /\ LET d == IF poll.holds = "current" THEN doc ELSE poll.frozen IN
     \/ ~poll.entry.there /\ PollEntryMissing(d)
     \/ /\ poll.entry.there /\ FileEditorSelfWriteAcknowledged(poll.entry)
        /\ poll' = NoPoll /\ UNCHANGED <<doc, timer, reload>>
     \/ /\ poll.entry.there /\ ~FileEditorSelfWriteAcknowledged(poll.entry)
        /\ CASE d.mtime = poll.entry.mtime -> PollUnchanged(d)
             [] d.mtime # poll.entry.mtime /\ Dirty(d) -> PollDirty(d)
             [] OTHER -> PollDefers(d) \/ PollReloads(d)
  /\ UNCHANGED <<PollLeaves, fileLeft>>

(***************************************************************************)
(* resolveOpenFileMissingVerdict of a poll: only a read that finds nothing *)
(* marks the editor, and only if nothing was loaded meanwhile.             *)
(***************************************************************************)
ResolveOpenFileMissingVerdict ==
  /\ Quiet /\ poll.stage = "confirming"
  /\ poll' = NoPoll
  /\ IF disk.there \/ poll.superseded
       THEN UNCHANGED <<doc, timer, owner, shown, unsaved, damage>>
       ELSE /\ FindsMissing /\ timer' = FALSE
            /\ owner' = IF Dirty(doc) THEN owner ELSE Detached(owner)
  /\ UNCHANGED <<disk, prompt, close, ack, reload, autosave, texts, fileLeft>>

PollFails ==
  /\ Quiet /\ poll.stage = "listed"
  /\ FileSpend("faults")
  /\ poll' = NoPoll
  /\ doc' = IF doc.kind = "none" THEN doc ELSE [doc EXCEPT !.error = TRUE]
  /\ timer' = FALSE
  /\ UNCHANGED <<PollLeaves, unsaved, reload>>

(***************************************************************************)
(* recoverOpenFileAfterMissing: the command palette finds the file again.  *)
(***************************************************************************)
RecoverOpenFileAfterMissing ==
  /\ Quiet /\ ~Modal /\ Tab /\ doc.missing /\ disk.there
  /\ timer' = FALSE
  /\ IF Dirty(doc)
       THEN /\ doc' = [doc EXCEPT !.changed = disk.mtime, !.missing = FALSE, !.error = FALSE,
                                  !.prompted = FALSE]
            /\ UNCHANGED <<unsaved, reload>>
       ELSE UNCHANGED <<doc, unsaved>> /\ ReplaceOpenFileStateFromDisk(disk.mtime, doc)
  /\ UNCHANGED <<PollLeaves, poll, fileLeft>>

-----------------------------------------------------------------------------
(* Closing.                                                                *)

(***************************************************************************)
(* The tab goes and the state with it.  Text typed while the save that the *)
(* close waited for was under way goes too, unless the next save has it.   *)
(***************************************************************************)
Closes ==
  /\ close' = "closed"
  /\ doc' = NoDocument
  /\ timer' = FALSE
  /\ owner' = Detached(owner)
  /\ poll' = Released(poll)
  /\ IF /\ unsaved # Nothing /\ (close = "confirmed" \/ ~Dirty(doc))
        /\ ~(owner.phase = "writing" /\ owner.text = unsaved)
       THEN unsaved' = Nothing /\ damage' = damage \cup {"close"}
       ELSE UNCHANGED <<unsaved, damage>>
  /\ UNCHANGED <<disk, prompt, ack, reload, autosave, texts, shown>>

RemoveOpenFile ==
  /\ Quiet /\ ~Modal /\ close = "open" /\ ~Dirty(doc)
  /\ FileSpend("clicks")
  /\ Closes

ConfirmDirtyFileClose ==
  /\ Quiet /\ ~Modal /\ close = "open" /\ Dirty(doc)
  /\ FileSpend("clicks")
  /\ IF autosave
       THEN close' = "saving" /\ QueueFileEditorSave(Request(FALSE, TRUE))
       ELSE close' = "asking" /\ UNCHANGED owner
  /\ UNCHANGED <<disk, doc, prompt, timer, ack, reload, poll, autosave, historyVars>>

AnswerClose(choice) ==
  /\ Quiet /\ close = "asking"
  /\ CASE choice = "save" /\ doc.kind = "text" ->
            close' = "asked" /\ QueueFileEditorSave(Request(FALSE, TRUE)) /\ UNCHANGED unsaved
       [] choice = "discard" -> close' = "confirmed" /\ GivesUp /\ UNCHANGED owner
       [] OTHER -> close' = "open" /\ UNCHANGED <<owner, unsaved>>
  /\ UNCHANGED <<disk, doc, prompt, timer, ack, reload, poll, autosave, texts, damage, shown, fileLeft>>

FinishClose ==
  /\ close = "confirmed" /\ owner.phase # "due"
  /\ UNCHANGED fileLeft
  /\ Closes

-----------------------------------------------------------------------------
FileNext ==
  \/ ExternalWrite \/ ExternalDelete
  \/ WriteFileChecks \/ WriteFileWrites
  \/ HandleFileEditorContentChanged
  \/ \E choice \in {"reload", "dismiss"} : PromptExternalChange(choice)
  \/ ReloadOpenFileFromDisk
  \/ SaveFileEditor \/ AutoSaveFileEditor \/ PerformFileEditorSave
  \/ SaveAnswered \/ SaveRefused \/ SaveFails \/ AckExpires
  \/ \E choice \in {"overwrite", "reload", "cancel"} : ResolveConflict(choice)
  \/ ListDirectory \/ ReadFile \/ ReadFails \/ LoadOpenFileStateFromDisk
  \/ RefreshOpenFilesIfChanged \/ RefreshOpenFileFromFetchedStatus
  \/ ResolveOpenFileMissingVerdict \/ PollFails \/ RecoverOpenFileAfterMissing
  \/ RemoveOpenFile \/ ConfirmDirtyFileClose
  \/ \E choice \in {"save", "discard", "cancel"} : AnswerClose(choice)
  \/ FinishClose

(***************************************************************************)
(* Requests are answered, timers fire and the poll comes round; the user   *)
(* and those who change the file owe nothing.                              *)
(***************************************************************************)
FileFairness ==
  /\ WF_fileVars(WriteFileChecks \/ WriteFileWrites)
  /\ WF_fileVars(PerformFileEditorSave \/ FinishClose)
  /\ WF_fileVars(SaveAnswered \/ SaveRefused)
  /\ WF_fileVars(AckExpires)
  /\ WF_fileVars(ListDirectory \/ ReadFile \/ LoadOpenFileStateFromDisk)
  /\ WF_fileVars(RefreshOpenFilesIfChanged \/ RefreshOpenFileFromFetchedStatus
                 \/ ResolveOpenFileMissingVerdict)

FileSpec == FileInit /\ [][FileNext]_fileVars /\ FileFairness

-----------------------------------------------------------------------------
(* Properties.                                                             *)

(***************************************************************************)
(* The variables have their types, and a poll that waits for a reload has  *)
(* one to wait for.                                                        *)
(***************************************************************************)
FileTypeOK ==
  /\ disk \in [there : BOOLEAN, text : Nat, mtime : Nat]
  /\ doc \in [kind : {"none", "text", "error"}, content : Nat, original : Nat, mtime : Nat,
              missing : BOOLEAN, changed : Nat, error : BOOLEAN, prompted : BOOLEAN]
  /\ {prompt, timer, autosave} \subseteq BOOLEAN
  /\ close \in {"open", "saving", "asking", "asked", "confirmed", "closed"}
  /\ ack \in [mtime : Nat, pending : BOOLEAN]
  /\ owner.phase \in {"none", "due", "writing", "asking", "reloading", "keeping"}
  /\ reload.stage \in {"none", "listing", "reading", "confirming", "loaded"}
  /\ poll.stage \in {"none", "listed", "confirming", "joined", "reloading"}
  /\ poll.stage \in {"joined", "reloading"} => reload.stage # "none"
  /\ {texts, unsaved} \subseteq Nat
  /\ damage \subseteq {"reload", "clean", "close"}
  /\ shown \subseteq Nat

(***************************************************************************)
(* What the user typed last is in the editor, in a save under way, on disk *)
(* or given up: no order of polls, reloads, saves, conflicts and closing   *)
(* loses it, but for the three that damage tells of: a reload over what    *)
(* was typed since it began, one over a text that counts as clean because  *)
(* it equals the original while the file has or gets another of the        *)
(* user's (Replaces, FindsMissing), and a close (Closes, LostWithTab).     *)
(***************************************************************************)
NoEditLost ==
  unsaved # Nothing =>
    \/ unsaved = doc.content
    \/ owner.phase = "writing" /\ owner.text = unsaved

(***************************************************************************)
(* A close that has been told to save is always resolved: the save it      *)
(* waits for is merged with others, refused, asked about, never forgotten. *)
(***************************************************************************)
CloseIsAwaited ==
  close \in {"saving", "asked"} =>
    owner.phase # "none" /\ (owner.request.closes \/ owner.pending.closes)

(***************************************************************************)
(* A save overwrites only a text that this page has loaded or written,     *)
(* unless the user chose to overwrite: expected_mtime never takes on the   *)
(* time of a text that was not seen.                                       *)
(***************************************************************************)
Truncates == /\ owner.phase = "writing" /\ owner.stage = "sent"
             /\ owner'.phase = "writing" /\ owner'.stage = "truncated"
OverwritesOnlyTheSeen ==
  [][Truncates => ~disk.there \/ disk.text \in shown \/ owner.request.force]_fileVars

(***************************************************************************)
(* Again and again an open editor has the file's text, or says that the    *)
(* file has changed, is missing or cannot be read: neither the             *)
(* acknowledgement of a write of its own nor a deferral hides for ever     *)
(* what is on disk.                                                        *)
(***************************************************************************)
ShowsDisk == disk.there /\ doc.original = disk.text
EditorConverges == []<>(~Tab \/ doc.kind # "text" \/ Marked(doc) \/ ShowsDisk)

(***************************************************************************)
(* docs/specs/GUI.md: a genuine external change surfaces the conflict      *)
(* without overwriting the dirty buffer.  A reload that was begun while    *)
(* the editor was clean replaces what has been typed since.                *)
(***************************************************************************)
EditSurvivesReload == "reload" \notin damage
=============================================================================
