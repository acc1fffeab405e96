------------------------------- MODULE MibEditor -------------------------------
(***************************************************************************)
(* The text in the MIB editor, and the drafts that keep it                 *)
(* (frontend/src/stores/mibEditorStore.js, frontend/src/MibEditorPanel     *)
(* .svelte).                                                               *)
(*                                                                         *)
(* A text is the file it was typed in and a version; version 0 is what     *)
(* ships.  Every function that awaits is taken apart at the await: what it *)
(* goes on with is in the call.  Go performs a call and it is answered in  *)
(* one step, in any order.                                                 *)
(***************************************************************************)
EXTENDS Integers, FiniteSets

CONSTANTS
  Files,      \* those of the MIB directory
  Module,     \* the name an external file is offered under
  External,   \* the key its drafts are filed under
  Waits,      \* whether the operator opens and fixes one thing at a time
  None,
  MaxVersion, MaxClicks   \* bounds: versions of a text, what the operator does

Keys  == Files \cup {Module, External}
Text(k, v) == [of |-> k, v |-> v]

VARIABLES
  disk,     \* by name: the file, or None
  drafts,   \* by key: the draft, or None
  ed,       \* the store: source, buffer, and the texts diagnostics and outline are of
  timer,    \* draftTimer: whether it was set, whether it is running, the key it is for
  check,    \* checkTimer is running
  token,    \* openToken
  calls,    \* under way
  saving,
  owed,     \* bookkeeping: by key, what was typed last and neither saved nor given up
  refused,  \* bookkeeping: by key, what was given up last
  crossed,  \* bookkeeping: the files shown with what was saved as another
  clicks

editor == <<ed, timer, check, token, saving>>
ledger == <<owed, refused, crossed>>
vars == <<disk, drafts, editor, calls, ledger, clicks>>

Click == clicks < MaxClicks /\ clicks' = clicks + 1

Call(op, at, text, next) == [op |-> op, at |-> at, text |-> text, next |-> next, n |-> 0]
Opening == {"refuse", "flush", "read", "readDraft", "external", "restore", "fix"}
Busy    == \E c \in calls : c.op \in Opening
Asks    == Click /\ (Waits => ~Busy)

-----------------------------------------------------------------------------
(* The store. *)

Nothing == [source |-> None, buffer |-> None, diagnostics |-> None, outline |-> None]
NoTimer == [set |-> FALSE, armed |-> FALSE, key |-> None]

\* An external file is filed under its path, any other under its name.
draftKey(s) == IF s.external THEN External ELSE s.name

isDirty == ed.source # None /\ ed.buffer # ed.source.content

\* clearTimeout keeps the handle: the timer still counts as set.
Cleared == [timer EXCEPT !.armed = FALSE]

Keep(key, text) == IF isDirty THEN Call("draft", key, text, None) ELSE Call("drop", key, None, None)

\* A plausible bug: what is in the buffer is written for the file of the timer.
DraftUnchecked ==
  /\ timer.armed
  /\ timer' = Cleared
  /\ calls' = IF ed.source # None THEN calls \cup {Keep(timer.key, ed.buffer)} ELSE calls
  /\ UNCHANGED <<disk, drafts, ed, check, token, saving, ledger, clicks>>

\* 1200 ms after the last keystroke, if the same file is still open.
scheduleDraft ==
  /\ timer.armed
  /\ timer' = Cleared
  /\ calls' = IF ed.source # None /\ draftKey(ed.source) = timer.key
                THEN calls \cup {Keep(timer.key, ed.buffer)} ELSE calls
  /\ UNCHANGED <<disk, drafts, ed, check, token, saving, ledger, clicks>>

setBuffer(text) ==
  /\ ed' = [ed EXCEPT !.buffer = text]
  /\ check' = TRUE
  /\ timer' = [set |-> TRUE, armed |-> TRUE, key |-> draftKey(ed.source)]

scheduleRefresh ==
  /\ check
  /\ check' = FALSE
  /\ calls' = calls \cup {Call("analyse", None, ed.buffer, None)}
  /\ UNCHANGED <<disk, drafts, ed, timer, token, saving, ledger, clicks>>

\* An answer is applied if the text it describes is still the one on screen.
refresh ==
  \E c \in calls :
    /\ c.op = "analyse"
    /\ calls' = calls \ {c}
    /\ \/ ed' = IF ed.buffer = c.text
                  THEN [ed EXCEPT !.diagnostics = c.text, !.outline = c.text] ELSE ed
       \/ UNCHANGED ed
    /\ UNCHANGED <<disk, drafts, timer, check, token, saving, ledger, clicks>>

Show(source, buffer) ==
  ed' = [source |-> source, buffer |-> buffer, diagnostics |-> source.content, outline |-> None]
Analyse(text) == Call("analyse", None, text, None)

Read(name, cs) ==
  /\ token' = token + 1
  /\ calls' = cs \cup {[Call("read", name, None, None) EXCEPT !.n = token + 1]}

\* open: the draft that is pending for the file being left is settled first.
FlushThenOpen(name, cs) ==
  IF timer.set /\ ed.source # None
    THEN /\ calls' = cs \cup {[Keep(draftKey(ed.source), ed.buffer) EXCEPT !.op = "flush", !.next = name]}
         /\ timer' = NoTimer
         /\ UNCHANGED token
    ELSE Read(name, cs) /\ timer' = NoTimer

FlushAnswered ==
  \E c \in calls :
    /\ c.op = "flush"
    /\ drafts' = [drafts EXCEPT ![c.at] = c.text]
    /\ Read(c.next, calls \ {c})
    /\ UNCHANGED <<disk, ed, timer, check, saving, ledger, clicks>>

ReadAnswered ==
  \E c \in calls :
    /\ c.op = "read"
    /\ calls' = IF c.n = token
                  THEN (calls \ {c}) \cup {[c EXCEPT !.op = "readDraft", !.text = disk[c.at]]}
                  ELSE calls \ {c}
    /\ UNCHANGED <<disk, drafts, ed, timer, check, token, saving, ledger, clicks>>

\* A draft that differs from the file is what an earlier session left.
DraftAnswered ==
  \E c \in calls :
    /\ c.op = "readDraft"
    /\ IF c.n = token
         THEN LET draft == drafts[c.at]
                  buffer == IF draft # None THEN draft ELSE c.text
              IN /\ Show([name |-> c.at, external |-> FALSE, content |-> c.text], buffer)
                 /\ calls' = (calls \ {c}) \cup {Analyse(buffer)}
         ELSE UNCHANGED ed /\ calls' = calls \ {c}
    /\ UNCHANGED <<disk, drafts, timer, check, token, saving, ledger, clicks>>

\* A source the caller has: it takes the token, and its own draft is dropped.
openSource(source, cs) ==
  /\ token' = token + 1
  /\ timer' = Cleared
  /\ Show(source, source.content)
  /\ calls' = cs \cup {Analyse(source.content), Call("drop", draftKey(source), None, None)}

\* Drafts kept and dropped in passing: nothing waits for them.
DraftKept ==
  \E c \in calls :
    /\ c.op \in {"draft", "drop"}
    /\ calls' = calls \ {c}
    /\ drafts' = [drafts EXCEPT ![c.at] = c.text]
    /\ UNCHANGED <<disk, ed, timer, check, token, saving, ledger, clicks>>

-----------------------------------------------------------------------------
(* The panel. *)

\* Typing, a snippet, a replacement, an undo: the buffer becomes another text.
onInput ==
  \E v \in 0..MaxVersion :
    LET text == Text(ed.buffer.of, v)
        k    == draftKey(ed.source)
    IN /\ Click
       /\ ed.source # None /\ text # ed.buffer
       /\ setBuffer(text)
       /\ owed' = [owed EXCEPT ![k] = IF Busy \/ text = ed.source.content THEN None ELSE text]
       /\ refused' = [refused EXCEPT ![k] = None]
       /\ UNCHANGED <<disk, drafts, token, calls, saving, crossed>>

GivenUp(k) ==
  /\ owed' = [owed EXCEPT ![k] = None]
  /\ refused' = [refused EXCEPT ![k] = ed.buffer]
  /\ UNCHANGED crossed

\* confirmDiscard, answered with yes: the draft goes first, by the file's name.
Discarding(next) ==
  /\ isDirty
  /\ timer' = Cleared
  /\ calls' = calls \cup {Call("refuse", ed.source.name, None, next)}
  /\ owed' = [owed EXCEPT ![draftKey(ed.source)] = None]
  /\ refused' = IF next = External THEN refused ELSE [refused EXCEPT ![draftKey(ed.source)] = ed.buffer]
  /\ UNCHANGED <<token, crossed>>

open ==
  \E name \in Files \cup {Module} :
    /\ Asks /\ disk[name] # None
    /\ \/ Discarding(name)
       \/ ~isDirty /\ FlushThenOpen(name, calls) /\ UNCHANGED ledger
    /\ UNCHANGED <<disk, drafts, ed, check, saving>>

openExternal ==
  /\ Asks
  /\ \/ Discarding(External)
     \/ /\ ~isDirty
        /\ calls' = calls \cup {Call("external", None, None, None)}
        /\ UNCHANGED <<timer, token, ledger>>
  /\ UNCHANGED <<disk, drafts, ed, check, saving>>

DiscardAnswered ==
  \E c \in calls :
    /\ c.op = "refuse"
    /\ drafts' = [drafts EXCEPT ![c.at] = None]
    /\ IF c.next = External
         THEN /\ calls' = (calls \ {c}) \cup {Call("external", None, None, None)}
              /\ UNCHANGED <<timer, token>>
         ELSE FlushThenOpen(c.next, calls \ {c})
    /\ UNCHANGED <<disk, ed, check, saving, ledger, clicks>>

\* The file dialog: cancelled, or a file from anywhere.
ExternalAnswered ==
  \E c \in calls :
    /\ c.op = "external"
    /\ \/ calls' = calls \ {c} /\ UNCHANGED <<ed, timer, token>>
       \/ openSource([name |-> Module, external |-> TRUE, content |-> Text(External, 0)], calls \ {c})
    /\ UNCHANGED <<disk, drafts, check, saving, ledger, clicks>>

revert ==
  /\ Click /\ isDirty
  /\ ed' = [ed EXCEPT !.buffer = ed.source.content, !.diagnostics = ed.source.content]
  /\ timer' = Cleared
  /\ calls' = calls \cup {Call("drop", draftKey(ed.source), None, None)}
  /\ GivenUp(draftKey(ed.source))
  /\ UNCHANGED <<disk, drafts, check, token, saving>>

\* What ships is written over the file, and shown in place of the buffer.
restoreBundled ==
  /\ Asks /\ ed.source # None /\ ~ed.source.external
  /\ calls' = calls \cup {Call("restore", ed.source.name, None, None)}
  /\ GivenUp(ed.source.name)
  /\ UNCHANGED <<disk, drafts, ed, timer, check, token, saving>>

RestoreAnswered ==
  \E c \in calls :
    /\ c.op = "restore"
    /\ disk' = [disk EXCEPT ![c.at] = Text(c.at, 0)]
    /\ openSource([name |-> c.at, external |-> FALSE, content |-> Text(c.at, 0)], calls \ {c})
    /\ UNCHANGED <<drafts, check, saving, ledger, clicks>>

\* The repair of the text it was asked for replaces the whole buffer.
fixImports ==
  /\ Asks /\ ed.source # None
  /\ calls' = calls \cup {Call("fix", None, ed.buffer, None)}
  /\ UNCHANGED <<disk, drafts, ed, timer, check, token, saving, ledger>>

FixAnswered ==
  \E c \in calls :
    /\ c.op = "fix"
    /\ calls' = calls \ {c}
    /\ \/ /\ setBuffer(Text(c.text.of, MaxVersion))
          /\ owed' = [owed EXCEPT ![draftKey(ed.source)] = None]
       \/ UNCHANGED <<ed, check, timer, owed>>
    /\ UNCHANGED <<disk, drafts, token, saving, refused, crossed, clicks>>

\* Saved under the name, against the text the editor read.
SaveAs(force, cs) ==
  calls' = cs \cup {[Call("save", ed.source.name, ed.buffer, ed.source.content) EXCEPT !.n = IF force THEN 1 ELSE 0]}

save ==
  /\ Click /\ ~saving
  /\ ed.source # None /\ (isDirty \/ ed.source.external)
  /\ saving' = TRUE
  /\ SaveAs(FALSE, calls)
  /\ UNCHANGED <<disk, drafts, ed, timer, check, token, ledger>>

\* The file is what was sent; the draft goes if there is nothing more in it.
markSaved(written, cs) ==
  /\ ed' = [ed EXCEPT !.source.content = written, !.source.external = FALSE, !.diagnostics = written]
  /\ calls' = cs \cup {Call("reload", None, None, None)}
                 \cup IF written = ed.buffer THEN {Call("drop", draftKey(ed.source), None, None)} ELSE {}

SaveAnswered ==
  \E c \in calls :
    /\ c.op = "save"
    /\ \/ /\ c.n = 0 /\ disk[c.at] \notin {None, c.next}      \* changed underneath
          /\ \/ SaveAs(TRUE, calls \ {c}) /\ UNCHANGED saving
             \/ calls' = calls \ {c} /\ saving' = FALSE
          /\ UNCHANGED <<disk, ed, owed, crossed>>
       \/ /\ c.n = 1 \/ disk[c.at] \in {None, c.next}
          /\ disk' = [disk EXCEPT ![c.at] = c.text]
          /\ markSaved(c.text, calls \ {c})
          /\ owed' = [k \in Keys |-> IF owed[k] = c.text THEN None ELSE owed[k]]
          /\ crossed' = crossed \cup ({ed.source.name} \ {c.at})
          /\ UNCHANGED saving
       \/ calls' = calls \ {c} /\ saving' = FALSE /\ UNCHANGED <<disk, ed, owed, crossed>>
    /\ UNCHANGED <<drafts, timer, check, token, refused, clicks>>

ReloadAnswered ==
  \E c \in calls :
    /\ c.op = "reload"
    /\ calls' = calls \ {c} /\ saving' = FALSE
    /\ UNCHANGED <<disk, drafts, ed, timer, check, token, ledger, clicks>>

\* A plausible bug: nothing is written as the window goes.
CloseAtOnce == UNCHANGED drafts

\* The window goes, and the browser lets the pending draft be written.
FlushAtClose ==
  drafts' = IF timer.set /\ isDirty THEN [drafts EXCEPT ![draftKey(ed.source)] = ed.buffer] ELSE drafts

Close ==
  /\ Click /\ calls = {} /\ ed.source # None
  /\ FlushAtClose
  /\ ed' = Nothing /\ timer' = NoTimer /\ check' = FALSE /\ token' = 0 /\ saving' = FALSE
  /\ UNCHANGED <<disk, calls, ledger>>

\* Another program writes the file.
Outside ==
  \E f \in Files :
    /\ Click /\ disk[f] # None
    /\ disk' = [disk EXCEPT ![f] = Text(f, MaxVersion + 1)]
    /\ owed' = [owed EXCEPT ![f] = IF @ = disk[f] THEN None ELSE @]
    /\ UNCHANGED <<drafts, editor, calls, refused, crossed>>

-----------------------------------------------------------------------------
Init ==
  /\ disk = [n \in Files \cup {Module} |-> IF n \in Files THEN Text(n, 0) ELSE None]
  /\ drafts = [k \in Keys |-> None]
  /\ ed = Nothing /\ timer = NoTimer /\ check = FALSE /\ token = 0
  /\ calls = {} /\ saving = FALSE /\ clicks = 0
  /\ owed = [k \in Keys |-> None] /\ refused = [k \in Keys |-> None]
  /\ crossed = {}

Next ==
  \/ open \/ openExternal \/ onInput \/ revert \/ restoreBundled \/ fixImports \/ save \/ Close \/ Outside
  \/ scheduleDraft \/ scheduleRefresh
  \/ refresh \/ FlushAnswered \/ ReadAnswered \/ DraftAnswered \/ DraftKept \/ DiscardAnswered
  \/ ExternalAnswered \/ RestoreAnswered \/ FixAnswered \/ SaveAnswered \/ ReloadAnswered

Spec == Init /\ [][Next]_vars

-----------------------------------------------------------------------------
HasItsText(k) ==
  drafts[k] # None => drafts[k].of = k \/ (k = Module /\ drafts[k].of = External)

\* A draft holds text of its own file, however the file that is open changes
\* between a keystroke, the timer and the answers (mibEditorStore.js:183-209), unless
\* that file was opened while another one was being saved (267-273).
DraftOfItsFile == \A k \in Keys \ crossed : HasItsText(k)

\* "Losing an edit to a misclick is the one failure this editor must not have"
\* (MibEditorPanel.svelte:242): what was typed in a file of the directory, and
\* not given up, is in the editor, in its draft or in the file, through
\* saves, other files and the end of the window.
WorkIsSomewhere ==
  \A k \in Files : owed[k] # None =>
    \/ ed.source # None /\ draftKey(ed.source) = k /\ ed.buffer = owed[k]
    \/ drafts[k] = owed[k]
    \/ disk[k] = owed[k]

\* "Abandoning changes has to reach the DISK, not just the screen"
\* (mibEditorStore.js:243): what was given up is not kept as a draft.
Settled == ~timer.armed /\ \A c \in calls : c.op \notin {"draft", "drop", "refuse", "flush"}
RefusedStaysRefused == Settled => \A k \in Files : refused[k] # None => drafts[k] # refused[k]

Quiet == calls = {} /\ ~timer.armed
\* By hand: those of a file opened during the save of another are no exception.
DraftOfAnyFile == \A k \in Keys : HasItsText(k)
\* By hand: what is shown about the text is about the text (lines 148-152).
DiagnosticsOfTheText == Quiet /\ ~check /\ ed.source # None => ed.diagnostics = ed.buffer
OutlineOfTheText     == Quiet /\ ~check /\ ed.source # None => ed.outline \in {None, ed.buffer}
\* By hand: the file the editor thinks it has read is the one it shows.
SourceIsItsFile == ed.source # None => ed.source.content.of \in {ed.source.name, External}
=============================================================================
