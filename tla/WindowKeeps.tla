----------------------------- MODULE WindowKeeps -----------------------------
(***************************************************************************)
(* The parts of the window that configure and edit, side by side: the      *)
(* credentials, who is asked as whom, the users of the trap listener, the  *)
(* notification page, the MIB editor, the dialog of the simulator and the  *)
(* operations somebody asks for.  They share no state: each keeps stores   *)
(* of its own, which are None while a behaviour is not about it.  Here is  *)
(* what they promise together.                                             *)
(***************************************************************************)
CONSTANTS
  None,        \* no value, and a part that is left out
  Fixed, Keyed, Credentials, Public, InClear, Missing, MaxKeys, MaxSaves, MaxFlips, VaultRestarts,  \* Vault
  Addresses, Loopback, NamedPort, Profiles, Passwords, MaxTargets, MaxEdits,  \* Identities
  Users, Unusable, Editions, LeftOut, Unopened, UserCalls, UserClicks, MaxMishaps,  \* TrapUsers
  Sinks, Routes, SinksAt, Places, Lists, Priorities, Box, Silent, PageClicks, MaxUnderWay, MaxNews,  \* NotifyDesk
  Files, Module, External, Waits, MaxVersion, EditClicks,                     \* MibEditor
  Letters, Boundary, Snippets, Refuses, HintWindow, MAX_DEPTH, MaxLength, TextClicks,  \* EditorText
  Devices, Present, Catalogue, Category, Custom, FaultForms, ListsInOrder, MAX_LATENCY_MS, COUNTER_SPEEDS,
  BenchClicks, BenchCalls, BenchUnderWay,                                     \* SimulatorDesk
  Scalar, Column, Table, Writable, Agents, OwnSettings, ByHand, Settings, MaxAsks, AskClicks  \* Operations

VARIABLES
  disk, oldKey, keychain, osKey, made, cached, mem, state, boot, loaded, usable, saving, forgetting,
  cleared, chances,
  book, work, editing, touched, saved, edits,
  trusted, chain, ready, ui, updates, listener, picks, mishaps,
  desk, screen, editor, rule, posts, kept, count,
  files, drafts, ed, timer, check, token, asked, writing, owed, refused, crossed, clicked,
  typing, caret, prev, hist, atomicEdit, popup, find, keys,
  bench, listed, modal, orders, declined, tally,
  node, form, settings, waiting, results, asking, timers, tasks, log, queries, written, begun, taps

Safe == INSTANCE Vault WITH
  Secrets <- Credentials, Nothing <- Missing, MaxRestarts <- VaultRestarts, budget <- chances

Who == INSTANCE Identities WITH Ids <- Profiles, Secrets <- Passwords, settings <- book

Trusted == INSTANCE TrapUsers WITH
  Blank <- LeftOut, Sealed <- Unopened, MaxCalls <- UserCalls, MaxClicks <- UserClicks,
  settings <- trusted, keychain <- chain, calls <- updates, go <- listener, clicks <- picks

Notify == INSTANCE NotifyDesk WITH
  Given <- SinksAt, MaxClicks <- PageClicks, go <- desk, calls <- posts

Editor == INSTANCE MibEditor WITH
  MaxClicks <- EditClicks, disk <- files, calls <- asked, saving <- writing, clicks <- clicked

Text == INSTANCE EditorText WITH MaxClicks <- TextClicks, text <- typing, clicks <- keys

Bench == INSTANCE SimulatorDesk WITH
  Forms <- FaultForms, InOrder <- ListsInOrder,
  MaxClicks <- BenchClicks, MaxCalls <- BenchCalls, MaxUnderWay <- BenchUnderWay,
  go <- bench, list <- listed, calls <- orders, refused <- declined, count <- tally

Asks == INSTANCE Operations WITH
  Typed <- ByHand, Targets <- Agents, MaxClicks <- AskClicks,
  loading <- waiting, calls <- tasks, asked <- begun, clicks <- taps

-----------------------------------------------------------------------------
\* What is stored is sealed, nothing sealed goes on the wire, a session is told
\* to follow exactly when what it follows has changed, and the listener accepts
\* the users the settings accept and can use, whatever the keychain does
\* (crypto.js, credentialProfiles.js, trapStore.js).
SecretsAreKept ==
  /\ chances # None => Safe!NeverStoredInClear /\ Safe!NothingSealedInUse
  /\ book # None => Who!FollowedIffChanged
  /\ trusted # None => Trusted!UsersFollowSettings

\* A credential becomes blank only where the operator left it blank, and an edit
\* of one target or profile leaves every other target asked as it was before, and
\* what was typed for an operation stays as another node is selected (crypto.js
\* carryForward, credentialProfiles.js, TargetManager.svelte, OperationsPanel.svelte).
EditsDisturbNothing ==
  [][/\ chances # None => [Safe!BlanksNothing]_Safe!vars
     /\ book # None => [Who!KeepsOthers]_Who!vars
     /\ form # None => [Asks!KeepsTyped]_Asks!vars]_<<Safe!vars, Who!vars, Asks!vars>>

\* A credential does not follow its destination, a save that unbinds it says so,
\* and the page, the log and the preview are of what is stored, chosen and typed
\* (NotifySettings.svelte, TemplateEditor.svelte, app.go).
NotificationsAsSet == desk # None => Notify!NotificationsAsSet

\* A draft is of its own file and work is somewhere, on disk, in a draft or in
\* the editor, through switches and closings; undo returns to what was typed
\* (mibEditorStore.js, MibEditorPanel.svelte).
WorkIsKept ==
  /\ files # None => Editor!DraftOfItsFile /\ Editor!WorkIsSomewhere
  /\ typing # None => Text!UndoReturns

\* The dialog of the simulator: a device is busy while a call of it is under
\* way, the preview is the one last asked, the list is Go's, a new device's
\* model is there and a fault asked for is one Go takes (SimulatorModal.svelte).
BenchIsTold == bench # None => Bench!BenchIsTold

\* An answer is recorded as what was asked, for the device it came from
\* (OperationsPanel.svelte).
AnswersStayTheirs == form # None => Asks!AnswersStayTheirs
=============================================================================
