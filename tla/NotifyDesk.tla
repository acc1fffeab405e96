------------------------------ MODULE NotifyDesk ------------------------------
(***************************************************************************)
(* The notification page of the settings                                   *)
(* (frontend/src/settings/NotifySettings.svelte, TemplateEditor.svelte)    *)
(* and the bindings it calls (internal/app/app.go): the destinations and   *)
(* the credentials bound to them, the rules that name them, the log of     *)
(* deliveries, the two editors and the preview of a template. Go answers   *)
(* in its own time, and the page goes on meanwhile.                        *)
(***************************************************************************)
EXTENDS Integers, Sequences, FiniteSets, SequencesExt

CONSTANTS
  Sinks, Routes,   \* the ids a destination and a rule may have
  Given,           \* the destinations there are at first, with their credential
  Places,          \* where a destination may point
  Lists,           \* the recipients a mail destination may have
  Priorities,      \* what is typed for a rule's priority; None: nothing
  Box,             \* the deliveries there are at first: [sink, state] by id
  Silent,          \* does the secret store accept every credential?
  None,
  MaxClicks, MaxUnderWay, MaxNews       \* bounds

VARIABLES
  go,       \* what is stored: [sinks, secret, routes, box]
  screen,   \* [rows, routes, log, filter, testing]
  editor,   \* the destination being edited, or None
  rule,     \* the rule being edited, or None
  calls,    \* the calls under way, in the order they were made
  kept,     \* bookkeeping: [strayed, silent, sent]; of a silent save, what its form knew
  count     \* [clicks, news]

vars == <<go, screen, editor, rule, calls, kept, count>>

States == {"pending", "sent", "dead"}
Form == {"place", "to", "body"}
Put(f, k, v) == [x \in DOMAIN f \cup {k} |-> IF x = k THEN v ELSE f[x]]
Without(f, k) == [x \in DOMAIN f \ {k} |-> f[x]]
Spare(ids, f) == IF ids \subseteq DOMAIN f THEN None ELSE CHOOSE d \in ids \ DOMAIN f : TRUE

newSink == [id |-> None, place |-> CHOOSE p \in Places : TRUE, to |-> <<>>, body |-> "none", raw |-> None,
            text |-> <<>>, secret |-> FALSE, had |-> FALSE, shares |-> FALSE, named |-> FALSE, timer |-> TRUE, preview |-> None]
newRoute == [id |-> None, priority |-> 100, sinks |-> {}]
Config(s) == [place |-> s.place, to |-> s.to, body |-> s.body]

-----------------------------------------------------------------------------
(* Calls. *)

Ask(kind, id, with) == [kind |-> kind, id |-> id, with |-> with, mine |-> TRUE, served |-> FALSE,
                        ok |-> TRUE, had |-> FALSE, lost |-> FALSE]

Clicked == count.clicks < MaxClicks /\ count' = [count EXCEPT !.clicks = @ + 1]
Call(c) == Len(calls) < MaxUnderWay /\ calls' = Append(calls, c)

\* What the editor that closes asked for is for nobody.
Orphaned(cs) == [i \in DOMAIN cs |-> [cs[i] EXCEPT !.mine = FALSE]]

reload == <<Ask("sinks", None, None)>>
Reads == {"sinks", "routes", "deliveries", "preview", "body"}

-----------------------------------------------------------------------------
(* What Go does. *)

storedSink(id) == IF id \in DOMAIN go.sinks THEN go.sinks[id] ELSE None
SameDestination(a, b) == a.place = b.place

\* A plausible bug: what is stored is looked up by the id alone.
ByTheId(c) == FALSE

\* Is an existing destination pointed somewhere else?
rebound(c) == IF storedSink(c.id) = None THEN FALSE ELSE ~SameDestination(storedSink(c.id), c.with)

\* A credential given is stored for the place it was given for; none given
\* keeps the one there is, unless the destination moved.
NotifySaveSink(c, stores) ==
  LET id == IF c.id = None THEN Spare(Sinks, go.sinks) ELSE c.id
      held == IF id \in DOMAIN go.secret THEN go.secret[id] ELSE None
      then == IF c.with.secret /\ stores THEN c.with.place
              ELSE IF ~c.with.secret /\ rebound(c) THEN None ELSE held
  IN [ok |-> stores \/ ~c.with.secret, had |-> then # None, lost |-> held # None /\ then = None,
      go |-> [go EXCEPT !.sinks = Put(@, id, Config(c.with)), !.secret = Put(@, id, then)]]

\* A rule left with no destination is disabled, not deleted.
unbindSinkFromRoutes(id) ==
  [r \in DOMAIN go.routes |->
     LET v == go.routes[r] IN
     IF id \notin v.sinks THEN v ELSE [v EXCEPT !.sinks = @ \ {id}, !.on = @ /\ v.sinks # {id}]]

NotifyDeleteSink(id) ==
  [go EXCEPT !.secret = Without(@, id), !.sinks = Without(@, id), !.routes = unbindSinkFromRoutes(id)]

\* A test without a credential uses the stored one, for the stored destination
\* only: [ok, strayed].
NotifyTestSink(c) ==
  LET held == IF c.id \in DOMAIN go.secret THEN go.secret[c.id] ELSE None
  IN [ok |-> c.with.secret \/ ~rebound(c), strayed |-> ~c.with.secret /\ ~rebound(c) /\ held \notin {None, c.with.place}]

RetryDelivery(id) == [go EXCEPT !.box[id].state = "pending"]

Done(c, stores) ==
  LET Yes(g) == [ok |-> TRUE, go |-> g, had |-> FALSE, lost |-> FALSE]
      No == [Yes(go) EXCEPT !.ok = FALSE]
      rid == IF c.id = None THEN Spare(Routes, go.routes) ELSE c.id
  IN CASE c.kind = "save"   -> IF c.id = None /\ Spare(Sinks, go.sinks) = None THEN No ELSE NotifySaveSink(c, stores)
       [] c.kind = "delete" -> Yes(NotifyDeleteSink(c.id))
       [] c.kind = "clear"  -> Yes([go EXCEPT !.secret = Put(@, c.id, None)])
       [] c.kind = "test"   -> IF NotifyTestSink(c).ok THEN Yes(go) ELSE No
       [] c.kind = "saveRoute"   -> IF rid = None THEN No
                                    ELSE Yes([go EXCEPT !.routes = Put(@, rid, [priority |-> c.with.priority, typed |-> c.with.typed,
                                                                sinks |-> c.with.sinks, on |-> TRUE])])
       [] c.kind = "deleteRoute" -> Yes([go EXCEPT !.routes = Without(@, c.id)])
       [] c.kind = "retry"  -> Yes(RetryDelivery(c.id))
       [] OTHER -> Yes(go)

serve ==
  \E i \in DOMAIN calls, stores \in (IF Silent THEN {TRUE} ELSE BOOLEAN) :
    LET c == calls[i]
        r == Done(c, stores)
    IN /\ ~c.served /\ c.kind \notin Reads
       /\ go' = r.go
       /\ calls' = [calls EXCEPT ![i].served = TRUE, ![i].ok = r.ok, ![i].had = r.had, ![i].lost = r.lost]
       /\ kept' = [kept EXCEPT
            !.strayed = @ \/ (c.kind = "test" /\ NotifyTestSink(c).strayed)]
       /\ UNCHANGED <<screen, editor, rule, count>>

\* The dispatcher sends what is owed, or gives it up.
dispatched ==
  /\ count.news < MaxNews /\ count' = [count EXCEPT !.news = @ + 1]
  /\ \E d \in DOMAIN go.box, to \in {"sent", "dead"} :
       /\ go.box[d].state = "pending" /\ go' = [go EXCEPT !.box[d].state = to]
       /\ kept' = [kept EXCEPT !.sent = IF to = "sent" THEN Append(@, d) ELSE @]
  /\ UNCHANGED <<screen, editor, rule, calls>>

-----------------------------------------------------------------------------
(* What the page makes of an answer. *)

Listed == [id \in DOMAIN go.sinks |-> [place |-> go.sinks[id].place, to |-> go.sinks[id].to, body |-> go.sinks[id].body,
             raw |-> None, had |-> IF id \in DOMAIN go.secret THEN go.secret[id] # None ELSE FALSE]]
OfState(f) == [d \in {e \in DOMAIN go.box : f \in {"", go.box[e].state}} |-> go.box[d].state]

\* A plausible bug: what comes after a change lists every delivery.
Everything(c) == <<Ask(IF c.kind = "sinks" THEN "routes" ELSE "deliveries", None, "")>>

\* The lists are asked one after the other, the last under the filter there is by then.
NextList(c) == <<Ask(IF c.kind = "sinks" THEN "routes" ELSE "deliveries", None, screen.filter)>>

\* A plausible bug: a destination that is gone stays in the list.
NotReloaded(c) == IF c.kind = "delete" THEN <<>> ELSE reload

AfterChange(c) == reload

Follows(c) ==
  CASE c.kind \in {"sinks", "routes"} -> NextList(c)
    [] c.kind \in {"save", "delete", "saveRoute", "deleteRoute"} /\ c.ok -> AfterChange(c)
    [] c.kind = "retry" -> <<Ask("deliveries", None, screen.filter)>>
    [] OTHER -> <<>>

ScreenAfter(c) ==
  CASE c.kind = "sinks"      -> [screen EXCEPT !.rows = Listed]
    [] c.kind = "routes"     -> [screen EXCEPT !.routes = go.routes]
    [] c.kind = "deliveries" -> [screen EXCEPT !.log = OfState(c.with)]
    [] c.kind = "test"       -> [screen EXCEPT !.testing = None]
    [] OTHER -> screen

\* A save closes the editor there is; the list that is read again is no longer
\* the one the editor shares its fields with; a preview and a starting body are
\* put where they were asked for.
EditorAfter(c) ==
  CASE editor = None -> None
    [] editor # None /\ c.kind = "save" /\ c.ok -> None
    [] editor # None /\ c.kind = "sinks"   -> [editor EXCEPT !.shares = FALSE]
    [] editor # None /\ c.kind = "clear"   -> [editor EXCEPT !.had = FALSE, !.secret = FALSE, !.timer = TRUE]
    [] editor # None /\ c.kind = "preview" /\ c.mine -> [editor EXCEPT !.preview = c.with]
    [] editor # None /\ c.kind = "body" /\ c.mine    -> [editor EXCEPT !.body = "default", !.timer = TRUE]
    [] OTHER -> editor

\* The page says a credential is gone when it knew of one, and Go has none left.
SaidUnbound(c) == c.ok /\ c.with.had /\ ~c.with.secret /\ ~c.had

\* Reads are answered in the order they were made, and as of when they are
\* answered. A preview or a body asked by an editor that was closed is for nobody.
answer ==
  \E i \in DOMAIN calls :
    LET c == calls[i] IN
    /\ c.served \/ c.kind \in Reads
    /\ c.kind \in Reads => \A j \in 1..(i - 1) : calls[j].kind \notin Reads
    /\ screen' = ScreenAfter(c) /\ editor' = EditorAfter(c)
    /\ rule' = IF c.kind = "saveRoute" /\ c.ok THEN None ELSE rule
    /\ calls' = (IF c.kind = "save" /\ c.ok THEN Orphaned(RemoveAt(calls, i)) ELSE RemoveAt(calls, i)) \o Follows(c)
    /\ kept' = IF c.kind = "save" /\ c.lost /\ ~SaidUnbound(c) THEN [kept EXCEPT !.silent = @ \cup {c.with.had}] ELSE kept
    /\ UNCHANGED <<go, count>>

-----------------------------------------------------------------------------
(* The gestures. No editor is over another, and the list is behind it. *)

NoEditor == editor = None /\ rule = None

add == /\ NoEditor /\ Clicked /\ editor' = newSink /\ UNCHANGED <<go, screen, rule, calls, kept>>

\* A row is copied but for what is nested in it: the editor and the row share
\* the place and the recipients, the ones typed but not saved included.
edit ==
  /\ NoEditor /\ Clicked
  /\ \E id \in DOMAIN screen.rows :
       LET s == screen.rows[id] IN
       editor' = [newSink EXCEPT !.id = id, !.place = s.place, !.to = s.to, !.body = s.body, !.raw = s.raw,
                                 !.text = s.to, !.had = s.had, !.shares = TRUE, !.named = TRUE]
  /\ UNCHANGED <<go, screen, rule, calls, kept>>

\* A plausible bug: only the template is watched.
TheTemplate(f) == f = "body"

\* A new preview is asked a moment after any field changed.
refreshPreview(f) == TRUE

Type(f, v) ==
  /\ editor # None /\ Clicked
  /\ editor' = [editor EXCEPT ![f] = v, !.timer = @ \/ refreshPreview(f), !.text = IF f = "raw" THEN v ELSE @]
  /\ screen' = IF f \in {"place", "raw"} /\ editor.shares /\ editor.id \in DOMAIN screen.rows
               THEN [screen EXCEPT !.rows[editor.id][f] = v] ELSE screen
  /\ UNCHANGED <<go, rule, calls, kept>>

name        == ~editor.named /\ Type("named", TRUE)
place       == \E p \in Places \ {editor.place} : Type("place", p)
recipients  == \E l \in Lists \ {editor.to} : Type("raw", l)
credential  == \E b \in BOOLEAN \ {editor.secret} : Type("secret", b)
template    == Type("body", "typed")

useDefaultPayload == editor # None /\ Clicked /\ Call(Ask("body", None, None)) /\ UNCHANGED <<go, screen, editor, rule, kept>>

\* Escape, the backdrop or Cancel. Escape is stopped here: the settings stay.
closeEditor ==
  /\ editor # None \/ rule # None
  /\ editor' = None /\ rule' = IF editor # None THEN rule ELSE None
  /\ calls' = Orphaned(calls) /\ UNCHANGED <<go, screen, kept, count>>

\* The preview is asked for what the form holds a moment after it changed.
previewDue ==
  /\ IF editor = None THEN FALSE ELSE editor.timer
  /\ Call(Ask("preview", None, Config(editor))) /\ editor' = [editor EXCEPT !.timer = FALSE]
  /\ UNCHANGED <<go, screen, rule, kept, count>>

\* The recipients typed as one line become the list that is saved.
TakenApart(s) == IF s.raw = None THEN s ELSE [s EXCEPT !.to = s.raw, !.raw = None, !.timer = TRUE]

saveSink ==
  /\ (IF editor = None THEN FALSE ELSE editor.named) /\ Clicked
  /\ LET s == TakenApart(editor) IN
     /\ Call(Ask("save", s.id, s)) /\ editor' = s
     /\ screen' = IF s.shares /\ s.id \in DOMAIN screen.rows
                  THEN [screen EXCEPT !.rows[s.id].to = s.to, !.rows[s.id].raw = None] ELSE screen
  /\ UNCHANGED <<go, rule, kept>>

clearSecret ==
  /\ (IF editor = None THEN FALSE ELSE editor.had /\ editor.id # None) /\ Clicked
  /\ Call(Ask("clear", editor.id, None)) /\ UNCHANGED <<go, screen, editor, rule, kept>>

Test(id, s) ==
  /\ Clicked /\ Call(Ask("test", id, s)) /\ screen' = [screen EXCEPT !.testing = IF id = None THEN "new" ELSE id]
  /\ UNCHANGED <<go, editor, rule, kept>>

\* A row's button waits for its own test, the editor's for that of a new destination.
testSink ==
  IF editor # None THEN screen.testing # "new" /\ Test(editor.id, editor)
  ELSE rule = None /\ \E id \in DOMAIN screen.rows \ {screen.testing} :
         Test(id, [newSink EXCEPT !.id = id, !.place = screen.rows[id].place, !.to = screen.rows[id].to])

removeSink ==
  /\ NoEditor /\ Clicked /\ \E id \in DOMAIN screen.rows : Call(Ask("delete", id, None))
  /\ UNCHANGED <<go, screen, editor, rule, kept>>

addRoute == /\ NoEditor /\ DOMAIN screen.rows # {} /\ Clicked
            /\ rule' = newRoute /\ UNCHANGED <<go, screen, editor, calls, kept>>

editRoute ==
  /\ NoEditor /\ Clicked
  /\ \E r \in DOMAIN screen.routes :
       rule' = [id |-> r, priority |-> screen.routes[r].priority, sinks |-> screen.routes[r].sinks]
  /\ UNCHANGED <<go, screen, editor, calls, kept>>

toggleIn(set, x) == IF x \in set THEN set \ {x} ELSE set \cup {x}

fillRoute ==
  /\ rule # None /\ Clicked
  /\ \/ \E p \in Priorities \ {rule.priority} : rule' = [rule EXCEPT !.priority = p]
     \/ \E id \in DOMAIN screen.rows : rule' = [rule EXCEPT !.sinks = toggleIn(@, id)]
  /\ UNCHANGED <<go, screen, editor, calls, kept>>

\* A plausible bug: a zero is taken for nothing typed.
OrTheDefault(p) == IF p \in {None, 0} THEN 100 ELSE p

\* Zero is the first rule of all, nothing typed the default.
PriorityOf(p) == IF p = None THEN 100 ELSE p

saveRoute ==
  /\ rule # None /\ Clicked
  /\ LET v == [rule EXCEPT !.priority = PriorityOf(@)] IN
     Call(Ask("saveRoute", rule.id, [priority |-> v.priority, sinks |-> v.sinks, typed |-> rule.priority])) /\ rule' = v
  /\ UNCHANGED <<go, screen, editor, kept>>

removeRoute ==
  /\ NoEditor /\ Clicked /\ \E r \in DOMAIN screen.routes : Call(Ask("deleteRoute", r, None))
  /\ UNCHANGED <<go, screen, editor, rule, kept>>

loadDeliveries ==
  /\ NoEditor /\ Clicked
  /\ \E f \in States \cup {""} : Call(Ask("deliveries", None, f)) /\ screen' = [screen EXCEPT !.filter = f]
  /\ UNCHANGED <<go, editor, rule, kept>>

retryDelivery ==
  /\ NoEditor /\ Clicked
  /\ \E d \in DOMAIN screen.log : screen.log[d] = "dead" /\ Call(Ask("retry", d, None))
  /\ UNCHANGED <<go, screen, editor, rule, kept>>

-----------------------------------------------------------------------------
Stored ==
  [sinks |-> [id \in DOMAIN Given |-> [place |-> Given[id], to |-> <<>>, body |-> "none"]],
   secret |-> Given,
   routes |-> [r \in {CHOOSE r \in Routes : TRUE} |-> [priority |-> 100, typed |-> 100, sinks |-> DOMAIN Given, on |-> TRUE]],
   box |-> Box]

Init ==
  /\ go = Stored
  /\ screen = [rows |-> [id \in {} |-> {}], routes |-> [r \in {} |-> {}], log |-> [d \in {} |-> {}],
               filter |-> "", testing |-> None]
  /\ editor = None /\ rule = None /\ calls = reload
  /\ kept = [strayed |-> FALSE, silent |-> {}, sent |-> <<>>]
  /\ count = [clicks |-> 0, news |-> 0]

Fields == editor # None /\ (name \/ place \/ recipients \/ credential \/ template)

Next ==
  \/ serve \/ dispatched \/ answer \/ add \/ edit \/ Fields \/ useDefaultPayload \/ closeEditor \/ previewDue
  \/ saveSink \/ clearSecret \/ testSink \/ removeSink \/ addRoute \/ editRoute \/ fillRoute \/ saveRoute
  \/ removeRoute \/ loadDeliveries \/ retryDelivery

Spec == Init /\ [][Next]_vars

-----------------------------------------------------------------------------
(* A credential is used for the place it was given for, whatever is saved,  *)
(* tested or cleared meanwhile: it does not follow its destination          *)
(* (NotifySaveSink, boundSinkSecret).                                       *)
CredentialStays ==
  /\ \A id \in DOMAIN go.secret \cap DOMAIN go.sinks : go.secret[id] \in {None, go.sinks[id].place}
  /\ ~kept.strayed

(* When nothing is under way the page lists the destinations and the rules  *)
(* there are (reload after every change).                                   *)
PageIsWhatIsStored ==
  calls = <<>> => /\ DOMAIN screen.rows = DOMAIN go.sinks
                  /\ screen.routes = go.routes

(* The log holds deliveries of the state chosen, once it has been read      *)
(* again, whatever else was read meanwhile (loadDeliveries, reload).        *)
LogIsOfTheFilter ==
  (\A i \in DOMAIN calls : calls[i].kind # "deliveries") =>
    \A d \in DOMAIN screen.log : screen.filter \in {"", screen.log[d]}

(* A rule is stored with the priority that was typed, zero included         *)
(* (saveRoute).                                                             *)
PriorityAsTyped ==
  \A r \in DOMAIN go.routes : go.routes[r].priority = IF go.routes[r].typed = None THEN 100 ELSE go.routes[r].typed

(* Once the editor has been left alone the preview is of what it holds      *)
(* (TemplateEditor: `$: sink, previewKind, refreshPreview()').              *)
PreviewIsOfTheForm ==
  (editor # None /\ (\A i \in DOMAIN calls : calls[i].kind # "preview")) =>
    \/ editor.timer
    \/ editor.preview = Config(editor)

(* By hand: the recipients that are saved are those the editor shows.       *)
SavedAsShown == editor # None => TakenApart(editor).to = editor.text

(* By hand: what the page lists of a destination is what is stored of it.   *)
RowIsWhatIsStored ==
  (calls = <<>> /\ editor = None) =>
    \A id \in DOMAIN screen.rows : /\ screen.rows[id].place = go.sinks[id].place
                                    /\ screen.rows[id].raw = None
                                    /\ screen.rows[id].had = (go.secret[id] # None)

(* A credential that a save unbinds is said to be gone, when the form that  *)
(* is saved knew of it (saveSink: "Say so").                                *)
UnboundIsSaid == TRUE \notin kept.silent

(* The page is as it was set: credentials stay with their destinations, and *)
(* list, log, preview and priorities are of what is stored and typed.       *)
NotificationsAsSet ==
  /\ CredentialStays /\ UnboundIsSaid
  /\ PageIsWhatIsStored /\ LogIsOfTheFilter /\ PriorityAsTyped /\ PreviewIsOfTheForm

(* By hand: it is said to be gone whatever the form knew.                   *)
EveryUnboundIsSaid == kept.silent = {}

(* By hand: a rule names destinations there are.                            *)
RulesNameLive == \A r \in DOMAIN go.routes : go.routes[r].sinks \subseteq DOMAIN go.sinks

(* By hand: a delivery is sent once.                                        *)
SentOnce == IsInjective(kept.sent)

(* By hand: one form makes one destination.                                 *)
OneFormOneSink ==
  \A i, j \in DOMAIN calls : (i # j /\ calls[i].kind = "save" /\ calls[j].kind = "save") => ~(calls[i].id = None /\ calls[j].id = None)
=============================================================================
