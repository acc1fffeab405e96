------------------------------- MODULE EditorText -------------------------------
(***************************************************************************)
(* The text area of the MIB editor: its undo history and its find bar      *)
(* (frontend/src/mibeditor/history.js, search.js, MibEditorPanel.svelte).  *)
(*                                                                         *)
(* A text is a sequence over a small alphabet.  The browser's own history  *)
(* is never used: an edit is seen as the text before and the text after,   *)
(* and what it was is worked out from the two and from the caret.          *)
(***************************************************************************)
EXTENDS Integers, Sequences, FiniteSetsExt

CONSTANTS
  Letters, Boundary,   \* the alphabet: a boundary ends a run of typing
  Snippets,            \* the strings that are pasted, inserted, searched and replaced with
  Refuses,             \* whether the webview may refuse execCommand
  HintWindow, MAX_DEPTH,
  MaxLength, MaxClicks \* bounds: the length of the text, what the operator does

Chars == Letters \cup {Boundary}

VARIABLES
  text,    \* the buffer
  caret,   \* the number of characters before it
  prev,    \* prevText
  hist,    \* base, entries, cursor
  atomicEdit,
  popup,   \* the range of the word that would be completed, or <<>>
  find,    \* open, term, index, resume: where to go on after a replacement, first
  clicks

vars == <<text, caret, prev, hist, atomicEdit, popup, find, clicks>>

Click == clicks < MaxClicks /\ clicks' = clicks + 1

Start(s, n) == SubSeq(s, 1, n)
After(s, n)  == SubSeq(s, n + 1, Len(s))
Splice(s, at, n, in) == Start(s, at) \o in \o After(s, at + n)

-----------------------------------------------------------------------------
(* The smallest edit between two texts. *)

Edit(at, removed, inserted) == [at |-> at, removed |-> removed, inserted |-> inserted]

exactDiff(before, after) ==
  LET shorter == Min({Len(before), Len(after)})
      start == Max({n \in 0..shorter : Start(before, n) = Start(after, n)})
      tail  == Max({n \in 0..(shorter - start) :
                          After(before, Len(before) - n) = After(after, Len(after) - n)})
  IN Edit(start, SubSeq(before, start + 1, Len(before) - tail), SubSeq(after, start + 1, Len(after) - tail))

\* Around the caret first: what is outside the window must be the same.
diff(before, after, hint) ==
  LET delta    == Len(after) - Len(before)
      lo       == Max({0, Min({hint, Len(before), Len(after)}) - HintWindow})
      hiBefore == Min({Len(before), hint + HintWindow})
      hiAfter  == hiBefore + delta
      d        == exactDiff(SubSeq(before, lo + 1, hiBefore), SubSeq(after, lo + 1, hiAfter))
  IN IF /\ Start(before, lo) = Start(after, lo)
        /\ hiAfter >= lo /\ hiAfter <= Len(after)
        /\ After(before, hiBefore) = After(after, hiAfter)
       THEN [d EXCEPT !.at = lo + d.at]
       ELSE exactDiff(before, after)

Forward(s, e) == Splice(s, e.at, Len(e.removed), e.inserted)
Back(s, e)    == Splice(s, e.at, Len(e.inserted), e.removed)

-----------------------------------------------------------------------------
(* The history. *)

createHistory(initial) == [base |-> initial, entries |-> <<>>, cursor |-> 0]

Inserts(e) == e.removed = <<>>  /\ e.inserted # <<>>
Deletes(e) == e.inserted = <<>> /\ e.removed # <<>>

\* A plausible bug: typing goes on a run whatever place it is at.
CoalesceAnywhere(last, next, soon, atomic) ==
  ~atomic /\ ~last.atomic /\ soon /\ Inserts(last) = Inserts(next) /\ Deletes(last) = Deletes(next)

\* Whether an edit goes on with the last one: a run of typing up to a boundary,
\* or of backspaces, each where the other stopped.
shouldCoalesce(last, next, soon, atomic) ==
  /\ ~atomic /\ ~last.atomic /\ soon
  /\ \/ /\ Inserts(last) /\ Inserts(next)
        /\ next.at = last.at + Len(last.inserted)
        /\ last.inserted[Len(last.inserted)] # Boundary
     \/ /\ Deletes(last) /\ Deletes(next)
        /\ next.at + Len(next.removed) = last.at
        /\ next.removed[1] # Boundary

Extended(last, d, selAfter) ==
  IF last.removed = <<>>
    THEN [last EXCEPT !.inserted = @ \o d.inserted, !.selAfter = selAfter]
    ELSE [last EXCEPT !.at = d.at, !.removed = d.removed \o @, !.selAfter = selAfter]

\* What was undone is out of reach; the oldest edit is folded into the base.
record(before, after, selBefore, selAfter, soon, atomic) ==
  LET d    == diff(before, after, Min({selBefore, selAfter}))
      kept == Start(hist.entries, hist.cursor)
      n    == Len(kept)
      step == [at |-> d.at, removed |-> d.removed, inserted |-> d.inserted,
               selBefore |-> selBefore, selAfter |-> selAfter, atomic |-> atomic]
      all  == Append(kept, step)
  IN IF before = after THEN hist
     ELSE IF n > 0 /\ shouldCoalesce(kept[n], d, soon, atomic)
       THEN [hist EXCEPT !.entries = [kept EXCEPT ![n] = Extended(kept[n], d, selAfter)]]
     ELSE IF n < MAX_DEPTH
       THEN [hist EXCEPT !.entries = all, !.cursor = n + 1]
     ELSE [base |-> Forward(hist.base, all[1]), entries |-> Tail(all), cursor |-> n]

-----------------------------------------------------------------------------
(* The find bar. *)

At(s, term) == {i \in 0..(Len(s) - Len(term)) : SubSeq(s, i + 1, i + Len(term)) = term}

\* Every occurrence from the left, none over another.
findMatches(s, term) ==
  LET from[i \in 0..(Len(s) + Len(term))] ==
        LET ahead == {a \in At(s, term) : a >= i}
        IN IF term = <<>> \/ ahead = {} THEN <<>>
           ELSE <<Min(ahead)>> \o from[Min(ahead) + Len(term)]
  IN from[0]

applyReplaceAll(s, term, replacement) ==
  LET found == findMatches(s, term)
      upto[n \in 0..Len(found)] ==
        IF n = 0 THEN s
        ELSE Splice(upto[n - 1], found[n] + (n - 1) * (Len(replacement) - Len(term)), Len(term), replacement)
  IN upto[Len(found)]

nextIndex(i, total, backwards) == (i + (IF backwards THEN total - 1 ELSE 1)) % total

Matches == IF find.open THEN findMatches(text, find.term) ELSE <<>>

\* The matches are those of the text that is shown: the current one is the
\* first of a new term, the next after what was replaced, or about where it was.
Refound(s, f) ==
  LET found == IF f.open THEN findMatches(s, f.term) ELSE <<>>
      ahead == {n \in 1..Len(found) : found[n] >= f.resume}
      held  == IF f.index < Len(found) THEN f.index ELSE Max({0, Len(found) - 1})
  IN IF found = <<>> THEN [f EXCEPT !.index = 0]
     ELSE IF f.first THEN [f EXCEPT !.first = FALSE, !.index = 0]
     ELSE IF f.resume >= 0 THEN [f EXCEPT !.resume = -1, !.index = IF ahead = {} THEN 0 ELSE Min(ahead) - 1]
     ELSE [f EXCEPT !.index = held]

Closed == [open |-> FALSE, term |-> <<>>, index |-> 0, resume |-> -1, first |-> FALSE]

-----------------------------------------------------------------------------
(* The text area. *)

\* The word that ends at the caret is completed from its second character on.
updateCompletion(s, at) ==
  LET starts == {a \in 0..at : (\A n \in (a + 1)..at : s[n] \in Letters) /\ (a = 0 \/ s[a] \notin Letters)}
      a == Min(starts \cup {at})
  IN IF at - a < 2 \/ (at < Len(s) /\ s[at + 1] \in Letters) THEN <<>> ELSE <<a, at>>

\* The browser made an edit, and says so: it is recorded against prevText.
onInput(after, at, selBefore, atomic, f) ==
  /\ Len(after) <= MaxLength
  /\ text' = after /\ caret' = at /\ prev' = after
  /\ \E soon \in BOOLEAN : hist' = record(prev, after, selBefore, at, soon, atomic)
  /\ atomicEdit' = FALSE
  /\ popup' = updateCompletion(after, at)
  /\ find' = Refound(after, f)

Type ==
  \E c \in Chars :
    Click /\ onInput(Splice(text, caret, 0, <<c>>), caret + 1, caret, atomicEdit, find)

Erase ==
  /\ Click /\ caret > 0
  /\ onInput(Splice(text, caret - 1, 1, <<>>), caret - 1, caret, atomicEdit, find)

MoveCaret ==
  \E at \in 0..Len(text) :
    /\ Click /\ at # caret
    /\ caret' = at
    /\ popup' \in {popup, <<>>}      \* the arrow keys leave it, a click does not
    /\ UNCHANGED <<text, prev, hist, atomicEdit, find>>

\* insertAtCaret and replaceRange: one step for what was done in one go.  A
\* webview that refuses the edit gets the text from the store.
insertAtCaret(in, start, stop, f) ==
  LET after == Splice(text, start, stop - start, in)
  IN \/ after # text /\ onInput(after, start + Len(in), start, TRUE, f)
     \/ /\ after = text
        /\ caret' = start + Len(in) /\ atomicEdit' = TRUE /\ find' = Refound(text, f)
        /\ UNCHANGED <<text, prev, hist, popup>>
     \/ /\ Refuses /\ Len(after) <= MaxLength
        /\ text' = after /\ caret' = start + Len(in)
        /\ popup' = <<>> /\ find' = Refound(after, f)
        /\ atomicEdit' = TRUE
        /\ UNCHANGED <<prev, hist>>

insertSnippet ==
  \E in \in Snippets : Click /\ insertAtCaret(in, caret, caret, find)

\* The repair of the IMPORTS replaces the whole text as one edit.
fixImports ==
  \E in \in Snippets : Click /\ insertAtCaret(in \o text, 0, Len(text), find)

\* The range of the popup, cut to the text there is.
acceptCompletion ==
  \E in \in Snippets :
    /\ Click /\ popup # <<>>
    /\ insertAtCaret(in, Min({popup[1], Len(text)}), Min({popup[2], Len(text)}), find)

applyHistory(after, at, cursor) ==
  /\ text' = after /\ prev' = after /\ caret' = Min({at, Len(after)})
  /\ hist' = [hist EXCEPT !.cursor = cursor]
  /\ find' = Refound(after, find)
  /\ UNCHANGED <<popup, atomicEdit>>

undoEdit ==
  LET e == hist.entries[hist.cursor]
  IN /\ Click /\ hist.cursor > 0
     /\ applyHistory(Back(prev, e), e.selBefore, hist.cursor - 1)

redoEdit ==
  LET e == hist.entries[hist.cursor + 1]
  IN /\ Click /\ hist.cursor < Len(hist.entries)
     /\ applyHistory(Forward(prev, e), e.selAfter, hist.cursor + 1)

\* Another tab and back, a revert, another file: the history starts again.
resetHistory ==
  /\ Click
  /\ prev' = text /\ hist' = createHistory(text) /\ caret' = 0 /\ popup' = <<>>
  /\ find' = Closed /\ atomicEdit' = FALSE
  /\ UNCHANGED text

-----------------------------------------------------------------------------
(* Find and replace. *)

Search ==
  \E term \in Snippets :
    /\ Click /\ find.term # term
    /\ find' = Refound(text, [find EXCEPT !.open = TRUE, !.term = term, !.index = 0, !.first = TRUE])
    /\ UNCHANGED <<text, caret, prev, hist, atomicEdit, popup>>

findNext ==
  \E backwards \in BOOLEAN :
    /\ Click /\ Matches # <<>>
    /\ find' = [find EXCEPT !.index = nextIndex(@, Len(Matches), backwards)]
    /\ UNCHANGED <<text, caret, prev, hist, atomicEdit, popup>>

\* The search goes on past what was put in.
replaceCurrent ==
  \E in \in Snippets \cup {<<>>} :
    LET at == Matches[find.index + 1]
    IN /\ Click /\ Matches # <<>>
       /\ insertAtCaret(in, at, at + Len(find.term), [find EXCEPT !.resume = at + Len(in)])

replaceAll ==
  \E in \in Snippets \cup {<<>>} :
    LET all == applyReplaceAll(text, find.term, in)
    IN /\ Click /\ Matches # <<>>
       /\ insertAtCaret(all, 0, Len(text), [find EXCEPT !.index = 0])

closeFind ==
  /\ Click /\ find.open
  /\ find' = Closed
  /\ UNCHANGED <<text, caret, prev, hist, atomicEdit, popup>>

DismissPopup ==
  /\ Click /\ popup # <<>>
  /\ popup' = <<>>
  /\ UNCHANGED <<text, caret, prev, hist, atomicEdit, find>>

onKeydown == Type \/ Erase \/ acceptCompletion \/ DismissPopup \/ undoEdit \/ redoEdit

-----------------------------------------------------------------------------
Init ==
  /\ text \in {<<>>} \cup Snippets
  /\ caret = 0 /\ prev = text /\ hist = createHistory(text)
  /\ atomicEdit = FALSE /\ popup = <<>> /\ find = Closed /\ clicks = 0

Next ==
  \/ onKeydown \/ MoveCaret \/ insertSnippet \/ fixImports \/ resetHistory
  \/ Search \/ findNext \/ replaceCurrent \/ replaceAll \/ closeFind

Spec == Init /\ [][Next]_vars

-----------------------------------------------------------------------------
\* Undo walks back to the text the history began with, and redo to the text
\* that is shown, through every text that lies between: a step that is merged
\* with another, folded into the base or cut off applies to its own text only
\* (history.js:160-234).
Replay(n) ==
  LET at[k \in 0..n] == IF k = 0 THEN hist.base ELSE Forward(at[k - 1], hist.entries[k])
  IN at[n]

UndoReturns ==
  /\ Replay(hist.cursor) = text
  /\ \A n \in 1..Len(hist.entries) :
       LET e == hist.entries[n]
       IN /\ Back(Replay(n), e) = Replay(n - 1)
          /\ e.selBefore <= Len(Replay(n - 1)) /\ e.selAfter <= Len(Replay(n))

\* By hand: a completion replaces the word it was offered for (lines 692-697).
PopupOnItsWord ==
  popup # <<>> => popup[2] <= Len(text) /\ \A n \in (popup[1] + 1)..popup[2] : text[n] \in Letters
=============================================================================
