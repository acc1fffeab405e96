-------------------------------- MODULE SmiView --------------------------------
(***************************************************************************)
(* What the MIB editor paints over its text area: the coloured mirror, the *)
(* gutter and the positions of marks, popups and hover cards               *)
(* (frontend/src/mibeditor/tokenize.js, render.js, metrics.js and          *)
(* MibEditorPanel.svelte).                                                 *)
(*                                                                         *)
(* Only the lines on screen are coloured, and what is in a string there is *)
(* found by a scan that colours nothing: the window must be painted as it  *)
(* would be in the whole file, and have its height.                        *)
(***************************************************************************)
EXTENDS Integers, Sequences, FiniteSetsExt, SequencesExt

CONSTANTS Letter, Dash, Quote, Tab, Newline,   \* the alphabet
          TAB_SIZE, VIEW_MARGIN, GutterStep,
          Height,                              \* the lines that fit on screen
          MaxLength                            \* bound: the length of the text

Chars == {Letter, Dash, Quote, Tab, Newline}

VARIABLES
  text,
  scroll,   \* the line the view was scrolled to, and may no longer exist
  gutter    \* gutterCache: the numbers beside the lines

vars == <<text, scroll, gutter>>

-----------------------------------------------------------------------------
(* Lines and positions. *)

Breaks(s) == {i \in 1..Len(s) : s[i] = Newline}
lineCount(s) == 1 + Cardinality(Breaks(s))

\* The character offset each line starts at.
lineStarts(s) == SetToSortSeq({0} \cup Breaks(s), LAMBDA a, b : a < b)

Line(s, n) ==
  LET starts == lineStarts(s) \o <<Len(s) + 1>>
  IN SubSeq(s, starts[n] + 1, starts[n + 1] - 1)

\* Counted from the text before the offset.
lineColumnAt(s, offset) ==
  LET upto == SubSeq(s, 1, offset)
  IN <<lineCount(upto), Len(Line(upto, lineCount(upto))) + 1>>

\* A plausible bug: the start of a line is taken for the end of the one above.
LineColumnBefore(starts, offset) ==
  LET n == Max({1} \cup {k \in 1..Len(starts) : starts[k] < offset}) IN <<n, offset - starts[n] + 1>>

\* Looked up by halves among the starts of the lines.
lineColumnFrom(starts, offset) ==
  LET find[lo, hi \in 1..Len(starts)] ==
        LET mid == (lo + hi + 1) \div 2
        IN IF lo >= hi THEN lo
           ELSE IF starts[mid] <= offset THEN find[mid, hi] ELSE find[lo, mid - 1]
      n == find[1, Len(starts)]
  IN <<n, offset - starts[n] + 1>>

Widened(visual, c) == visual + (IF c = Tab THEN TAB_SIZE - (visual % TAB_SIZE) ELSE 1)

visualColumn(line, column) ==
  LET upto[n \in 0..Len(line)] == IF n = 0 THEN 0 ELSE Widened(upto[n - 1], line[n])
  IN upto[Min({column - 1, Len(line)})]

\* The offset under a point: the line is walked to the visual column.
offsetAt(s, visual, line) ==
  LET here == Line(s, line)
      column == Min({n \in 0..Len(here) : n = Len(here) \/ visualColumn(here, n + 1) >= visual})
  IN lineStarts(s)[line] + column

-----------------------------------------------------------------------------
(* The tokeniser. *)

LineEnd(s, i) == Min({k \in i..Len(s) : s[k] = Newline} \cup {Len(s) + 1})
Opens(s, i)   == i < Len(s) /\ s[i] = Dash /\ s[i + 1] = Dash

\* One past a comment: the next two dashes of the line, or its end.
CommentEnd(s, i) ==
  LET closes == {k \in (i + 2)..Len(s) : Opens(s, k) /\ k < LineEnd(s, i)}
  IN IF closes = {} THEN LineEnd(s, i) ELSE Min(closes) + 2

WordEnd(s, i) == Min({k \in i..Len(s) : s[k] \notin {Letter, Dash}} \cup {Len(s) + 1})

Coloured(class, n) == [k \in 1..n |-> class]

highlight(s, startInString) ==
  LET from[i \in 1..(Len(s) + 1), inString \in BOOLEAN] ==
        IF i > Len(s) THEN <<>>
        ELSE IF s[i] = Newline THEN <<"newline">> \o from[i + 1, inString]
        ELSE IF inString THEN <<"str">> \o from[i + 1, s[i] # Quote]
        ELSE IF s[i] = Quote THEN <<"str">> \o from[i + 1, TRUE]
        ELSE IF Opens(s, i) THEN Coloured("com", CommentEnd(s, i) - i) \o from[CommentEnd(s, i), FALSE]
        ELSE IF s[i] = Letter THEN Coloured("word", WordEnd(s, i) - i) \o from[WordEnd(s, i), FALSE]
        ELSE <<"plain">> \o from[i + 1, FALSE]
  IN from[1, startInString]

\* A plausible bug: a comment is not stepped over, and its quotes count.
QuotesAnywhere(s, index) == Cardinality({i \in 1..index : s[i] = Quote}) % 2 = 1

stringStateAt(s, index) ==
  LET from[i \in 1..(Len(s) + 1), inString \in BOOLEAN] ==
        IF i > index THEN inString
        ELSE IF inString THEN from[i + 1, s[i] # Quote]
        ELSE IF s[i] = Quote THEN from[i + 1, TRUE]
        ELSE IF Opens(s, i) THEN from[CommentEnd(s, i), FALSE]
        ELSE from[i + 1, FALSE]
  IN from[1, FALSE]

-----------------------------------------------------------------------------
(* The panel. *)

firstVisible == Max({0, scroll - VIEW_MARGIN})
lastVisible  == Min({lineCount(text), scroll + Height + VIEW_MARGIN})

\* The lines painted, clamped to those there are: first is the index of the
\* first of them, last one past the last.
Top == Min({firstVisible, lineCount(text)})
Bottom  == Min({Max({lastVisible, Top}), lineCount(text)})

Starts == lineStarts(text) \o <<Len(text) + 1>>
Window == SubSeq(text, Starts[Top + 1] + 1, Starts[Bottom + 1] - 1)

\* The window coloured, between as many empty lines as it leaves out.
renderWindow ==
  IF text = <<>> THEN <<>> ELSE
  Coloured("newline", Top)
    \o (IF Bottom > Top THEN highlight(Window, stringStateAt(text, Starts[Top + 1])) ELSE <<>>)
    \o Coloured("newline", Max({0, lineCount(text) - Bottom}))

\* A few lines more are added to the numbers there are.
buildGutter(n) ==
  IF n = Len(gutter) THEN gutter
  ELSE IF n > Len(gutter) /\ n - Len(gutter) < GutterStep
    THEN gutter \o [k \in 1..(n - Len(gutter)) |-> Len(gutter) + k]
  ELSE [k \in 1..n |-> k]

Becomes(s) == text' = s /\ gutter' = buildGutter(lineCount(s))

Type ==
  \E c \in Chars, at \in 0..Len(text) :
    /\ Len(text) < MaxLength
    /\ Becomes(SubSeq(text, 1, at) \o <<c>> \o SubSeq(text, at + 1, Len(text)))
    /\ UNCHANGED scroll

\* A revert, a restore, an undo, a smaller file: the view is where it was.
Replaced ==
  \E n \in 0..Len(text) :
    /\ n < Len(text)
    /\ Becomes(SubSeq(text, 1, n))
    /\ UNCHANGED scroll

syncScroll ==
  /\ scroll' \in 0..(lineCount(text) - 1)
  /\ UNCHANGED <<text, gutter>>

Init == text = <<>> /\ scroll = 0 /\ gutter = <<1>>
Next == Type \/ Replaced \/ syncScroll
Spec == Init /\ [][Next]_vars

-----------------------------------------------------------------------------
\* A word takes the dashes that follow it, and the scan does not know words.
WordsApart == \A i \in 2..Len(text) : Opens(text, i) => text[i - 1] # Letter

\* The mirror has the lines of the text, and paints those on screen as it would
\* paint them in the whole file (render.js:4, tokenize.js:70): a string that
\* opened above, a quote in a comment, a view scrolled past what is left.
PaintedAsTheFile ==
  text # <<>> /\ WordsApart =>
    LET whole  == highlight(text, FALSE)
        inside == SubSeq(whole, Starts[Top + 1] + 1, Starts[Bottom + 1] - 1)
        lines(p) == Cardinality({i \in 1..Len(p) : p[i] = "newline"})
    IN /\ renderWindow = Coloured("newline", Top) \o inside \o Coloured("newline", lineCount(text) - Bottom)
       /\ Bottom > Top => lines(renderWindow) = lineCount(text) - 1

\* By hand: whatever the text (MibEditorPanel.svelte:672 "so the two cannot
\* disagree about where a DESCRIPTION ends").
ScannersAgree ==
  \A o \in 0..Len(text) :
    o < Len(text) /\ (o = 0 \/ text[o] = Newline) =>
      highlight(SubSeq(text, o + 1, Len(text)), stringStateAt(text, o))
        = SubSeq(highlight(text, FALSE), o + 1, Len(text))

\* Wherever the text is cut into lines, a place in it is the same place for the
\* marks, for the search and under the pointer, tabs included (metrics.js).
PlacesAgree ==
  /\ \A o \in 0..Len(text) :
       LET at == lineColumnAt(text, o)
       IN /\ lineColumnFrom(lineStarts(text), o) = at
          /\ offsetAt(text, visualColumn(Line(text, at[1]), at[2]), at[1]) = o
  /\ gutter = [k \in 1..lineCount(text) |-> k]
=============================================================================
