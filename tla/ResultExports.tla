------------------------------ MODULE ResultExports ------------------------------
(***************************************************************************)
(* What is made of results once they are there: the comparison of the      *)
(* devices (frontend/src/operations/ResultsComparison.svelte) and the      *)
(* files they are exported to (ResultsDisplay.svelte, utils/csv.js).       *)
(*                                                                         *)
(* One variable is enough: rows are compared and written one by one.  A    *)
(* value is a sequence of characters; its number is what parseFloat reads  *)
(* at its head, or None.                                                   *)
(***************************************************************************)
EXTENDS Integers, Sequences, FiniteSets, SequencesExt

CONSTANTS
  Targets,                  \* a sequence
  Digits,                   \* digits, as characters; Of gives their value
  Of,
  Dot, Letter, Comma, Quote, Sign,   \* one character of each kind that differs
  Apostrophe,
  None,
  MaxLength                 \* bound: of a value

Chars  == Digits \cup {Dot, Letter, Comma, Quote, Sign}
Values == BoundedSeq(Chars, MaxLength) \ {<<>>}
Failed == <<None>>          \* a target that did not answer
Absent == <<>>              \* one that has no such variable

VARIABLES
  got,      \* what each target answered
  view,     \* compareEnabled, comparisonViewEnabled
  file      \* the line that was written last, and the cells it is of

vars == <<got, view, file>>

-----------------------------------------------------------------------------
(* The comparison. *)

IsNumber(v) == v # <<>> /\ \A i \in DOMAIN v : v[i] \in Digits

\* parseFloat: the digits the value starts with, whatever follows.
ParseFloat(v) ==
  LET head == SelectInSeq(v, LAMBDA c : c \notin Digits)
      d    == IF head = 0 THEN v ELSE SubSeq(v, 1, head - 1)
  IN IF d = <<>> THEN None ELSE FoldLeft(LAMBDA n, c : 10 * n + Of[c], 0, d)

Answering == SelectSeq(Targets, LAMBDA t : got[t] # Failed)
HasIt     == SelectSeq(Answering, LAMBDA t : got[t] # Absent)
Numbers   == {ParseFloat(got[t]) : t \in ToSet(HasIt)} \ {None}
isNumeric == \A t \in ToSet(HasIt) : ParseFloat(got[t]) # None
Spread    == Max(Numbers) - Min(Numbers)

\* A plausible bug: a variable that one device does not have is left out.
OfThoseThatHaveIt ==
  IF Cardinality({got[t] : t \in ToSet(HasIt)}) <= 1 THEN "identical" ELSE "different"

\* buildEnhancedComparisonData, for one variable; two devices are compared by
\* number where both start with one.
Status ==
  IF Len(HasIt) < Len(Answering) THEN "missing"
  ELSE IF Len(Answering) = 2 /\ isNumeric
         THEN IF Spread = 0 THEN "identical" ELSE "different"
  ELSE IF Cardinality({got[t] : t \in ToSet(HasIt)}) = 1 THEN "identical" ELSE "different"

-----------------------------------------------------------------------------
(* The files. *)

Formula(v)   == v[1] = Sign /\ ~IsNumber(Tail(v))
Neutral(v)   == IF v # <<>> /\ Formula(v) THEN <<Apostrophe>> \o v ELSE v
Doubled(v)   == FlattenSeq([i \in DOMAIN v |-> IF v[i] = Quote THEN <<Quote, Quote>> ELSE <<v[i]>>])

\* A plausible bug: a quote inside a field that is quoted is not doubled.
QuotedAsIs(v) ==
  LET s == Neutral(v)
  IN IF \E i \in DOMAIN s : s[i] \in {Comma, Quote} THEN <<Quote>> \o s \o <<Quote>> ELSE s

escapeCSV(v) ==
  LET s == Neutral(v)
  IN IF \E i \in DOMAIN s : s[i] \in {Comma, Quote} THEN <<Quote>> \o Doubled(s) \o <<Quote>> ELSE s

Joined(cells) == FlattenSeq([i \in DOMAIN cells |-> IF i = 1 THEN cells[i] ELSE <<Comma>> \o cells[i]])

\* A target that failed has its error in a cell of its own, quoted once more.
\* The first cell is the target, the last what it answered.
exportAsCSV(t, error) ==
  IF got[t] = Failed
    THEN [cells |-> <<<<Letter>>, <<>>, error>>,
          line  |-> Joined(<<<<Letter>>, <<>>, <<Quote>> \o escapeCSV(error) \o <<Quote>>>>)]
    ELSE [cells |-> <<<<Letter>>, <<Letter, Dot>>, got[t]>>,
          line  |-> Joined(<<escapeCSV(<<Letter>>), escapeCSV(<<Letter, Dot>>), escapeCSV(got[t])>>)]

exportEnhancedComparisonCSV ==
  LET cells == [i \in DOMAIN Answering |-> got[Answering[i]]]
  IN [cells |-> cells, line |-> Joined([i \in DOMAIN cells |-> escapeCSV(cells[i])])]

-----------------------------------------------------------------------------
\* An operation clears the results before it asks, and replaces them at once.
NoAnswer == [t \in ToSet(Targets) |-> Failed]
NoFile   == [cells |-> <<>>, line |-> <<>>]

bulkResults ==
  /\ IF got = NoAnswer THEN got' \in [ToSet(Targets) -> Values \cup {Failed, Absent}]
                       ELSE got' = NoAnswer
  /\ file' = NoFile
  /\ UNCHANGED view

compareEnabled ==
  /\ view.delta \/ Len(Answering) >= 2
  /\ view' = [view EXCEPT !.delta = ~@]
  /\ UNCHANGED <<got, file>>

comparisonViewEnabled ==
  /\ Len(Answering) >= 2
  /\ view' = [view EXCEPT !.matrix = ~@]
  /\ UNCHANGED <<got, file>>

Export ==
  /\ \/ \E t \in ToSet(Targets) :
          /\ got[t] # Absent
          /\ file' = exportAsCSV(t, <<Letter, Comma>>)
     \/ view.delta /\ Len(Answering) >= 2 /\ file' = exportEnhancedComparisonCSV
  /\ UNCHANGED <<got, view>>

Init ==
  /\ got = NoAnswer
  /\ view = [matrix |-> FALSE, delta |-> FALSE]
  /\ file = NoFile

Next == bulkResults \/ compareEnabled \/ comparisonViewEnabled \/ Export

Spec == Init /\ [][Next]_vars

-----------------------------------------------------------------------------
\* A reader of such files: quotes open and close a field, two are one inside,
\* and a comma ends it elsewhere.
Fields(line) ==
  LET read(s, c) ==
        IF s.quoted THEN IF c = Quote THEN [s EXCEPT !.quoted = FALSE, !.closed = TRUE]
                                      ELSE [s EXCEPT !.field = Append(@, c)]
        ELSE IF c = Comma THEN [s EXCEPT !.fields = Append(@, s.field), !.field = <<>>, !.closed = FALSE]
        ELSE IF c = Quote /\ s.closed
               THEN [s EXCEPT !.quoted = TRUE, !.closed = FALSE, !.field = Append(@, Quote)]
        ELSE IF c = Quote /\ s.field = <<>> THEN [s EXCEPT !.quoted = TRUE]
        ELSE [s EXCEPT !.field = Append(@, c), !.closed = FALSE]
      end == FoldLeft(read, [fields |-> <<>>, field |-> <<>>, quoted |-> FALSE, closed |-> FALSE], line)
  IN Append(end.fields, end.field)

ReadsBack(f) ==
  LET read == Fields(f.line)
  IN /\ Len(read) = Len(f.cells)
     /\ \A i \in DOMAIN read : read[i] \in {f.cells[i], <<Apostrophe>> \o f.cells[i]}

Plain(v) == IsNumber(v) \/ ParseFloat(v) = None

\* Devices whose plain numbers or names differ, or one of which has no such
\* variable, are never said to be identical, and those that agree always are
\* (ResultsComparison.svelte buildEnhancedComparisonData).
ComparedFairly ==
  view.delta /\ Len(Answering) >= 2 /\ (\A t \in ToSet(HasIt) : Plain(got[t]) /\ Len(got[t]) = 1) =>
    (Status = "identical" <=> \A t, u \in ToSet(Answering) : got[t] = got[u] /\ got[t] # Absent)

\* Every cell that is written is read back in its column (csv.js: "or the
\* columns shift").
CellsReadBack ==
  file.line # <<>> /\ (\A t \in ToSet(Targets) : got[t] # Failed) => ReadsBack(file)

\* By hand: two addresses start with the same number, and the line of an error
\* is quoted twice.
DriftIsSeen == Len(HasIt) >= 2 /\ Status = "identical" => \A t, u \in ToSet(HasIt) : got[t] = got[u]
ErrorsReadBack == file.line # <<>> => ReadsBack(file)
=============================================================================
