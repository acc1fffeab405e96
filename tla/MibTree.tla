-------------------------------- MODULE MibTree --------------------------------
(***************************************************************************)
(* The MIB browser (frontend/src/MibPanel.svelte, TreeNode.svelte,         *)
(* stores/favoritesStore.js, utils/oidDisplay.js): the tree a load builds, *)
(* the tree a filter makes of it, the rows on the screen, the selection,   *)
(* the favourites, and the names other panels give to OIDs. A filter COPIES*)
(* the ancestors of what it keeps and shares the rest, so a node may be on *)
(* the screen as an object other than the one its children call parent.    *)
(* An OID is a sequence of numbers; a tree is a set closed under prefixes. *)
(***************************************************************************)
EXTENDS Integers, Sequences, FiniteSets, SequencesExt

CONSTANTS
  Loads,          \* the sets of OIDs a load may build a tree of
  Type, Access,   \* of each OID
  Seen,           \* for each search term, the OIDs whose name or OID holds it
  Hidden,         \* ... and those whose description, syntax or values do
  Chips,          \* the type filters and the access filters on offer
  Polled,         \* OIDs other panels show a name for
  None, MaxClicks

VARIABLES
  heaps,      \* the objects: each tree that was loaded, each set of copies a filter made
  store,      \* which of them is the tree
  view,       \* which of them is filteredTree
  filter,     \* [term, types, access]
  selected,   \* the object selected, or None
  compact,    \* are chains of only children drawn as one row?
  favorites,  \* written to localStorage by the step that changes it
  cache,      \* the names given: <<tree, OID, node, index>>
  found,      \* bookkeeping: the OID just navigated to
  clicks

vars == <<heaps, store, view, filter, selected, compact, favorites, cache, found, clicks>>

-----------------------------------------------------------------------------
(* Objects. <<h, o>> is the object of OID o made in heaps[h]; a copy's      *)
(* children are copies or objects of the tree it was made from.             *)

ChildrenIn(s, o) == {c \in s : Len(c) = Len(o) + 1 /\ IsPrefix(o, c)}
Ordered(s) == SetToSortSeq(s, LAMBDA a, b : a[Len(a)] < b[Len(b)])
Object(h, o) == <<IF o \in heaps[h].has THEN h ELSE heaps[h].base, o>>
Children(x) ==
  LET cs == Ordered(ChildrenIn(heaps[x[1]].kept, x[2])) IN [i \in DOMAIN cs |-> Object(x[1], cs[i])]
Expanded(x) == x[2] \in heaps[x[1]].exp
Roots == [i \in {1} |-> Object(view, <<1>>)]
Top == IF <<1>> \in heaps[view].kept THEN Roots ELSE <<>>

With(x, b) == [heaps EXCEPT ![x[1]].exp = IF b THEN @ \cup {x[2]} ELSE @ \ {x[2]}]

\* addParentReferences: the parent of an object is one of the tree, never a copy.
addParentReferences(x) ==
  IF Len(x[2]) = 1 THEN None ELSE <<heaps[x[1]].base, SubSeq(x[2], 1, Len(x[2]) - 1)>>

Ancestors(o) == {SubSeq(o, 1, n) : n \in 1..(Len(o) - 1)}

-----------------------------------------------------------------------------
(* The filter. *)

Filtering(f) == f.term # None \/ f.types # {} \/ f.access # {}

Matches(f, o) ==
  /\ f.types = {} \/ Type[o] \in f.types
  /\ f.access = {} \/ Access[o] \in f.access
  /\ IF f.term = None THEN TRUE ELSE o \in Seen[f.term] \cup Hidden[f.term]

\* A plausible bug: only the children of a node are looked at.
OneLevel(s, f) == {o \in s : Matches(f, o) \/ \E c \in ChildrenIn(s, o) : Matches(f, c)}

\* Those that match, and those with a child that is kept.
filterTree(s, f) ==
  LET keeps[o \in s] == Matches(f, o) \/ \E c \in ChildrenIn(s, o) : keeps[c]
  IN {o \in s : keeps[o]}

\* A node that matches is kept as it is, with all below it; the others kept are
\* copies, expanded as the originals were.
Filtered(t, s, exp, f) ==
  LET kept    == filterTree(s, f)
      matched == {o \in kept : \E n \in 1..Len(o) : Matches(f, SubSeq(o, 1, n))}
      under   == {o \in s : \E m \in matched : IsPrefix(m, o)}
  IN [base |-> t, has |-> kept \ under, kept |-> kept \cup under, exp |-> exp \cap (kept \ under)]

\* The reactive statement, when the filter or the tree has changed.
ShowFiltered(f) ==
  /\ filter' = f
  /\ IF Filtering(f)
     THEN heaps' = Append(heaps, Filtered(store, heaps[store].has, heaps[store].exp, f)) /\ view' = Len(heaps) + 1
     ELSE heaps' = heaps /\ view' = store

-----------------------------------------------------------------------------
(* What is on the screen. *)

Path(x) ==
  LET to[y \in {Object(x[1], o) : o \in heaps[x[1]].kept} \cup {Object(heaps[x[1]].base, o) : o \in heaps[heaps[x[1]].base].kept}] ==
        IF compact /\ Len(Children(y)) = 1 THEN <<y>> \o to[Children(y)[1]] ELSE <<y>>
  IN to[x]

\* The rows from some objects down, in order. A row that is a chain shows the
\* children of its end.
RECURSIVE RowsFrom(_)
RowsFrom(xs) ==
  IF xs = <<>> THEN <<>>
  ELSE LET x == Head(xs)
           below == IF Expanded(x) THEN RowsFrom(Children(Last(Path(x)))) ELSE <<>>
       IN <<x>> \o below \o RowsFrom(Tail(xs))
Rows == RowsFrom(Top)

\* getFlatNodeList: what the arrow keys move over.
RECURSIVE FlatFrom(_)
FlatFrom(xs) ==
  IF xs = <<>> THEN <<>>
  ELSE LET x == Head(xs)
       IN <<x>> \o (IF Expanded(x) THEN FlatFrom(Children(x)) ELSE <<>>) \o FlatFrom(Tail(xs))
getFlatNodeList == FlatFrom(Top)

At(flat) == LET hits == {i \in DOMAIN flat : selected # None /\ flat[i][2] = selected[2]}
            IN IF hits = {} THEN 0 ELSE CHOOSE i \in hits : \A j \in hits : i <= j

\* getMatchedField: a row says which field matched when its name and OID do not.
getMatchedField(x) ==
  filter.term # None /\ x[2] \notin Seen[filter.term] /\ x[2] \in Hidden[filter.term]

-----------------------------------------------------------------------------
(* Names. *)

Instantiable(o) == Type[o] \in {"Scalar", "Column"}

\* findNodeByOid: a last .0 is taken off before it is looked for.
findNodeByOid(s, o) ==
  LET bare == IF o[Len(o)] = 0 THEN SubSeq(o, 1, Len(o) - 1) ELSE o
  IN IF bare \in s THEN bare ELSE IF o \in s THEN o ELSE None

\* The nearest node, and what is left of the OID as its index.
resolveOidDisplay(s, raw) ==
  LET known == {n \in 1..Len(raw) : findNodeByOid(s, SubSeq(raw, 1, n)) # None}
      n     == CHOOSE n \in known : \A m \in known : m <= n
      node  == findNodeByOid(s, SubSeq(raw, 1, n))
      index == SubSeq(raw, n + 1, Len(raw))
  IN IF known = {} THEN <<None, raw>>
     ELSE IF index # <<>> /\ ~Instantiable(node) THEN <<None, raw>>
     ELSE <<node, index>>

\* A plausible bug: one cache, whichever tree the name is asked of.
OneCache(t) == 1

\* Per tree: a load hands over another array.
cacheFor(t) == t

-----------------------------------------------------------------------------
Init ==
  \E s \in Loads :
    /\ heaps = <<[base |-> 1, has |-> s, kept |-> s, exp |-> {}]>>
    /\ store = 1 /\ view = 1
    /\ filter = [term |-> None, types |-> {}, access |-> {}]
    /\ selected = None /\ compact = TRUE /\ favorites = <<>> /\ cache = {}
    /\ found = None /\ clicks = 0

Clicked == clicks < MaxClicks /\ clicks' = clicks + 1
Lost == found' = None
Elsewhere == UNCHANGED <<store, cache>>
SameTrees == UNCHANGED <<heaps, view, filter>>

\* mibStore's set, then the reactive statement.
Load ==
  \E s \in Loads :
    LET t    == Len(heaps) + 1
        tree == [base |-> t, has |-> s, kept |-> s, exp |-> {}]
    IN /\ Clicked /\ Lost /\ store' = t
       /\ IF Filtering(filter)
          THEN heaps' = heaps \o <<tree, Filtered(t, s, {}, filter)>> /\ view' = t + 1
          ELSE heaps' = Append(heaps, tree) /\ view' = t
       /\ UNCHANGED <<filter, selected, compact, favorites, cache>>

Search ==
  \E t \in DOMAIN Seen \cup {None} :
    /\ t # filter.term /\ Clicked /\ Lost
    /\ ShowFiltered([filter EXCEPT !.term = t])
    /\ Elsewhere /\ UNCHANGED <<selected, compact, favorites>>

Flip(s, e) == IF e \in s THEN s \ {e} ELSE s \cup {e}

\* The chips are there while something is filtered.
toggleTypeFilter ==
  \E t \in Chips.types :
    /\ Filtering(filter) /\ Clicked /\ Lost
    /\ ShowFiltered([filter EXCEPT !.types = Flip(@, t)])
    /\ Elsewhere /\ UNCHANGED <<selected, compact, favorites>>
toggleAccessFilter ==
  \E a \in Chips.access :
    /\ Filtering(filter) /\ Clicked /\ Lost
    /\ ShowFiltered([filter EXCEPT !.access = Flip(@, a)])
    /\ Elsewhere /\ UNCHANGED <<selected, compact, favorites>>

\* A chain is opened as one.
expandCompactPath(x) ==
  LET chain == Range(Path(x))
  IN [h \in DOMAIN heaps |-> [heaps[h] EXCEPT !.exp = @ \cup {y[2] : y \in {z \in chain : z[1] = h}}]]

toggle ==
  \E i \in DOMAIN Rows :
    LET x == Rows[i]
    IN /\ Clicked /\ Lost
       /\ heaps' = IF compact /\ ~Expanded(x) THEN expandCompactPath(x) ELSE With(x, ~Expanded(x))
       /\ selected' = x
       /\ Elsewhere /\ UNCHANGED <<view, filter, compact, favorites>>

toggleCompact ==
  /\ Clicked /\ Lost /\ compact' = ~compact
  /\ SameTrees /\ Elsewhere /\ UNCHANGED <<selected, favorites>>

toggleAll ==
  \E b \in BOOLEAN :
    LET all == {x \in {Object(view, o) : o \in heaps[view].kept} : Children(x) # <<>>}
        of(h) == {x[2] : x \in {y \in all : y[1] = h}}
    IN /\ Clicked /\ Lost
       /\ heaps' = [h \in DOMAIN heaps |->
                     [heaps[h] EXCEPT !.exp = IF b THEN @ \cup of(h) ELSE @ \ of(h)]]
       /\ Elsewhere /\ UNCHANGED <<view, filter, selected, compact, favorites>>

-----------------------------------------------------------------------------
(* The keyboard. *)

Select(x) == selected' = x
Moved(x) == Select(x) /\ SameTrees

\* Down, Up, Home, End.
navigateDown ==
  LET flat == getFlatNodeList IN
  flat # <<>> /\ Moved(flat[IF At(flat) < Len(flat) THEN At(flat) + 1 ELSE At(flat)])
navigateUp ==
  LET flat == getFlatNodeList IN flat # <<>> /\ Moved(flat[IF At(flat) > 1 THEN At(flat) - 1 ELSE 1])
navigateToFirst == LET flat == getFlatNodeList IN flat # <<>> /\ Moved(flat[1])
navigateToLast  == LET flat == getFlatNodeList IN flat # <<>> /\ Moved(flat[Len(flat)])

Turn(x, b) == heaps' = With(x, b) /\ UNCHANGED <<view, filter, selected>>
navigateRight ==
  /\ selected # None /\ Children(selected) # <<>>
  /\ IF Expanded(selected) THEN Moved(Children(selected)[1]) ELSE Turn(selected, TRUE)
navigateLeft ==
  /\ selected # None
  /\ IF Expanded(selected) /\ Children(selected) # <<>> THEN Turn(selected, FALSE)
     ELSE addParentReferences(selected) # None /\ Moved(addParentReferences(selected))
toggleExpand == selected # None /\ Children(selected) # <<>> /\ Turn(selected, ~Expanded(selected))

handleKeyboardNavigation ==
  /\ Clicked /\ Lost /\ Elsewhere /\ UNCHANGED <<compact, favorites>>
  /\ \/ navigateDown \/ navigateUp \/ navigateToFirst \/ navigateToLast
     \/ navigateRight \/ navigateLeft \/ toggleExpand

-----------------------------------------------------------------------------
(* Going to a node, favourites, names. *)

\* A plausible bug: the node's parent is opened, and not those above it.
ParentOnly(x) == [heaps EXCEPT ![heaps[x[1]].base].exp =
                    @ \cup {o \in Ancestors(x[2]) : Len(o) + 1 = Len(x[2])}]

expandPathToNode(x) == [heaps EXCEPT ![heaps[x[1]].base].exp = @ \cup Ancestors(x[2])]

GoTo(x) ==
  /\ heaps' = expandPathToNode(x)
  /\ selected' = x /\ found' = x[2]
  /\ UNCHANGED <<view, filter>>

\* The trail of the selection: the parents are the tree's.
handleBreadcrumbNavigation ==
  /\ selected # None /\ Clicked /\ Elsewhere /\ UNCHANGED <<compact, favorites>>
  /\ \E o \in Ancestors(selected[2]) : GoTo(<<heaps[selected[1]].base, o>>)

\* It is looked for in what the filter left.
handleFavoriteClick ==
  /\ Clicked /\ Elsewhere /\ UNCHANGED <<compact, favorites>>
  /\ \E i \in DOMAIN favorites :
       IF favorites[i] \in heaps[view].kept THEN GoTo(Object(view, favorites[i]))
       ELSE found' = None /\ selected' = selected /\ SameTrees

add(o)    == IF o \in Range(favorites) THEN favorites ELSE Append(favorites, o)
remove(o) == SelectSeq(favorites, LAMBDA f : f # o)

\* The menu of a row offers to add what is not a favourite and to remove what is.
buildContextMenuItems(o) == IF o \in Range(favorites) THEN remove(o) ELSE add(o)
handleContextMenuAction ==
  /\ Clicked /\ Lost /\ SameTrees /\ Elsewhere /\ UNCHANGED <<selected, compact>>
  /\ \E i \in DOMAIN Rows : favorites' = buildContextMenuItems(Rows[i][2])

\* The panel's own buttons: one out, or all.
RemoveFavorites ==
  /\ Clicked /\ Lost /\ favorites # <<>> /\ SameTrees /\ Elsewhere /\ UNCHANGED <<selected, compact>>
  /\ \/ favorites' = <<>>
     \/ \E o \in Range(favorites) : favorites' = remove(o)

Named(raw) == {e \in cache : e[1] = cacheFor(store) /\ e[2] = raw}
oidName ==
  \E raw \in Polled :
    /\ Named(raw) = {} /\ Clicked
    /\ cache' = cache \cup {<<cacheFor(store), raw>> \o resolveOidDisplay(heaps[store].has, raw)}
    /\ SameTrees /\ UNCHANGED <<store, selected, compact, favorites, found>>

Next ==
  \/ Load \/ Search \/ toggleTypeFilter \/ toggleAccessFilter
  \/ toggle \/ toggleCompact \/ toggleAll
  \/ handleKeyboardNavigation
  \/ handleBreadcrumbNavigation \/ handleFavoriteClick
  \/ handleContextMenuAction \/ RemoveFavorites
  \/ oidName

Spec == Init /\ [][Next]_vars

-----------------------------------------------------------------------------
(* What the browser owes. *)

\* MibPanel.svelte's filterTree: whatever was loaded, searched and toggled before,
\* the tree shown holds exactly what matches, what is above a match and what is
\* below one.
FilterKeepsMatches ==
  LET s == heaps[store].has
      hits == {o \in s : Matches(filter, o)}
  IN IF ~Filtering(filter) THEN view = store
     ELSE /\ heaps[view].base = store
          /\ heaps[view].kept = {o \in s : \E m \in hits : IsPrefix(m, o) \/ IsPrefix(o, m)}

\* expandPathToNode: with no filter, the node a favourite or the trail leads to
\* is in a row on the screen, however the tree was folded before.
FoundIsShown ==
  (found # None /\ ~Filtering(filter) /\ selected # None /\ selected[1] = store)
    => \E i \in DOMAIN Rows : \E y \in Range(Path(Rows[i])) : y[2] = found

\* utils/oidDisplay.js: a name another panel shows is of a node of the tree there
\* is NOW, the nearest to the OID there is, and a node that has no instances is
\* given no index.
NamedByItsTree ==
  \A raw \in Polled : \A e \in Named(raw) :
    LET s == heaps[store].has
        known == {o \in s : IsPrefix(o, raw)}
    IN IF e[3] = None
       THEN /\ raw \notin known
            /\ \A o \in known : (\E p \in known : Len(p) > Len(o)) \/ ~Instantiable(o)
       ELSE /\ e[3] \in known /\ \A o \in known : Len(o) <= Len(e[3])
            /\ e[4] = <<>> \/ Instantiable(e[3])
            /\ raw \in {e[3] \o e[4], e[3] \o <<0>> \o e[4]}

\* By hand: the node navigated to is on the screen with a filter too. The
\* originals are expanded, and the ancestors on the screen are copies.
FoundIsShownFiltered ==
  found # None => \E i \in DOMAIN Rows : \E y \in Range(Path(Rows[i])) : y[2] = found

\* By hand: what the arrow keys reach is a row. A chain of only children is one
\* row, and the keys step over the nodes inside it.
KeysFollowRows == {x[2] : x \in Range(getFlatNodeList)} = {x[2] : x \in Range(Rows)}

\* By hand: two OIDs are given two names. An index that begins with 0 loses it.
TwoNames ==
  \A e, f \in cache :
    (e[1] = f[1] /\ e[3] # None /\ e[3] = f[3] /\ e[4] = f[4]) =>
      \/ e[2] = f[2]
      \/ e[4] = <<>>

\* By hand: a row that is there for what its name does not show says so. In a
\* chain only the first node is asked.
MatchIsExplained ==
  \A i \in DOMAIN Rows : \A y \in Range(Path(Rows[i])) :
    getMatchedField(y) => getMatchedField(Rows[i])
=============================================================================
