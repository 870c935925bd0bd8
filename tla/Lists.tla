-------------------------------- MODULE Lists --------------------------------
(***************************************************************************)
(* Depths with a caller on both sides: the list rule                       *)
(* (parsing/rule/impls/list.rs) settles the types of the rows it read,     *)
(* hands them to process_depths, and makes list elements of the trees.     *)
(* Rows may have no content (a marker with only blanks behind it); which,  *)
(* is left open until the elements are made.                               *)
(*                                                                         *)
(* The other callers (blockquotes, definition lists, the table of          *)
(* contents) hand over their rows as they are.                             *)
(***************************************************************************)
EXTENDS Depths, FiniteSetsExt

VARIABLES caller, \* "list" or "other"
          written \* the rows as they are in the page

listVars == <<depthsVars, caller, written>>

\* Mutated form: types of deeper rows outlive a shallower row.
ActiveAfterStale(active, row) ==
    IF row.depth = 0 /\ active # << >> THEN [active EXCEPT ![1] = row.ltype]
    ELSE [d \in 1..(IF row.depth < Len(active) THEN Len(active) ELSE row.depth + 1) |->
             IF d <= Len(active) THEN active[d] ELSE row.ltype]

\* The list types by depth behind a row: at the top the row's own type, deeper the
\* type that is active, and the row's own for every depth it opens.
ActiveAfter(active, row) ==
    IF row.depth = 0 THEN <<row.ltype>>
    ELSE [d \in 1..(row.depth + 1) |->
             IF d <= Len(active) THEN active[d] ELSE row.ltype]

\* retain_active_nested_list_types.
Retained(rs) ==
    LET Active[n \in 0..Len(rs)] ==
            IF n = 0 THEN << >> ELSE ActiveAfter(Active[n - 1], rs[n])
    IN  [n \in DOMAIN rs |-> [rs[n] EXCEPT !.ltype = Active[n][rs[n].depth + 1]]]

\* A native marker has a type of its own (not ListType::Generic, the bottom layer's),
\* and a list starts at the margin.
FromMarkers(rs) ==
    /\ \A n \in DOMAIN rs : rs[n].ltype # TopLType
    /\ rs # << >> => rs[1].depth = 0

ListsInit ==
    /\ caller \in {"list", "other"}
    /\ written \in UNION {[1..n -> Row] : n \in 0..MaxRows}
    /\ caller = "list" => FromMarkers(written)
    /\ rows = IF caller = "list" THEN Retained(written) ELSE written
    /\ DepthsInit

ListsNext == DepthsNext /\ UNCHANGED <<caller, written>>

ListsSpec == ListsInit /\ [][ListsNext]_listVars

-----------------------------------------------------------------------------
(* build_list_element.  A list has its type and its items; an item is of a row, with   *)
(* the lists behind its content, or is a ListItem::SubList (row 0).                     *)

NewList_(l) == [ltype |-> l, items |-> << >>]
ItemOf(n) == [row |-> n, lists |-> << >>]
SubListOf(list) == [row |-> 0, lists |-> <<list>>]

WithSubList(items, list) ==
    IF items # << >> /\ Last(items).row # 0
      THEN [items EXCEPT ![Len(items)].lists = Append(@, list)]
      ELSE Append(items, SubListOf(list))

NotEmpty(items, blank) ==
    SelectSeq(items, LAMBDA item : item.row \notin blank \/ item.lists # << >>)

\* One node of the trees, with the lists being built around it.
BuiltWith(open, node, blank) ==
    LET top  == Last(open)
        kept == [top EXCEPT !.items = NotEmpty(@, blank)]
        rest == Front(open)
    IN  CASE node.kind = "open" -> Append(open, NewList_(node.ltype))
          [] node.kind = "item" -> Append(rest, [top EXCEPT !.items = Append(@, ItemOf(node.row))])
          [] node.kind = "close" /\ kept.items = << >> -> rest
          [] node.kind = "close" /\ kept.items # << >> ->
                [rest EXCEPT ![Len(rest)].items = WithSubList(@, kept)]

\* The list elements of the trees, where the rows in blank have no content.
Built(blank) ==
    LET page == FoldLeft(LAMBDA open, node : BuiltWith(open, node, blank),
                         <<NewList_(TopLType)>>, Trees(finished))
    IN  [n \in DOMAIN page[1].items |-> page[1].items[n].lists[1]]

-----------------------------------------------------------------------------

\* Every item of a list: its row, how deep it is, in a list of what type, and the row
\* whose item holds that list.
RECURSIVE ListPlaces(_, _, _)
ListPlaces(list, depth, under) ==
    FlattenSeq([n \in DOMAIN list.items |->
        LET item == list.items[n]
            Inside(row) == FlattenSeq([k \in DOMAIN item.lists |->
                                          ListPlaces(item.lists[k], depth + 1, row)])
        IN  IF item.row = 0 THEN Inside(under)
            ELSE <<[row |-> item.row, depth |-> depth, ltype |-> list.ltype, under |-> under]>>
                   \o Inside(item.row)])

\* A list never falls apart: an item holds one list at most, and no two lists without
\* an item of their own are neighbours.
RECURSIVE Whole(_)
Whole(list) ==
    /\ \A n \in DOMAIN list.items :
          /\ Len(list.items[n].lists) <= 1
          /\ \A k \in DOMAIN list.items[n].lists : Whole(list.items[n].lists[k])
    /\ \A n \in 1..(Len(list.items) - 1) :
          ~(list.items[n].row = 0 /\ list.items[n + 1].row = 0)

Deeper(n, k) == \A i \in n..k : written[i].depth > written[n - 1].depth
Since(n) == {k \in 1..n : \A i \in k..n : written[i].depth >= written[n].depth}
Shallower(n) == {k \in 1..(n - 1) : written[k].depth < written[n].depth}

\* A row stays if it has content, or a row inside it has.
Stays(n, blank) ==
    n \notin blank \/ \E k \in (n + 1)..Len(written) : k \notin blank /\ Deeper(n + 1, k)

RowPlace(n) ==
    [row |-> n, depth |-> written[n].depth,
     ltype |-> IF written[n].depth = 0 THEN written[n].ltype
               ELSE written[Min(Since(n))].ltype,
     under |-> Max(Shallower(n) \cup {0})]

\* Whichever rows have no content, the elements of a list hold every row that has, and
\* every row around one, once and in order, at the depth it is written with and below
\* the row that is written around it; at the top in a list of its own type, deeper of
\* the type of the first row there, and no list without a reason falls in two.
ListsBuilt ==
    caller = "list" /\ phase = "done" =>
        \A blank \in SUBSET DOMAIN written :
            \A lists \in {Built(blank)} :
                /\ FlattenSeq([n \in DOMAIN lists |-> ListPlaces(lists[n], 0, 0)])
                     = [i \in 1..Cardinality({n \in DOMAIN written : Stays(n, blank)}) |->
                          RowPlace(SelectSeq([n \in DOMAIN written |-> n],
                                          LAMBDA n : Stays(n, blank))[i])]
                /\ \A n \in DOMAIN lists : Whole(lists[n])

=============================================================================
