------------------------------- MODULE Depths -------------------------------
(***************************************************************************)
(* src/src/parsing/depth.rs: process_depths turns a flat run of rows, each *)
(* carrying an indentation depth and a list type, into trees of nested     *)
(* lists.  Lists, blockquotes, definition lists and the table of contents  *)
(* are all built by it.                                                    *)
(*                                                                         *)
(* A tree is kept flat: a list of type l holding `body' is                 *)
(*     <<Open(l)>> \o body \o <<Close(l)>>                                 *)
(* so that pushing a finished list into its parent is a concatenation.     *)
(***************************************************************************)
EXTENDS Integers, Sequences, SequencesExt

CONSTANTS LType,    \* list types (bullet, numbered, blockquote level, ...)
          TopLType, \* the type the caller gives the bottom layer
          MaxRows,  \* longest run of rows explored
          MaxDepth  \* deepest row explored

ASSUME DepthsAssumption ==
    /\ TopLType \in LType
    /\ MaxRows \in Nat
    /\ MaxDepth \in Nat

VARIABLES rows,     \* the caller's items, in document order
          next,     \* index of the row the outer loop is at
          level,    \* `previous', moved one step per inner loop iteration
          stack,    \* the open layers, bottom first
          finished, \* the top-level lists already closed
          phase     \* "rows" until into_trees returns, then "done"

depthsVars == <<rows, next, level, stack, finished, phase>>

Row   == [depth : 0..MaxDepth, ltype : LType]
Node  == [kind : {"item"}, row : Nat \ {0}]
           \cup [kind : {"open", "close"}, ltype : LType]
Layer == [ltype : LType, list : Seq(Node)]

Item(i)  == [kind |-> "item", row |-> i]
Open(l)  == [kind |-> "open", ltype |-> l]
Close(l) == [kind |-> "close", ltype |-> l]

NewLayer(l) == [ltype |-> l, list |-> << >>]

Nested(layer) == <<Open(layer.ltype)>> \o layer.list \o <<Close(layer.ltype)>>

TopLayer(s)  == s[Len(s)]
PushOn(s, ns) == [s EXCEPT ![Len(s)].list = @ \o ns]

\* Mutated form: the layer's children join the parent without a list of their own.
PoppedSpliced(s) == PushOn(SubSeq(s, 1, Len(s) - 1), TopLayer(s).list)

\* DepthStack::decrease_depth: the top layer becomes the last child of the
\* layer below it.
Popped(s) == PushOn(SubSeq(s, 1, Len(s) - 1), Nested(TopLayer(s)))

\* finish_depth_list keeps the bottom list only if it has content.
FinishedBottom(bottom) == IF bottom.list = << >> THEN << >> ELSE <<bottom>>

-----------------------------------------------------------------------------

DepthsInit ==
    /\ rows \in UNION {[1..n -> Row] : n \in 0..MaxRows}
    /\ next = 1
    /\ level = 0
    /\ stack = <<NewLayer(TopLType)>>
    /\ finished = << >>
    /\ phase = "rows"

AtRow == next <= Len(rows)

IncreaseDepth ==
    /\ AtRow
    /\ level < rows[next].depth
    /\ stack' = Append(stack, NewLayer(rows[next].ltype))
    /\ level' = level + 1
    /\ UNCHANGED <<rows, next, finished, phase>>

DecreaseDepth ==
    /\ AtRow
    /\ level > rows[next].depth
    /\ stack' = Popped(stack)
    /\ level' = level - 1
    /\ UNCHANGED <<rows, next, finished, phase>>

\* The row's type differs from the layer it lands on: new_list closes the layer
\* and opens one of the row's type in its place.
TypeChanges ==
    /\ AtRow
    /\ level = rows[next].depth
    /\ TopLayer(stack).ltype # rows[next].ltype

NewListAtBottom ==
    /\ TypeChanges
    /\ Len(stack) = 1
    /\ finished' = finished \o FinishedBottom(stack[1])
    /\ stack' = <<NewLayer(rows[next].ltype)>>
    /\ UNCHANGED <<rows, next, level, phase>>

\* Mutated form: new_list without its increase_depth.
NewListWithoutReopen ==
    /\ TypeChanges
    /\ Len(stack) > 1
    /\ stack' = Popped(stack)
    /\ UNCHANGED <<rows, next, level, finished, phase>>

NewListNested ==
    /\ TypeChanges
    /\ Len(stack) > 1
    /\ stack' = Append(Popped(stack), NewLayer(rows[next].ltype))
    /\ UNCHANGED <<rows, next, level, finished, phase>>

PushItem ==
    /\ AtRow
    /\ level = rows[next].depth
    /\ TopLayer(stack).ltype = rows[next].ltype
    /\ stack' = PushOn(stack, <<Item(next)>>)
    /\ next' = next + 1
    /\ UNCHANGED <<rows, level, finished, phase>>

\* finish_depth_list's loop: every layer above the bottom one is closed.
CollapseLayer ==
    /\ ~AtRow
    /\ Len(stack) > 1
    /\ stack' = Popped(stack)
    /\ level' = level - 1
    /\ UNCHANGED <<rows, next, finished, phase>>

IntoTrees ==
    /\ ~AtRow
    /\ Len(stack) = 1
    /\ phase = "rows"
    /\ finished' = finished \o FinishedBottom(stack[1])
    /\ stack' = <<NewLayer(stack[1].ltype)>>
    /\ phase' = "done"
    /\ UNCHANGED <<rows, next, level>>

DepthsNext ==
    \/ IncreaseDepth \/ DecreaseDepth
    \/ NewListAtBottom \/ NewListNested \/ PushItem
    \/ CollapseLayer \/ IntoTrees

DepthsSpec == DepthsInit /\ [][DepthsNext]_depthsVars

-----------------------------------------------------------------------------
\* Reading the trees back.

\* Sequences of nodes one after another.
Concat(parts) ==
    LET upTo[n \in 0..Len(parts)] == IF n = 0 THEN << >> ELSE upTo[n - 1] \o parts[n]
    IN  upTo[Len(parts)]

\* A layer whose list is still open.
Opening(layer) == <<Open(layer.ltype)>> \o layer.list

\* The whole document so far: closed lists, then the open layers.
Trees(layers)    == Concat([n \in DOMAIN layers |-> Nested(layers[n])])
Openings(layers) == Concat([n \in DOMAIN layers |-> Opening(layers[n])])

Document == Trees(finished) \o Openings(stack)

\* Reading one more node of a document, with the types of the lists that are open
\* around it: every item is found at a depth, in a list of a type.
NodeRead(read, node) ==
    CASE node.kind = "open"  -> [read EXCEPT !.open = Append(@, node.ltype)]
      [] node.kind = "close" -> [read EXCEPT !.open = Front(@)]
      [] node.kind = "item"  -> [read EXCEPT !.items = Append(@,
                                     [row |-> node.row, depth |-> Len(read.open) - 1,
                                      ltype |-> Last(read.open)])]

ReadBack(doc) ==
    LET read[n \in 0..Len(doc)] ==
            IF n = 0 THEN [open |-> << >>, items |-> << >>]
            ELSE NodeRead(read[n - 1], doc[n])
    IN  read[Len(doc)]

-----------------------------------------------------------------------------

DepthsTypeOK ==
    /\ rows \in Seq(Row)
    /\ next \in 1..(Len(rows) + 1)
    /\ level \in 0..MaxDepth
    /\ stack \in Seq(Layer)
    /\ finished \in Seq(Layer)
    /\ phase \in {"rows", "done"}

\* The stack holds one layer per open depth and the bottom one, so
\* decrease_depth's `expect("No depth to pop off!")' can never fire and the
\* layers are collapsed when finish_depth_list asserts that they are.
LayersMatchLevel == Len(stack) = level + 1

\* The trees hold every row taken so far exactly once and in order, each at the
\* depth it asked for and directly inside a list of its own type: no sequence of
\* jumps in depth and changes of type loses, repeats or misplaces a row.  A list is
\* closed only when depth or type really changes (equal rows in a row are
\* siblings), and no closed list is empty, even right after a drop.
RowsReadBack ==
    LET doc == Document
    IN  /\ ReadBack(doc).items
             = [i \in 1..(next - 1) |->
                   [row |-> i, depth |-> rows[i].depth, ltype |-> rows[i].ltype]]
        /\ \A p \in 1..Len(doc), i \in 1..(next - 2) :
            /\ doc[p] = Item(i)
            /\ rows[i] = rows[i + 1]
            => doc[p + 1] = Item(i + 1)
        /\ \A p \in 1..(Len(doc) - 1) :
            ~(doc[p].kind = "open" /\ doc[p + 1].kind = "close")

=============================================================================
