---------------------------- MODULE DepthsProofs ----------------------------
(***************************************************************************)
(* Proofs about Depths, for every run of rows, of any length and depth: it *)
(* keeps one layer per open depth, so process_depths never pops the bottom *)
(* layer, and the trees it builds read back as the rows.                   *)
(***************************************************************************)
EXTENDS Depths, SequenceTheorems, WellFoundedInduction, TLAPS

-----------------------------------------------------------------------------
(* Types and depths *)

IInv == DepthsTypeOK /\ LayersMatchLevel

\* Pushing nodes on the top layer keeps the number of layers.
LEMMA PushOnType ==
    ASSUME NEW s \in Seq(Layer), Len(s) > 0, NEW ns \in Seq(Node)
    PROVE  PushOn(s, ns) \in Seq(Layer) /\ Len(PushOn(s, ns)) = Len(s)
<1>1. Len(s) \in 1..Len(s) /\ s[Len(s)] \in Layer
  OBVIOUS
<1>2. [s[Len(s)] EXCEPT !.list = @ \o ns] \in Layer
  <2>1. s[Len(s)].list \o ns \in Seq(Node)
    BY <1>1 DEF Layer
  <2> QED
    BY <1>1, <2>1 DEF Layer
<1>3. PushOn(s, ns) = [s EXCEPT ![Len(s)] = [s[Len(s)] EXCEPT !.list = @ \o ns]]
  BY <1>1 DEF PushOn
<1> QED
  BY <1>1, <1>2, <1>3

\* A closed list is a sequence of nodes.
LEMMA NestedType ==
    ASSUME NEW layer \in Layer
    PROVE  Nested(layer) \in Seq(Node)
  BY DEF Nested, Layer, Node, Open, Close

\* Closing the top layer removes exactly that layer.
LEMMA PoppedType ==
    ASSUME NEW s \in Seq(Layer), Len(s) > 1
    PROVE  Popped(s) \in Seq(Layer) /\ Len(Popped(s)) = Len(s) - 1
<1>1. SubSeq(s, 1, Len(s) - 1) \in Seq(Layer)
  OBVIOUS
<1>2. Len(SubSeq(s, 1, Len(s) - 1)) = Len(s) - 1
  OBVIOUS
<1>3. TopLayer(s) \in Layer
  BY DEF TopLayer
<1>4. Nested(TopLayer(s)) \in Seq(Node)
  BY <1>3, NestedType
<1>5. Len(SubSeq(s, 1, Len(s) - 1)) > 0
  BY <1>2
<1> QED
  BY <1>1, <1>2, <1>4, <1>5, PushOnType DEF Popped

\* A fresh layer is a layer.
LEMMA NewLayerType ==
    ASSUME NEW l \in LType
    PROVE  NewLayer(l) \in Layer
  BY DEF NewLayer, Layer

\* The initial stack is the bottom layer alone.
LEMMA InitIInv == DepthsInit => IInv
<1> SUFFICES ASSUME DepthsInit PROVE IInv
  OBVIOUS
<1>1. rows \in Seq(Row)
  BY DepthsAssumption DEF DepthsInit
<1>2. NewLayer(TopLType) \in Layer
  BY NewLayerType, DepthsAssumption
<1>3. stack \in Seq(Layer) /\ Len(stack) = 1
  BY <1>2 DEF DepthsInit
<1> QED
  BY <1>1, <1>3, DepthsAssumption DEF DepthsInit, IInv, DepthsTypeOK, LayersMatchLevel

\* Every step of the loops keeps one layer per open depth.
LEMMA NextIInv == IInv /\ [DepthsNext]_depthsVars => IInv'
<1> SUFFICES ASSUME IInv, [DepthsNext]_depthsVars PROVE IInv'
  OBVIOUS
<1> USE DepthsAssumption DEF IInv, DepthsTypeOK, LayersMatchLevel
<1>0. AtRow => rows[next] \in Row
  BY DEF AtRow
<1>1. CASE IncreaseDepth
  <2>1. NewLayer(rows[next].ltype) \in Layer
    BY <1>0, <1>1, NewLayerType DEF IncreaseDepth, Row
  <2>2. rows[next].depth \in 0..MaxDepth
    BY <1>0, <1>1 DEF IncreaseDepth, Row
  <2> QED
    BY <1>1, <2>1, <2>2 DEF IncreaseDepth
<1>2. CASE DecreaseDepth
  <2>1. rows[next].depth \in 0..MaxDepth
    BY <1>0, <1>2 DEF DecreaseDepth, Row
  <2>2. Len(stack) > 1 /\ level - 1 \in 0..MaxDepth
    BY <1>2, <2>1 DEF DecreaseDepth
  <2> QED
    BY <1>2, <2>2, PoppedType DEF DecreaseDepth
<1>3. TypeChanges => NewLayer(rows[next].ltype) \in Layer
  BY <1>0, NewLayerType DEF TypeChanges, Row
<1>4. CASE NewListAtBottom
  <2>1. FinishedBottom(stack[1]) \in Seq(Layer)
    BY <1>4 DEF FinishedBottom, NewListAtBottom
  <2>2. stack' \in Seq(Layer) /\ Len(stack') = 1
    BY <1>3, <1>4 DEF NewListAtBottom
  <2>3. finished' \in Seq(Layer)
    BY <1>4, <2>1 DEF NewListAtBottom
  <2> QED
    BY <1>4, <2>2, <2>3 DEF NewListAtBottom
<1>5. CASE NewListNested
  <2>1. Popped(stack) \in Seq(Layer) /\ Len(Popped(stack)) = Len(stack) - 1
    BY <1>5, PoppedType DEF NewListNested
  <2>2. stack' \in Seq(Layer) /\ Len(stack') = Len(stack)
    BY <1>3, <1>5, <2>1 DEF NewListNested
  <2> QED
    BY <1>5, <2>2 DEF NewListNested
<1>6. CASE PushItem
  <2>1. Item(next) \in Node
    BY DEF Item, Node
  <2>2. <<Item(next)>> \in Seq(Node)
    BY <2>1
  <2>3. /\ PushOn(stack, <<Item(next)>>) \in Seq(Layer)
        /\ Len(PushOn(stack, <<Item(next)>>)) = Len(stack)
    BY <2>2, PushOnType, Len(stack) > 0
  <2> QED
    BY <1>6, <2>3 DEF PushItem, AtRow
<1>7. CASE CollapseLayer
  BY <1>7, PoppedType DEF CollapseLayer
<1>8. CASE IntoTrees
  <2>1. FinishedBottom(stack[1]) \in Seq(Layer)
    BY <1>8 DEF FinishedBottom, IntoTrees
  <2>2. NewLayer(stack[1].ltype) \in Layer
    <3>1. stack[1] \in Layer
      BY <1>8 DEF IntoTrees
    <3> QED
      BY <3>1, NewLayerType DEF Layer
  <2>3. stack' \in Seq(Layer) /\ Len(stack') = 1
    BY <1>8, <2>2 DEF IntoTrees
  <2>4. finished' \in Seq(Layer)
    BY <1>8, <2>1 DEF IntoTrees
  <2> QED
    BY <1>8, <2>3, <2>4 DEF IntoTrees
<1>9. CASE UNCHANGED depthsVars
  BY <1>9 DEF depthsVars
<1> QED
  BY <1>1, <1>2, <1>4, <1>5, <1>6, <1>7, <1>8, <1>9 DEF DepthsNext

-----------------------------------------------------------------------------
(* Reading a document node by node *)

\* A set of numbers with 0 and every successor is all of them.
LEMMA Induct ==
    ASSUME NEW S \in SUBSET Nat, 0 \in S, \A n \in S : n + 1 \in S
    PROVE  S = Nat
<1> SUFFICES ASSUME Nat \ S # {} PROVE FALSE
  OBVIOUS
<1> DEFINE T == Nat \ S
<1>0. T \subseteq Nat /\ T # {}
  OBVIOUS
<1>1. PICK x \in T : \A y \in T : ~(<<y, x>> \in OpToRel(<, Nat))
  <2> HIDE DEF T
  <2> QED
    BY <1>0, WFMin, NatLessThanWellFounded
<1>a. x \in Nat /\ x \notin S
  OBVIOUS
<1>2. x # 0 /\ x - 1 \in Nat
  BY <1>a
<1>3. x - 1 \in S
  <2>1. <<x - 1, x>> \in OpToRel(<, Nat)
    BY <1>2 DEF OpToRel
  <2> QED
    BY <1>1, <1>2, <2>1
<1>4. x = (x - 1) + 1
  BY <1>a
<1> QED
  BY <1>a, <1>3, <1>4

\* Concat adds part after part.
LEMMA ConcatIs ==
    ASSUME NEW parts, Len(parts) \in Nat
    PROVE  \E f : /\ f[0] = << >>
                  /\ \A n \in 1..Len(parts) : f[n] = f[n - 1] \o parts[n]
                  /\ Concat(parts) = f[Len(parts)]
<1> DEFINE B(f, n) == IF n = 0 THEN << >> ELSE f[n - 1] \o parts[n]
           S == {m \in Nat : \E f : \A n \in 0..m : f[n] = B(f, n)}
<1>1. \A f, g : \A n \in Nat : (n # 0 => f[n - 1] = g[n - 1]) => B(f, n) = B(g, n)
  OBVIOUS
<1>2. \A f : B(f, 0) = << >>
  OBVIOUS
<1>3. \A f : \A n \in Nat \ {0} : B(f, n) = f[n - 1] \o parts[n]
  OBVIOUS
<1> HIDE DEF B
<1>4. 0 \in S
  <2> DEFINE g == [n \in {0} |-> << >>]
  <2>1. \A n \in 0..0 : g[n] = B(g, n)
    BY <1>2
  <2> QED
    BY <2>1
<1>5. ASSUME NEW m \in S PROVE m + 1 \in S
  <2>1. PICK f : \A n \in 0..m : f[n] = B(f, n)
    OBVIOUS
  <2> DEFINE g == [n \in 0..(m + 1) |-> IF n <= m THEN f[n] ELSE B(f, n)]
  <2>2. \A n \in 0..m : g[n] = f[n]
    OBVIOUS
  <2>3. ASSUME NEW n \in 0..(m + 1) PROVE g[n] = B(g, n)
    <3>1. n \in Nat /\ (n # 0 => n - 1 \in 0..m)
      OBVIOUS
    <3>2. B(f, n) = B(g, n)
      BY <1>1, <2>2, <3>1
    <3>3. g[n] = B(f, n)
      BY <2>1
    <3> QED
      BY <3>2, <3>3
  <2> HIDE DEF g
  <2> QED
    BY <2>3
<1>6. Len(parts) \in S
  <2> HIDE DEF S
  <2>1. S \in SUBSET Nat
    BY DEF S
  <2> QED
    BY <1>4, <1>5, <2>1, Induct
<1>7. PICK f : \A n \in 0..Len(parts) : f[n] = B(f, n)
  BY <1>6
<1> DEFINE g == [n \in 0..Len(parts) |-> f[n]]
<1>8. g = [n \in 0..Len(parts) |-> B(g, n)]
  <2>1. \A n \in 0..Len(parts) : n # 0 => f[n - 1] = g[n - 1]
    OBVIOUS
  <2>2. \A n \in 0..Len(parts) : B(f, n) = B(g, n)
    BY <1>1, <2>1
  <2> QED
    BY <1>7, <2>2
<1> DEFINE h == CHOOSE h : h = [n \in 0..Len(parts) |-> B(h, n)]
<1>9. Concat(parts) = h[Len(parts)]
  BY DEF Concat, B
<1> HIDE DEF g
<1>10. h = [n \in 0..Len(parts) |-> B(h, n)]
  BY <1>8
<1> HIDE DEF h
<1>11. \A n \in 0..Len(parts) : h[n] = B(h, n)
  BY <1>10
<1>12. h[0] = << >>
  BY <1>2, <1>11
<1>13. ASSUME NEW n \in 1..Len(parts) PROVE h[n] = h[n - 1] \o parts[n]
  <2>1. n \in Nat \ {0} /\ n \in 0..Len(parts)
    OBVIOUS
  <2>2. h[n] = B(h, n)
    BY <1>11, <2>1
  <2> QED
    BY <1>3, <2>1, <2>2
<1> QED
  BY <1>9, <1>12, <1>13

\* ReadBack reads node after node.
LEMMA ReadBackIs ==
    ASSUME NEW doc, Len(doc) \in Nat
    PROVE  \E f : /\ f[0] = [open |-> << >>, items |-> << >>]
                  /\ \A n \in 1..Len(doc) : f[n] = NodeRead(f[n - 1], doc[n])
                  /\ ReadBack(doc) = f[Len(doc)]
<1> DEFINE Z == [open |-> << >>, items |-> << >>]
           B(f, n) == IF n = 0 THEN Z ELSE NodeRead(f[n - 1], doc[n])
           S == {m \in Nat : \E f : \A n \in 0..m : f[n] = B(f, n)}
<1>1. \A f, g : \A n \in Nat : (n # 0 => f[n - 1] = g[n - 1]) => B(f, n) = B(g, n)
  OBVIOUS
<1>2. \A f : B(f, 0) = Z
  OBVIOUS
<1>3. \A f : \A n \in Nat \ {0} : B(f, n) = NodeRead(f[n - 1], doc[n])
  OBVIOUS
<1> HIDE DEF B
<1>4. 0 \in S
  <2> DEFINE g == [n \in {0} |-> Z]
  <2>1. \A n \in 0..0 : g[n] = B(g, n)
    BY <1>2
  <2> QED
    BY <2>1
<1>5. ASSUME NEW m \in S PROVE m + 1 \in S
  <2>1. PICK f : \A n \in 0..m : f[n] = B(f, n)
    OBVIOUS
  <2> DEFINE g == [n \in 0..(m + 1) |-> IF n <= m THEN f[n] ELSE B(f, n)]
  <2>2. \A n \in 0..m : g[n] = f[n]
    OBVIOUS
  <2>3. ASSUME NEW n \in 0..(m + 1) PROVE g[n] = B(g, n)
    <3>1. n \in Nat /\ (n # 0 => n - 1 \in 0..m)
      OBVIOUS
    <3>2. B(f, n) = B(g, n)
      BY <1>1, <2>2, <3>1
    <3>3. g[n] = B(f, n)
      BY <2>1
    <3> QED
      BY <3>2, <3>3
  <2> HIDE DEF g
  <2> QED
    BY <2>3
<1>6. Len(doc) \in S
  <2> HIDE DEF S
  <2>1. S \in SUBSET Nat
    BY DEF S
  <2> QED
    BY <1>4, <1>5, <2>1, Induct
<1>7. PICK f : \A n \in 0..Len(doc) : f[n] = B(f, n)
  BY <1>6
<1> DEFINE g == [n \in 0..Len(doc) |-> f[n]]
<1>8. g = [n \in 0..Len(doc) |-> B(g, n)]
  <2>1. \A n \in 0..Len(doc) : n # 0 => f[n - 1] = g[n - 1]
    OBVIOUS
  <2>2. \A n \in 0..Len(doc) : B(f, n) = B(g, n)
    BY <1>1, <2>1
  <2> QED
    BY <1>7, <2>2
<1> DEFINE h == CHOOSE h : h = [n \in 0..Len(doc) |-> B(h, n)]
<1>9. ReadBack(doc) = h[Len(doc)]
  BY DEF ReadBack, B
<1> HIDE DEF g
<1>10. h = [n \in 0..Len(doc) |-> B(h, n)]
  BY <1>8
<1> HIDE DEF h
<1>11. \A n \in 0..Len(doc) : h[n] = B(h, n)
  BY <1>10
<1>12. h[0] = Z
  BY <1>2, <1>11
<1>13. ASSUME NEW n \in 1..Len(doc) PROVE h[n] = NodeRead(h[n - 1], doc[n])
  <2>1. n \in Nat \ {0} /\ n \in 0..Len(doc)
    OBVIOUS
  <2>2. h[n] = B(h, n)
    BY <1>11, <2>1
  <2> QED
    BY <1>3, <2>1, <2>2
<1> QED
  BY <1>9, <1>12, <1>13

\* One part more.
LEMMA ConcatAppend ==
    ASSUME NEW parts \in Seq(Seq(Node)), NEW part \in Seq(Node)
    PROVE  Concat(Append(parts, part)) = Concat(parts) \o part
<1> DEFINE more == Append(parts, part)
<1>1. /\ more \in Seq(Seq(Node)) /\ Len(parts) \in Nat /\ Len(more) = Len(parts) + 1 /\ Len(more) \in Nat
      /\ \A n \in 1..Len(parts) : more[n] = parts[n]
      /\ more[Len(parts) + 1] = part
  BY AppendProperties, LenProperties
<1> HIDE DEF more
<1>0. Len(parts) \in Nat /\ Len(more) = Len(parts) + 1 /\ Len(more) \in Nat
  BY <1>1
<1>2. PICK f : /\ f[0] = << >>
               /\ \A n \in 1..Len(parts) : f[n] = f[n - 1] \o parts[n]
               /\ Concat(parts) = f[Len(parts)]
  BY <1>0, ConcatIs
<1>3. PICK g : /\ g[0] = << >>
               /\ \A n \in 1..Len(more) : g[n] = g[n - 1] \o more[n]
               /\ Concat(more) = g[Len(more)]
  BY <1>1, ConcatIs
<1> DEFINE S == {n \in Nat : n <= Len(parts) => f[n] = g[n]}
<1>4. 0 \in S
  BY <1>2, <1>3
<1>5. ASSUME NEW n \in S PROVE n + 1 \in S
  <2> SUFFICES ASSUME n + 1 <= Len(parts) PROVE f[n + 1] = g[n + 1]
    OBVIOUS
  <2>1. /\ n \in Nat /\ f[n] = g[n] /\ (n + 1) - 1 = n
        /\ n + 1 \in 1..Len(parts) /\ n + 1 \in 1..Len(more)
    BY <1>0
  <2>2. f[n + 1] = f[n] \o parts[n + 1]
    BY <1>2, <2>1
  <2>3. g[n + 1] = g[n] \o more[n + 1]
    BY <1>3, <2>1
  <2> QED
    BY <1>1, <2>1, <2>2, <2>3
<1>6. Len(parts) \in S
  <2> HIDE DEF S
  <2>1. S \in SUBSET Nat
    BY DEF S
  <2> QED
    BY <1>1, <1>4, <1>5, <2>1, Induct
<1>7. f[Len(parts)] = g[Len(parts)]
  BY <1>1, <1>6
<1>8. g[Len(more)] = g[Len(parts)] \o part
  <2>1. Len(more) \in 1..Len(more) /\ Len(more) - 1 = Len(parts) /\ more[Len(more)] = part
    BY <1>1
  <2>2. g[Len(more)] = g[Len(more) - 1] \o more[Len(more)]
    BY <1>3, <2>1
  <2> QED
    BY <2>1, <2>2
<1> QED
  BY <1>2, <1>3, <1>7, <1>8 DEF more

LEMMA ConcatType ==
    ASSUME NEW parts \in Seq(Seq(Node))
    PROVE  Concat(parts) \in Seq(Node)
<1>1. Len(parts) \in Nat /\ \A n \in 1..Len(parts) : parts[n] \in Seq(Node)
  BY LenProperties, ElementOfSeq
<1>2. PICK f : /\ f[0] = << >>
               /\ \A n \in 1..Len(parts) : f[n] = f[n - 1] \o parts[n]
               /\ Concat(parts) = f[Len(parts)]
  BY <1>1, ConcatIs
<1> DEFINE S == {n \in Nat : n <= Len(parts) => f[n] \in Seq(Node)}
<1>3. 0 \in S
  BY <1>2, EmptySeq
<1>4. ASSUME NEW n \in S PROVE n + 1 \in S
  <2> SUFFICES ASSUME n + 1 <= Len(parts) PROVE f[n + 1] \in Seq(Node)
    OBVIOUS
  <2>1. n \in Nat /\ f[n] \in Seq(Node) /\ (n + 1) - 1 = n /\ n + 1 \in 1..Len(parts)
    BY <1>1
  <2>2. f[n + 1] = f[n] \o parts[n + 1]
    BY <1>2, <2>1
  <2>3. parts[n + 1] \in Seq(Node)
    BY <1>1, <2>1
  <2> QED
    BY <2>1, <2>2, <2>3, ConcatProperties
<1>5. Len(parts) \in S
  <2> HIDE DEF S
  <2>1. S \in SUBSET Nat
    BY DEF S
  <2> QED
    BY <1>1, <1>3, <1>4, <2>1, Induct
<1> QED
  BY <1>1, <1>2, <1>5

LEMMA ConcatNone == Concat(<< >>) = << >>
<1>1. Len(<< >>) = 0
  BY EmptySeq
<1> QED
  BY <1>1, ConcatIs

\* One node more.
LEMMA ReadBackAppend ==
    ASSUME NEW doc \in Seq(Node), NEW node \in Node
    PROVE  ReadBack(Append(doc, node)) = NodeRead(ReadBack(doc), node)
<1> DEFINE more == Append(doc, node)
<1>1. /\ more \in Seq(Node) /\ Len(doc) \in Nat /\ Len(more) = Len(doc) + 1 /\ Len(more) \in Nat
      /\ \A n \in 1..Len(doc) : more[n] = doc[n]
      /\ more[Len(doc) + 1] = node
  BY AppendProperties, LenProperties
<1> HIDE DEF more
<1>2. PICK f : /\ f[0] = [open |-> << >>, items |-> << >>]
               /\ \A n \in 1..Len(doc) : f[n] = NodeRead(f[n - 1], doc[n])
               /\ ReadBack(doc) = f[Len(doc)]
  BY <1>1, ReadBackIs
<1>3. PICK g : /\ g[0] = [open |-> << >>, items |-> << >>]
               /\ \A n \in 1..Len(more) : g[n] = NodeRead(g[n - 1], more[n])
               /\ ReadBack(more) = g[Len(more)]
  BY <1>1, ReadBackIs
<1> DEFINE S == {n \in Nat : n <= Len(doc) => f[n] = g[n]}
<1>4. 0 \in S
  BY <1>2, <1>3
<1>5. ASSUME NEW n \in S PROVE n + 1 \in S
  <2> SUFFICES ASSUME n + 1 <= Len(doc) PROVE f[n + 1] = g[n + 1]
    OBVIOUS
  <2>1. /\ n \in Nat /\ f[n] = g[n] /\ (n + 1) - 1 = n
        /\ n + 1 \in 1..Len(doc) /\ n + 1 \in 1..Len(more)
    BY <1>1
  <2>2. f[n + 1] = NodeRead(f[n], doc[n + 1])
    BY <1>2, <2>1
  <2>3. g[n + 1] = NodeRead(g[n], more[n + 1])
    BY <1>3, <2>1
  <2> QED
    BY <1>1, <2>1, <2>2, <2>3
<1>6. Len(doc) \in S
  <2> HIDE DEF S
  <2>1. S \in SUBSET Nat
    BY DEF S
  <2> QED
    BY <1>1, <1>4, <1>5, <2>1, Induct
<1>7. f[Len(doc)] = g[Len(doc)]
  BY <1>1, <1>6
<1>8. g[Len(more)] = NodeRead(g[Len(doc)], node)
  <2>1. Len(more) \in 1..Len(more) /\ Len(more) - 1 = Len(doc) /\ more[Len(more)] = node
    BY <1>1
  <2>2. g[Len(more)] = NodeRead(g[Len(more) - 1], more[Len(more)])
    BY <1>3, <2>1
  <2> QED
    BY <2>1, <2>2
<1> QED
  BY <1>2, <1>3, <1>7, <1>8 DEF more

LEMMA ReadBackNone == ReadBack(<< >>) = [open |-> << >>, items |-> << >>]
<1>1. Len(<< >>) = 0
  BY EmptySeq
<1> QED
  BY <1>1, ReadBackIs

-----------------------------------------------------------------------------
(* The document at every step *)

LEMMA OpeningType ==
    ASSUME NEW layer \in Layer
    PROVE  Opening(layer) \in Seq(Node) /\ Nested(layer) = Opening(layer) \o <<Close(layer.ltype)>>
<1>1. /\ layer.ltype \in LType /\ layer.list \in Seq(Node)
      /\ <<Open(layer.ltype)>> \in Seq(Node) /\ <<Close(layer.ltype)>> \in Seq(Node)
  BY DEF Layer, Node, Open, Close
<1>2. Opening(layer) \in Seq(Node)
  BY <1>1, ConcatProperties DEF Opening
<1> QED
  BY <1>1, <1>2, ConcatAssociative DEF Opening, Nested

LEMMA NodesAssociative ==
    ASSUME NEW s \in Seq(Node), NEW t \in Seq(Node), NEW u \in Seq(Node)
    PROVE  (s \o t) \o u = s \o (t \o u)
  BY ConcatAssociative

\* A layer more.
LEMMA LayersAppend ==
    ASSUME NEW layers \in Seq(Layer), NEW layer \in Layer
    PROVE  /\ Openings(layers) \in Seq(Node) /\ Trees(layers) \in Seq(Node)
           /\ Openings(Append(layers, layer)) = Openings(layers) \o Opening(layer)
           /\ Trees(Append(layers, layer)) = Trees(layers) \o Nested(layer)
<1> DEFINE more == Append(layers, layer)
           os == [n \in DOMAIN layers |-> Opening(layers[n])]
           ts == [n \in DOMAIN layers |-> Nested(layers[n])]
           om == [n \in DOMAIN more |-> Opening(more[n])]
           tm == [n \in DOMAIN more |-> Nested(more[n])]
<1>1. /\ more \in Seq(Layer) /\ Len(layers) \in Nat /\ Len(more) = Len(layers) + 1
      /\ DOMAIN layers = 1..Len(layers) /\ DOMAIN more = 1..Len(more)
      /\ \A n \in 1..Len(layers) : more[n] = layers[n]
      /\ more[Len(layers) + 1] = layer
  BY AppendProperties, LenProperties
<1>2. Opening(layer) \in Seq(Node) /\ Nested(layer) \in Seq(Node)
  BY OpeningType, NestedType
<1>3. \A n \in 1..Len(layers) : Opening(layers[n]) \in Seq(Node) /\ Nested(layers[n]) \in Seq(Node)
  BY ElementOfSeq, OpeningType, NestedType
<1>4. os \in Seq(Seq(Node)) /\ Len(os) = Len(layers)
  <2>1. os = [n \in 1..Len(layers) |-> Opening(layers[n])]
    BY <1>1
  <2>2. os \in [1..Len(layers) -> Seq(Node)]
    BY <1>3, <2>1
  <2> HIDE DEF os
  <2> QED
    BY <1>1, <2>2, SeqDef
<1>5. ts \in Seq(Seq(Node)) /\ Len(ts) = Len(layers)
  <2>1. ts = [n \in 1..Len(layers) |-> Nested(layers[n])]
    BY <1>1
  <2>2. ts \in [1..Len(layers) -> Seq(Node)]
    BY <1>3, <2>1
  <2> HIDE DEF ts
  <2> QED
    BY <1>1, <2>2, SeqDef
<1> HIDE DEF more
<1>6. om = Append(os, Opening(layer))
  <2> DEFINE x == Append(os, Opening(layer))
  <2>1. /\ DOMAIN x = 1..(Len(layers) + 1)
        /\ \A n \in 1..Len(layers) : x[n] = os[n]
        /\ x[Len(layers) + 1] = Opening(layer)
    <3> HIDE DEF os
    <3>0. os \in Seq(Seq(Node)) /\ Opening(layer) \in Seq(Node)
      BY <1>2, <1>4
    <3>1. /\ x \in Seq(Seq(Node)) /\ Len(x) = Len(os) + 1
          /\ \A n \in 1..Len(os) : x[n] = os[n]
          /\ x[Len(os) + 1] = Opening(layer)
      BY <3>0, AppendProperties
    <3> HIDE DEF x
    <3>2. DOMAIN x = 1..Len(x)
      BY <3>1, LenProperties
    <3> QED
      BY <1>4, <3>1, <3>2
  <2>2. x = [n \in 1..(Len(layers) + 1) |-> x[n]]
    <3> HIDE DEF os
    <3>1. x \in Seq(Seq(Node))
      BY <1>2, <1>4, AppendProperties
    <3> HIDE DEF x
    <3>2. x = [n \in DOMAIN x |-> x[n]]
      BY <3>1, LenProperties
    <3> QED
      BY <2>1, <3>2
  <2> HIDE DEF x
  <2>3. om = [n \in 1..(Len(layers) + 1) |-> Opening(more[n])]
    BY <1>1
  <2>4. \A n \in 1..(Len(layers) + 1) : x[n] = Opening(more[n])
    <3>1. \A n \in 1..Len(layers) : os[n] = Opening(layers[n])
      BY <1>1
    <3> HIDE DEF os, om
    <3>2. \A n \in 1..(Len(layers) + 1) : n \in 1..Len(layers) \/ n = Len(layers) + 1
      BY <1>1
    <3> QED
      BY <1>1, <2>1, <3>1, <3>2
  <2> HIDE DEF om
  <2> QED
    BY <2>2, <2>3, <2>4 DEF x
<1>7. tm = Append(ts, Nested(layer))
  <2> DEFINE x == Append(ts, Nested(layer))
  <2>1. /\ DOMAIN x = 1..(Len(layers) + 1)
        /\ \A n \in 1..Len(layers) : x[n] = ts[n]
        /\ x[Len(layers) + 1] = Nested(layer)
    <3> HIDE DEF ts
    <3>0. ts \in Seq(Seq(Node)) /\ Nested(layer) \in Seq(Node)
      BY <1>2, <1>5
    <3>1. /\ x \in Seq(Seq(Node)) /\ Len(x) = Len(ts) + 1
          /\ \A n \in 1..Len(ts) : x[n] = ts[n]
          /\ x[Len(ts) + 1] = Nested(layer)
      BY <3>0, AppendProperties
    <3> HIDE DEF x
    <3>2. DOMAIN x = 1..Len(x)
      BY <3>1, LenProperties
    <3> QED
      BY <1>5, <3>1, <3>2
  <2>2. x = [n \in 1..(Len(layers) + 1) |-> x[n]]
    <3> HIDE DEF ts
    <3>1. x \in Seq(Seq(Node))
      BY <1>2, <1>5, AppendProperties
    <3> HIDE DEF x
    <3>2. x = [n \in DOMAIN x |-> x[n]]
      BY <3>1, LenProperties
    <3> QED
      BY <2>1, <3>2
  <2> HIDE DEF x
  <2>3. tm = [n \in 1..(Len(layers) + 1) |-> Nested(more[n])]
    BY <1>1
  <2>4. \A n \in 1..(Len(layers) + 1) : x[n] = Nested(more[n])
    <3>1. \A n \in 1..Len(layers) : ts[n] = Nested(layers[n])
      BY <1>1
    <3> HIDE DEF ts, tm
    <3>2. \A n \in 1..(Len(layers) + 1) : n \in 1..Len(layers) \/ n = Len(layers) + 1
      BY <1>1
    <3> QED
      BY <1>1, <2>1, <3>1, <3>2
  <2> HIDE DEF tm
  <2> QED
    BY <2>2, <2>3, <2>4 DEF x
<1>8. Openings(layers) = Concat(os) /\ Trees(layers) = Concat(ts)
      /\ Openings(more) = Concat(om) /\ Trees(more) = Concat(tm)
  BY DEF Openings, Trees
<1> HIDE DEF os, ts, om, tm
<1>9. Concat(os) \in Seq(Node) /\ Concat(ts) \in Seq(Node)
  BY <1>4, <1>5, ConcatType
<1>10. Concat(om) = Concat(os) \o Opening(layer)
  BY <1>2, <1>4, <1>6, ConcatAppend
<1>11. Concat(tm) = Concat(ts) \o Nested(layer)
  BY <1>2, <1>5, <1>7, ConcatAppend
<1> QED
  BY <1>8, <1>9, <1>10, <1>11 DEF more

LEMMA LayersNone == Openings(<< >>) = << >> /\ Trees(<< >>) = << >>
<1>1. [n \in DOMAIN << >> |-> Opening(<< >>[n])] = << >>
  OBVIOUS
<1>2. [n \in DOMAIN << >> |-> Nested(<< >>[n])] = << >>
  OBVIOUS
<1> QED
  BY <1>1, <1>2, ConcatNone DEF Openings, Trees

\* The document that finished lists and open layers make.
Doc(f, s) == Trees(f) \o Openings(s)

\* A stack is its top on the rest.
LEMMA TopIs ==
    ASSUME NEW s \in Seq(Layer), Len(s) > 0
    PROVE  /\ SubSeq(s, 1, Len(s) - 1) \in Seq(Layer)
           /\ TopLayer(s) \in Layer
           /\ s = Append(SubSeq(s, 1, Len(s) - 1), TopLayer(s))
<1> DEFINE front == SubSeq(s, 1, Len(s) - 1)
           back == Append(front, TopLayer(s))
<1>1. Len(s) \in Nat \ {0}
  BY LenProperties
<1>2. \A i \in 1..(Len(s) - 1) : s[i] \in Layer
  BY <1>1, ElementOfSeq
<1>3. /\ front \in Seq(Layer) /\ Len(front) = Len(s) - 1
      /\ \A i \in 1..(Len(s) - 1) : front[i] = s[i]
  <2>1. 1 \in Int /\ Len(s) - 1 \in Int
    BY <1>1
  <2>2. /\ front \in Seq(Layer)
        /\ Len(front) = IF 1 <= Len(s) - 1 THEN (Len(s) - 1) - 1 + 1 ELSE 0
        /\ \A i \in 1..((Len(s) - 1) - 1 + 1) : front[i] = s[1 + i - 1]
    BY <1>2, <2>1, SubSeqProperties
  <2> HIDE DEF front
  <2> DEFINE n == Len(s)
             m == Len(front)
  <2>a. n \in Nat \ {0} /\ m = IF 1 <= n - 1 THEN (n - 1) - 1 + 1 ELSE 0
    BY <1>1, <2>2
  <2>3. Len(front) = Len(s) - 1
    <3> HIDE DEF n, m
    <3>1. m = n - 1
      BY <2>a
    <3> QED
      BY <3>1 DEF n, m
  <2>4. \A i \in 1..(Len(s) - 1) : 1 + i - 1 = i /\ i \in 1..((Len(s) - 1) - 1 + 1)
    BY <1>1
  <2> QED
    BY <2>2, <2>3, <2>4
<1>4. TopLayer(s) \in Layer /\ TopLayer(s) = s[Len(s)]
  BY <1>1, ElementOfSeq DEF TopLayer
<1> HIDE DEF front
<1>5. /\ back \in Seq(Layer) /\ Len(back) = Len(front) + 1
      /\ \A i \in 1..Len(front) : back[i] = front[i]
      /\ back[Len(front) + 1] = TopLayer(s)
  BY <1>3, <1>4, AppendProperties
<1> HIDE DEF back
<1>6. \A i \in 1..Len(s) : s[i] = back[i]
  BY <1>1, <1>3, <1>4, <1>5
<1>7. Len(back) = Len(s)
  BY <1>1, <1>3, <1>5
<1>8. s = back
  BY <1>5, <1>6, <1>7, SeqEqual
<1> QED
  BY <1>3, <1>4, <1>8 DEF front, back

LEMMA DocType ==
    ASSUME NEW f \in Seq(Layer), NEW s \in Seq(Layer)
    PROVE  Doc(f, s) \in Seq(Node)
<1>1. CASE LType = {}
  BY <1>1, DepthsAssumption
<1>2. CASE LType # {}
  <2>1. PICK l \in LType : TRUE
    BY <1>2
  <2>2. NewLayer(l) \in Layer
    BY NewLayerType
  <2>3. Trees(f) \in Seq(Node) /\ Openings(s) \in Seq(Node)
    BY <2>2, LayersAppend
  <2> QED
    BY <2>3, ConcatProperties DEF Doc
<1> QED
  BY <1>1, <1>2

\* A layer opened.
LEMMA DocOpened ==
    ASSUME NEW f \in Seq(Layer), NEW s \in Seq(Layer), NEW l \in LType
    PROVE  Doc(f, Append(s, NewLayer(l))) = Append(Doc(f, s), Open(l))
<1>1. NewLayer(l) \in Layer /\ Open(l) \in Node
  BY NewLayerType DEF Open, Node
<1>2. Opening(NewLayer(l)) = <<Open(l)>>
  <2>1. <<Open(l)>> \in Seq(Node)
    BY <1>1
  <2> QED
    BY <2>1, ConcatEmptySeq DEF Opening, NewLayer
<1>3. /\ Trees(f) \in Seq(Node) /\ Openings(s) \in Seq(Node)
      /\ Openings(Append(s, NewLayer(l))) = Openings(s) \o Opening(NewLayer(l))
  BY <1>1, LayersAppend
<1>4. <<Open(l)>> \in Seq(Node)
  BY <1>1
<1>5. Trees(f) \o (Openings(s) \o <<Open(l)>>) = (Trees(f) \o Openings(s)) \o <<Open(l)>>
  BY <1>3, <1>4, ConcatAssociative
<1>6. Trees(f) \o Openings(s) \in Seq(Node)
  BY <1>3, ConcatProperties
<1> QED
  BY <1>1, <1>2, <1>3, <1>5, <1>6, AppendIsConcat DEF Doc

\* Nodes pushed on the top layer.
LEMMA DocPushed ==
    ASSUME NEW f \in Seq(Layer), NEW s \in Seq(Layer), Len(s) > 0, NEW ns \in Seq(Node)
    PROVE  Doc(f, PushOn(s, ns)) = Doc(f, s) \o ns
<1> DEFINE front == SubSeq(s, 1, Len(s) - 1)
           top == [TopLayer(s) EXCEPT !.list = @ \o ns]
<1>0. ns \in Seq(Node)
  OBVIOUS
<1>1. /\ front \in Seq(Layer) /\ TopLayer(s) \in Layer
      /\ s = Append(front, TopLayer(s))
  BY TopIs
<1>2. /\ top \in Layer /\ top.ltype = TopLayer(s).ltype /\ top.list = TopLayer(s).list \o ns
  <2>1. TopLayer(s).list \o ns \in Seq(Node)
    BY <1>1, ConcatProperties DEF Layer
  <2> QED
    BY <1>1, <2>1 DEF Layer
<1>3. PushOn(s, ns) = Append(front, top)
  <2>1. Len(s) \in Nat \ {0}
    BY LenProperties
  <2>2. PushOn(s, ns) = [s EXCEPT ![Len(s)] = top]
    BY <2>1, LenProperties DEF PushOn, TopLayer
  <2> HIDE DEF front, top
  <2>3. /\ PushOn(s, ns) \in Seq(Layer) /\ Len(PushOn(s, ns)) = Len(s)
        /\ \A j \in 1..Len(s) : PushOn(s, ns)[j] = IF j = Len(s) THEN top ELSE s[j]
    BY <1>2, <2>1, <2>2, ExceptSeq
  <2>4. /\ Append(front, top) \in Seq(Layer) /\ Len(Append(front, top)) = Len(front) + 1
        /\ \A j \in 1..Len(front) : Append(front, top)[j] = front[j]
        /\ Append(front, top)[Len(front) + 1] = top
    BY <1>1, <1>2, AppendProperties
  <2>5. /\ Len(s) = Len(front) + 1 /\ Len(front) \in Nat
        /\ \A j \in 1..Len(front) : s[j] = front[j]
    <3>1. /\ Len(Append(front, TopLayer(s))) = Len(front) + 1
          /\ \A j \in 1..Len(front) : Append(front, TopLayer(s))[j] = front[j]
      BY <1>1, AppendProperties
    <3> QED
      BY <1>1, <3>1, LenProperties
  <2>6. \A j \in 1..Len(s) : PushOn(s, ns)[j] = Append(front, top)[j]
    BY <2>3, <2>4, <2>5
  <2> QED
    BY <2>3, <2>4, <2>5, <2>6, SeqEqual
<1> HIDE DEF front, top
<1>4. Opening(top) = Opening(TopLayer(s)) \o ns
  <2>1. /\ <<Open(TopLayer(s).ltype)>> \in Seq(Node) /\ TopLayer(s).list \in Seq(Node)
    BY <1>1 DEF Layer, Open, Node
  <2>2. (<<Open(TopLayer(s).ltype)>> \o TopLayer(s).list) \o ns
            = <<Open(TopLayer(s).ltype)>> \o (TopLayer(s).list \o ns)
    BY <1>0, <2>1, NodesAssociative
  <2> QED
    BY <1>2, <2>2 DEF Opening
<1>5. /\ Trees(f) \in Seq(Node) /\ Openings(front) \in Seq(Node)
      /\ Openings(Append(front, top)) = Openings(front) \o Opening(top)
  BY <1>1, <1>2, LayersAppend
<1>6. Openings(s) = Openings(front) \o Opening(TopLayer(s)) /\ Openings(s) \in Seq(Node)
  BY <1>1, LayersAppend
<1>7. Opening(TopLayer(s)) \in Seq(Node)
  BY <1>1, OpeningType
<1>8. Openings(front) \o (Opening(TopLayer(s)) \o ns) = Openings(s) \o ns
  <2> DEFINE a == Openings(front)
             b == Opening(TopLayer(s))
  <2>1. a \in Seq(Node) /\ b \in Seq(Node)
    BY <1>5, <1>7
  <2> HIDE DEF a, b
  <2>2. (a \o b) \o ns = a \o (b \o ns)
    BY <1>0, <2>1, NodesAssociative
  <2> QED
    BY <1>6, <2>2 DEF a, b
<1>9. Trees(f) \o (Openings(s) \o ns) = (Trees(f) \o Openings(s)) \o ns
  BY <1>0, <1>5, <1>6, NodesAssociative
<1> QED
  BY <1>3, <1>4, <1>5, <1>8, <1>9 DEF Doc

\* The top layer closed.
LEMMA DocPopped ==
    ASSUME NEW f \in Seq(Layer), NEW s \in Seq(Layer), Len(s) > 1
    PROVE  Doc(f, Popped(s)) = Append(Doc(f, s), Close(TopLayer(s).ltype))
<1> DEFINE front == SubSeq(s, 1, Len(s) - 1)
           end == Close(TopLayer(s).ltype)
<1>1. /\ front \in Seq(Layer) /\ TopLayer(s) \in Layer
      /\ s = Append(front, TopLayer(s)) /\ Len(front) > 0
  <2>1. Len(s) \in Nat
    BY LenProperties
  <2> QED
    BY <2>1, TopIs
<1>2. Popped(s) = PushOn(front, Nested(TopLayer(s)))
  BY DEF Popped
<1> HIDE DEF front
<1>3. /\ Opening(TopLayer(s)) \in Seq(Node) /\ Nested(TopLayer(s)) = Opening(TopLayer(s)) \o <<end>>
      /\ Nested(TopLayer(s)) \in Seq(Node) /\ end \in Node /\ <<end>> \in Seq(Node)
  <2>1. end \in Node
    BY <1>1 DEF Layer, Close, Node
  <2> QED
    BY <1>1, <2>1, OpeningType, NestedType
<1> HIDE DEF end
<1>4. Doc(f, Popped(s)) = Doc(f, front) \o Nested(TopLayer(s))
  <2> DEFINE ns == Nested(TopLayer(s))
  <2>1. ns \in Seq(Node) /\ front \in Seq(Layer) /\ Len(front) > 0
    BY <1>1, <1>3
  <2>2. Popped(s) = PushOn(front, ns)
    BY <1>2
  <2> HIDE DEF ns
  <2>3. Doc(f, PushOn(front, ns)) = Doc(f, front) \o ns
    BY <2>1, DocPushed
  <2> QED
    BY <2>2, <2>3 DEF ns
<1>5. Doc(f, front) \in Seq(Node) /\ Doc(f, s) \in Seq(Node)
  BY <1>1, DocType
<1>6. Doc(f, front) \o Nested(TopLayer(s)) = (Doc(f, front) \o Opening(TopLayer(s))) \o <<end>>
  BY <1>3, <1>5, ConcatAssociative
<1>7. Doc(f, s) = Doc(f, front) \o Opening(TopLayer(s))
  <2>1. /\ Trees(f) \in Seq(Node) /\ Openings(front) \in Seq(Node)
        /\ Openings(s) = Openings(front) \o Opening(TopLayer(s))
    BY <1>1, LayersAppend
  <2> DEFINE a == Trees(f)
             b == Openings(front)
             c == Opening(TopLayer(s))
  <2>2. a \in Seq(Node) /\ b \in Seq(Node) /\ c \in Seq(Node)
    BY <1>3, <2>1
  <2> HIDE DEF a, b, c
  <2>3. (a \o b) \o c = a \o (b \o c)
    BY <2>2, NodesAssociative
  <2> QED
    BY <2>1, <2>3 DEF Doc, a, b, c
<1> QED
  BY <1>3, <1>4, <1>5, <1>6, <1>7, AppendIsConcat DEF end

\* The bottom layer alone.
LEMMA DocBottom ==
    ASSUME NEW f \in Seq(Layer), NEW layer \in Layer
    PROVE  /\ Doc(f, <<layer>>) = Trees(f) \o Opening(layer)
           /\ layer.list = << >> => Doc(f, <<layer>>) = Append(Trees(f), Open(layer.ltype))
           /\ Trees(f) \in Seq(Node)
           /\ Trees(Append(f, layer)) = Append(Doc(f, <<layer>>), Close(layer.ltype))
<1>0. << >> \in Seq(Layer) /\ <<layer>> = Append(<< >>, layer)
  BY EmptySeq
<1>1. /\ Trees(f) \in Seq(Node) /\ Openings(<<layer>>) = << >> \o Opening(layer)
      /\ Trees(Append(f, layer)) = Trees(f) \o Nested(layer)
  BY <1>0, LayersAppend, LayersNone
<1>2. Opening(layer) \in Seq(Node) /\ Nested(layer) = Opening(layer) \o <<Close(layer.ltype)>>
  BY OpeningType
<1>3. Openings(<<layer>>) = Opening(layer)
  BY <1>1, <1>2, ConcatEmptySeq
<1>4. Doc(f, <<layer>>) = Trees(f) \o Opening(layer)
  BY <1>3 DEF Doc
<1>5. /\ Close(layer.ltype) \in Node /\ Open(layer.ltype) \in Node
      /\ <<Close(layer.ltype)>> \in Seq(Node) /\ <<Open(layer.ltype)>> \in Seq(Node)
  BY DEF Layer, Close, Open, Node
<1>6. layer.list = << >> => Opening(layer) = <<Open(layer.ltype)>>
  BY <1>5, ConcatEmptySeq DEF Opening
<1>7. layer.list = << >> => Doc(f, <<layer>>) = Append(Trees(f), Open(layer.ltype))
  BY <1>1, <1>4, <1>5, <1>6, AppendIsConcat
<1>8. Trees(f) \o Nested(layer) = (Trees(f) \o Opening(layer)) \o <<Close(layer.ltype)>>
  BY <1>1, <1>2, <1>5, ConcatAssociative
<1>9. Doc(f, <<layer>>) \in Seq(Node)
  BY <1>1, <1>2, <1>4, ConcatProperties
<1> QED
  BY <1>1, <1>4, <1>5, <1>7, <1>8, <1>9, AppendIsConcat

-----------------------------------------------------------------------------
(* The invariant *)

\* The rows before the n-th as they were asked for, and the types of open layers.
Taken(rs, n) ==
    [i \in 1..(n - 1) |-> [row |-> i, depth |-> rs[i].depth, ltype |-> rs[i].ltype]]
Around(s) == [n \in 1..Len(s) |-> s[n].ltype]

BottomEmpty(s) == Len(s) = 1 /\ s[1].list = << >>

\* The document reads back as the rows taken, inside the open layers; so it does
\* without a bottom layer that is still empty and may be given another type.
EverythingRead(rs, n, f, s) ==
    /\ ReadBack(Doc(f, s)) = [open |-> Around(s), items |-> Taken(rs, n)]
    /\ BottomEmpty(s) => ReadBack(Trees(f)) = [open |-> << >>, items |-> Taken(rs, n)]

\* A row that is just like the one before it.
Twin(rs, n) == n > 1 /\ n <= Len(rs) /\ rs[n] = rs[n - 1]

\* The item taken last is at the end, if the next row is to follow it.
ItemsOrderly(rs, doc, n) ==
    \A p \in 1..Len(doc) : doc[p].kind = "item" =>
        /\ doc[p].row < n
        /\ p = Len(doc) => doc[p].row = n - 1
        /\ doc[p].row = n - 1 /\ Twin(rs, n) => p = Len(doc)

TwinsTogether(rs, doc, n) ==
    \A p \in 1..Len(doc), i \in 1..(n - 2) :
        doc[p] = Item(i) /\ rs[i] = rs[i + 1] => p < Len(doc) /\ doc[p + 1] = Item(i + 1)

NoneEmpty(doc) ==
    \A p \in 1..(Len(doc) - 1) : ~(doc[p].kind = "open" /\ doc[p + 1].kind = "close")

Orderly(rs, doc, n) ==
    ItemsOrderly(rs, doc, n) /\ TwinsTogether(rs, doc, n) /\ NoneEmpty(doc)

\* It follows without a step between.
Sits(rs, n, at, s) ==
    Twin(rs, n) => at = rs[n].depth /\ TopLayer(s).ltype = rs[n].ltype

\* A layer stands open for the n-th row.
Awaits(rs, n, at, l) == n <= Len(rs) /\ at <= rs[n].depth /\ l = rs[n].ltype

\* A layer without content is the bottom one, or is opened for the row to come.
Landed(rs, n, at, f, s) ==
    Doc(f, s)[Len(Doc(f, s))].kind = "open" =>
        \/ BottomEmpty(s)
        \/ Awaits(rs, n, at, TopLayer(s).ltype)

DocFits ==
    /\ EverythingRead(rows, next, finished, stack)
    /\ Orderly(rows, Doc(finished, stack), next)
    /\ Sits(rows, next, level, stack)
    /\ Landed(rows, next, level, finished, stack)

-----------------------------------------------------------------------------
(* What steps do to it *)

\* A list opens or closes.
LEMMA OrderlyMore ==
    ASSUME NEW rs, NEW n \in Nat \ {0}, NEW doc \in Seq(Node), Orderly(rs, doc, n), ~Twin(rs, n),
           NEW node \in Node, node.kind # "item",
           Len(doc) > 0 /\ node.kind = "close" => doc[Len(doc)].kind # "open"
    PROVE  Orderly(rs, Append(doc, node), n)
<1> DEFINE more == Append(doc, node)
<1>1. /\ more \in Seq(Node) /\ Len(doc) \in Nat /\ Len(more) = Len(doc) + 1
      /\ \A p \in 1..Len(doc) : more[p] = doc[p]
      /\ more[Len(doc) + 1] = node
  BY AppendProperties, LenProperties
<1> HIDE DEF more
<1>2. \A p \in 1..Len(more) : p \in 1..Len(doc) \/ p = Len(doc) + 1
  BY <1>1
<1>3. ItemsOrderly(rs, more, n)
  <2> SUFFICES ASSUME NEW p \in 1..Len(more), more[p].kind = "item"
               PROVE  /\ more[p].row < n
                      /\ p # Len(more)
    BY DEF ItemsOrderly
  <2>1. p \in 1..Len(doc)
    BY <1>1, <1>2
  <2>2. more[p] = doc[p] /\ p # Len(more)
    BY <1>1, <2>1
  <2>3. doc[p].row < n
    BY <2>1, <2>2 DEF Orderly, ItemsOrderly
  <2> QED
    BY <2>2, <2>3
<1>4. TwinsTogether(rs, more, n)
  <2> SUFFICES ASSUME NEW p \in 1..Len(more), NEW i \in 1..(n - 2),
                      more[p] = Item(i), rs[i] = rs[i + 1]
               PROVE  p < Len(more) /\ more[p + 1] = Item(i + 1)
    BY DEF TwinsTogether
  <2>1. more[p].kind = "item"
    BY DEF Item
  <2>2. p \in 1..Len(doc)
    BY <1>1, <1>2, <2>1
  <2>3. more[p] = doc[p]
    BY <1>1, <2>2
  <2>4. p < Len(doc) /\ doc[p + 1] = Item(i + 1)
    BY <2>2, <2>3 DEF Orderly, TwinsTogether
  <2>5. p + 1 \in 1..Len(doc) /\ p < Len(more)
    BY <1>1, <2>2, <2>4
  <2> QED
    BY <1>1, <2>4, <2>5
<1>5. NoneEmpty(more)
  <2> SUFFICES ASSUME NEW p \in 1..(Len(more) - 1)
               PROVE  ~(more[p].kind = "open" /\ more[p + 1].kind = "close")
    BY DEF NoneEmpty
  <2>1. p \in 1..Len(doc) /\ more[p] = doc[p]
    BY <1>1
  <2>2. CASE p < Len(doc)
    <3>1. p + 1 \in 1..Len(doc) /\ p \in 1..(Len(doc) - 1)
      BY <1>1, <2>1, <2>2
    <3>2. more[p + 1] = doc[p + 1]
      BY <1>1, <3>1
    <3> QED
      BY <2>1, <3>1, <3>2 DEF Orderly, NoneEmpty
  <2>3. CASE p = Len(doc)
    BY <1>1, <2>1, <2>3
  <2> QED
    BY <1>1, <2>1, <2>2, <2>3
<1> QED
  BY <1>3, <1>4, <1>5 DEF Orderly, more

\* The row is taken.
LEMMA OrderlyItem ==
    ASSUME NEW rs, NEW n \in Nat \ {0}, n <= Len(rs), NEW doc \in Seq(Node), Orderly(rs, doc, n)
    PROVE  Orderly(rs, Append(doc, Item(n)), n + 1)
<1> DEFINE more == Append(doc, Item(n))
<1>0. Item(n) \in Node /\ Item(n).kind = "item" /\ Item(n).row = n
  BY DEF Item, Node
<1>1. /\ more \in Seq(Node) /\ Len(doc) \in Nat /\ Len(more) = Len(doc) + 1
      /\ \A p \in 1..Len(doc) : more[p] = doc[p]
      /\ more[Len(doc) + 1] = Item(n)
  BY <1>0, AppendProperties, LenProperties
<1> HIDE DEF more
<1>2. \A p \in 1..Len(more) : p \in 1..Len(doc) \/ p = Len(doc) + 1
  BY <1>1
<1>a. \A p \in 1..Len(doc) : doc[p].kind = "item" => doc[p].row \in Nat
  <2> SUFFICES ASSUME NEW p \in 1..Len(doc), doc[p].kind = "item" PROVE doc[p].row \in Nat
    OBVIOUS
  <2>1. doc[p] \in Node
    BY ElementOfSeq
  <2> QED
    BY <2>1 DEF Node
<1>3. ItemsOrderly(rs, more, n + 1)
  <2> SUFFICES ASSUME NEW p \in 1..Len(more), more[p].kind = "item"
               PROVE  /\ more[p].row < n + 1
                      /\ p = Len(more) => more[p].row = (n + 1) - 1
                      /\ more[p].row = (n + 1) - 1 => p = Len(more)
    BY DEF ItemsOrderly
  <2>1. CASE p \in 1..Len(doc)
    <3>1. more[p] = doc[p] /\ p # Len(more)
      BY <1>1, <2>1
    <3>2. doc[p].row < n /\ doc[p].row \in Nat
      BY <1>a, <2>1, <3>1 DEF Orderly, ItemsOrderly
    <3> QED
      BY <3>1, <3>2
  <2>2. CASE p = Len(doc) + 1
    <3>1. more[p].row = n /\ p = Len(more)
      BY <1>0, <1>1, <2>2
    <3> QED
      BY <3>1
  <2> QED
    BY <1>2, <2>1, <2>2
<1>4. TwinsTogether(rs, more, n + 1)
  <2> SUFFICES ASSUME NEW p \in 1..Len(more), NEW i \in 1..((n + 1) - 2),
                      more[p] = Item(i), rs[i] = rs[i + 1]
               PROVE  p < Len(more) /\ more[p + 1] = Item(i + 1)
    BY DEF TwinsTogether
  <2>0. i \in Nat \ {0} /\ i < n
    OBVIOUS
  <2>1. more[p].kind = "item" /\ more[p].row = i
    BY DEF Item
  <2>2. p \in 1..Len(doc)
    BY <1>0, <1>1, <1>2, <2>0, <2>1
  <2>3. more[p] = doc[p]
    BY <1>1, <2>2
  <2>4. CASE i <= n - 2
    <3>1. i \in 1..(n - 2)
      BY <2>0, <2>4
    <3>2. p < Len(doc) /\ doc[p + 1] = Item(i + 1)
      BY <2>2, <2>3, <3>1 DEF Orderly, TwinsTogether
    <3>3. p + 1 \in 1..Len(doc) /\ p < Len(more)
      BY <1>1, <2>2, <3>2
    <3> QED
      BY <1>1, <3>2, <3>3
  <2>5. CASE i = n - 1
    <3>1. i + 1 = n /\ n > 1
      BY <2>0, <2>5
    <3>2. Twin(rs, n)
      BY <2>5, <3>1 DEF Twin
    <3>3. p = Len(doc)
      BY <2>1, <2>2, <2>3, <2>5, <3>2 DEF Orderly, ItemsOrderly
    <3>4. p + 1 = Len(doc) + 1 /\ p < Len(more)
      BY <1>1, <3>3
    <3> QED
      BY <1>1, <3>1, <3>4
  <2> QED
    BY <2>0, <2>4, <2>5
<1>5. NoneEmpty(more)
  <2> SUFFICES ASSUME NEW p \in 1..(Len(more) - 1)
               PROVE  ~(more[p].kind = "open" /\ more[p + 1].kind = "close")
    BY DEF NoneEmpty
  <2>1. p \in 1..Len(doc) /\ more[p] = doc[p]
    BY <1>1
  <2>2. CASE p < Len(doc)
    <3>1. p + 1 \in 1..Len(doc) /\ p \in 1..(Len(doc) - 1)
      BY <1>1, <2>1, <2>2
    <3>2. more[p + 1] = doc[p + 1]
      BY <1>1, <3>1
    <3> QED
      BY <2>1, <3>1, <3>2 DEF Orderly, NoneEmpty
  <2>3. CASE p = Len(doc)
    BY <1>0, <1>1, <2>1, <2>3
  <2> QED
    BY <1>1, <2>1, <2>2, <2>3
<1> QED
  BY <1>3, <1>4, <1>5 DEF Orderly, more

\* The bottom layer is given another type while it is empty.
LEMMA OrderlyBottom ==
    ASSUME NEW rs, NEW n \in Nat \ {0}, NEW doc \in Seq(Node), NEW l \in LType, NEW m \in LType,
           Orderly(rs, Append(doc, Open(l)), n)
    PROVE  Orderly(rs, Append(doc, Open(m)), n)
<1> DEFINE a == Append(doc, Open(l))
           b == Append(doc, Open(m))
<1>0. /\ Open(l) \in Node /\ Open(m) \in Node
      /\ Open(l).kind = "open" /\ Open(m).kind = "open"
  BY DEF Open, Node
<1>1. /\ Len(doc) \in Nat /\ Len(a) = Len(doc) + 1
      /\ \A p \in 1..Len(doc) : a[p] = doc[p]
      /\ a[Len(doc) + 1] = Open(l)
  BY <1>0, AppendProperties, LenProperties
<1>2. /\ Len(b) = Len(doc) + 1
      /\ \A p \in 1..Len(doc) : b[p] = doc[p]
      /\ b[Len(doc) + 1] = Open(m)
  BY <1>0, AppendProperties
<1>3. Orderly(rs, a, n)
  OBVIOUS
<1> HIDE DEF a, b
<1>4. \A p \in 1..Len(b) : p \in 1..Len(doc) \/ p = Len(doc) + 1
  BY <1>1, <1>2
<1>5. ItemsOrderly(rs, b, n)
  <2> SUFFICES ASSUME NEW p \in 1..Len(b), b[p].kind = "item"
               PROVE  /\ b[p].row < n
                      /\ p = Len(b) => b[p].row = n - 1
                      /\ b[p].row = n - 1 /\ Twin(rs, n) => p = Len(b)
    BY DEF ItemsOrderly
  <2>1. p \in 1..Len(doc)
    BY <1>0, <1>2, <1>4
  <2>2. b[p] = a[p] /\ p \in 1..Len(a) /\ Len(a) = Len(b)
    BY <1>1, <1>2, <2>1
  <2> QED
    BY <1>3, <2>2 DEF Orderly, ItemsOrderly
<1>6. TwinsTogether(rs, b, n)
  <2> SUFFICES ASSUME NEW p \in 1..Len(b), NEW i \in 1..(n - 2),
                      b[p] = Item(i), rs[i] = rs[i + 1]
               PROVE  p < Len(b) /\ b[p + 1] = Item(i + 1)
    BY DEF TwinsTogether
  <2>1. b[p].kind = "item" /\ Item(i + 1).kind = "item"
    BY DEF Item
  <2>2. p \in 1..Len(doc)
    BY <1>0, <1>2, <1>4, <2>1
  <2>3. b[p] = a[p] /\ p \in 1..Len(a) /\ Len(a) = Len(b)
    BY <1>1, <1>2, <2>2
  <2>4. p < Len(a) /\ a[p + 1] = Item(i + 1)
    BY <1>3, <2>3 DEF Orderly, TwinsTogether
  <2>5. p + 1 # Len(doc) + 1
    BY <1>0, <1>1, <2>1, <2>4
  <2>6. p + 1 \in 1..Len(doc)
    BY <1>1, <2>2, <2>5
  <2>7. b[p + 1] = a[p + 1]
    BY <1>1, <1>2, <2>6
  <2> QED
    BY <2>3, <2>4, <2>7
<1>7. NoneEmpty(b)
  <2> SUFFICES ASSUME NEW p \in 1..(Len(b) - 1)
               PROVE  ~(b[p].kind = "open" /\ b[p + 1].kind = "close")
    BY DEF NoneEmpty
  <2>1. /\ p \in 1..(Len(a) - 1) /\ p \in 1..Len(doc) /\ b[p] = a[p]
        /\ p + 1 \in 1..Len(b)
    BY <1>1, <1>2
  <2>2. CASE p + 1 \in 1..Len(doc)
    <3>1. b[p + 1] = a[p + 1]
      BY <1>1, <1>2, <2>2
    <3> QED
      BY <1>3, <2>1, <3>1 DEF Orderly, NoneEmpty
  <2>3. CASE p + 1 = Len(doc) + 1
    BY <1>0, <1>2, <2>3
  <2> QED
    BY <1>4, <2>1, <2>2, <2>3
<1> QED
  BY <1>5, <1>6, <1>7 DEF Orderly, b

LEMMA OpenRead ==
    ASSUME NEW o, NEW t, NEW l
    PROVE  NodeRead([open |-> o, items |-> t], Open(l)) = [open |-> Append(o, l), items |-> t]
  BY DEF NodeRead, Open

LEMMA CloseRead ==
    ASSUME NEW o, NEW t, NEW l
    PROVE  NodeRead([open |-> o, items |-> t], Close(l)) = [open |-> Front(o), items |-> t]
  BY DEF NodeRead, Close

LEMMA ItemRead ==
    ASSUME NEW o, NEW t, NEW i
    PROVE  NodeRead([open |-> o, items |-> t], Item(i)) =
              [open |-> o,
               items |-> Append(t, [row |-> i, depth |-> Len(o) - 1, ltype |-> Last(o)])]
  BY DEF NodeRead, Item

\* The types of the open layers are a sequence.
LEMMA AroundIs ==
    ASSUME NEW s \in Seq(Layer)
    PROVE  /\ Around(s) \in Seq(LType) /\ Len(Around(s)) = Len(s)
           /\ \A i \in 1..Len(s) : Around(s)[i] = s[i].ltype
<1>1. Len(s) \in Nat /\ \A i \in 1..Len(s) : s[i].ltype \in LType
  <2>1. \A i \in 1..Len(s) : s[i] \in Layer
    BY ElementOfSeq
  <2> QED
    BY <2>1, LenProperties DEF Layer
<1>2. Around(s) \in [1..Len(s) -> LType]
  BY <1>1 DEF Around
<1>3. Around(s) \in Seq(LType)
  BY <1>1, <1>2, SeqDef
<1>4. Len(Around(s)) = Len(s)
  <2>1. DOMAIN Around(s) = 1..Len(Around(s)) /\ Len(Around(s)) \in Nat
    BY <1>3, LenProperties
  <2>2. DOMAIN Around(s) = 1..Len(s)
    BY DEF Around
  <2> QED
    BY <1>1, <2>1, <2>2
<1> QED
  BY <1>3, <1>4 DEF Around

LEMMA AroundAppend ==
    ASSUME NEW s \in Seq(Layer), NEW layer \in Layer
    PROVE  Around(Append(s, layer)) = Append(Around(s), layer.ltype)
<1> DEFINE a == Around(Append(s, layer))
           b == Append(Around(s), layer.ltype)
<1>1. /\ Append(s, layer) \in Seq(Layer) /\ Len(Append(s, layer)) = Len(s) + 1
      /\ \A i \in 1..Len(s) : Append(s, layer)[i] = s[i]
      /\ Append(s, layer)[Len(s) + 1] = layer /\ Len(s) \in Nat
  BY AppendProperties, LenProperties
<1>2. /\ Around(s) \in Seq(LType) /\ Len(Around(s)) = Len(s)
      /\ \A i \in 1..Len(s) : Around(s)[i] = s[i].ltype
  BY AroundIs
<1>3. /\ a \in Seq(LType) /\ Len(a) = Len(s) + 1
      /\ \A i \in 1..(Len(s) + 1) : a[i] = Append(s, layer)[i].ltype
  BY <1>1, AroundIs
<1>4. layer.ltype \in LType
  BY DEF Layer
<1>5. /\ b \in Seq(LType) /\ Len(b) = Len(Around(s)) + 1
      /\ \A i \in 1..Len(Around(s)) : b[i] = Around(s)[i]
      /\ b[Len(Around(s)) + 1] = layer.ltype
  BY <1>2, <1>4, AppendProperties
<1> HIDE DEF a, b
<1>6. \A i \in 1..Len(a) : a[i] = b[i]
  <2> SUFFICES ASSUME NEW i \in 1..(Len(s) + 1) PROVE a[i] = b[i]
    BY <1>3
  <2>1. CASE i \in 1..Len(s)
    BY <1>1, <1>2, <1>3, <1>5, <2>1
  <2>2. CASE i = Len(s) + 1
    BY <1>1, <1>2, <1>3, <1>5, <2>2
  <2> QED
    BY <1>1, <2>1, <2>2
<1>7. Len(a) = Len(b)
  BY <1>2, <1>3, <1>5
<1> QED
  BY <1>3, <1>5, <1>6, <1>7, SeqEqual DEF a, b

LEMMA FrontAppend ==
    ASSUME NEW a \in Seq(LType), NEW l \in LType
    PROVE  Front(Append(a, l)) = a /\ Last(Append(a, l)) = l
<1> DEFINE b == Append(a, l)
           c == SubSeq(b, 1, Len(b) - 1)
<1>1. /\ b \in Seq(LType) /\ Len(a) \in Nat /\ Len(b) = Len(a) + 1
      /\ \A i \in 1..Len(a) : b[i] = a[i]
      /\ b[Len(a) + 1] = l
  BY AppendProperties, LenProperties
<1> HIDE DEF b
<1>2. \A i \in 1..(Len(b) - 1) : b[i] \in LType
  BY <1>1, ElementOfSeq
<1>3. 1 \in Int /\ Len(b) - 1 \in Int
  BY <1>1
<1>4. /\ c \in Seq(LType)
      /\ Len(c) = IF 1 <= Len(b) - 1 THEN (Len(b) - 1) - 1 + 1 ELSE 0
      /\ \A i \in 1..((Len(b) - 1) - 1 + 1) : c[i] = b[1 + i - 1]
  BY <1>2, <1>3, SubSeqProperties
<1> HIDE DEF c
<1>5. Len(c) = Len(a)
  <2>1. CASE 1 <= Len(b) - 1
    <3>1. Len(c) = (Len(b) - 1) - 1 + 1
      BY <1>4, <2>1
    <3> QED
      BY <1>1, <3>1
  <2>2. CASE ~(1 <= Len(b) - 1)
    <3>1. Len(c) = 0
      BY <1>4, <2>2
    <3> QED
      BY <1>1, <2>2, <3>1
  <2> QED
    BY <2>1, <2>2
<1>6. ASSUME NEW i \in 1..Len(c) PROVE c[i] = a[i]
  <2>1. i \in 1..((Len(b) - 1) - 1 + 1) /\ 1 + i - 1 = i /\ i \in 1..Len(a)
    BY <1>1, <1>5
  <2>2. c[i] = b[1 + i - 1]
    BY <1>4, <2>1
  <2> QED
    BY <1>1, <2>1, <2>2
<1>7. c = a
  BY <1>4, <1>5, <1>6, SeqEqual
<1>8. Front(b) = c /\ Last(b) = b[Len(b)]
  BY DEF Front, Last, c
<1> QED
  BY <1>1, <1>7, <1>8 DEF b

LEMMA TakenNext ==
    ASSUME NEW rs, NEW n \in Nat \ {0}
    PROVE  Taken(rs, n + 1)
             = Append(Taken(rs, n), [row |-> n, depth |-> rs[n].depth, ltype |-> rs[n].ltype])
<1> DEFINE X == {[row |-> i, depth |-> rs[i].depth, ltype |-> rs[i].ltype] : i \in Nat}
           t == Taken(rs, n)
           u == Taken(rs, n + 1)
           x == [row |-> n, depth |-> rs[n].depth, ltype |-> rs[n].ltype]
<1>1. /\ t \in [1..(n - 1) -> X] /\ \A i \in 1..(n - 1) : t[i] = [row |-> i, depth |-> rs[i].depth, ltype |-> rs[i].ltype]
  BY DEF Taken
<1>2. /\ u \in [1..n -> X] /\ \A i \in 1..n : u[i] = [row |-> i, depth |-> rs[i].depth, ltype |-> rs[i].ltype]
  <2>1. (n + 1) - 1 = n
    OBVIOUS
  <2> QED
    BY <2>1 DEF Taken
<1>3. x \in X
  OBVIOUS
<1> HIDE DEF t, u, X
<1>4. t \in Seq(X) /\ Len(t) = n - 1
  <2>1. t \in Seq(X)
    BY <1>1, SeqDef
  <2>2. DOMAIN t = 1..Len(t) /\ Len(t) \in Nat /\ DOMAIN t = 1..(n - 1)
    BY <1>1, <2>1, LenProperties
  <2> QED
    BY <2>1, <2>2
<1>5. u \in Seq(X) /\ Len(u) = n
  <2>1. u \in Seq(X)
    BY <1>2, SeqDef
  <2>2. DOMAIN u = 1..Len(u) /\ Len(u) \in Nat /\ DOMAIN u = 1..n
    BY <1>2, <2>1, LenProperties
  <2>3. \A k \in Nat : 1..k = 1..n => k = n
    <3> SUFFICES ASSUME NEW k \in Nat, 1..k = 1..n PROVE k = n
      OBVIOUS
    <3>1. n \in 1..n /\ n + 1 \notin 1..n
      OBVIOUS
    <3>2. n \in 1..k /\ n + 1 \notin 1..k
      BY <3>1
    <3> QED
      BY <3>2
  <2> QED
    BY <2>1, <2>2, <2>3
<1> DEFINE v == Append(t, x)
<1>6. u[n] = x
  BY <1>2
<1> HIDE DEF x
<1>7. /\ v \in Seq(X) /\ Len(v) = Len(t) + 1
      /\ \A i \in 1..Len(t) : v[i] = t[i]
      /\ v[Len(t) + 1] = x
  BY <1>3, <1>4, AppendProperties
<1> HIDE DEF v
<1>8. \A i \in 1..Len(u) : u[i] = v[i]
  <2> SUFFICES ASSUME NEW i \in 1..n PROVE u[i] = v[i]
    BY <1>5
  <2>1. CASE i \in 1..(n - 1)
    BY <1>1, <1>2, <1>4, <1>7, <2>1
  <2>2. CASE i = n
    <3>1. Len(t) + 1 = n
      BY <1>4
    <3> QED
      BY <1>6, <1>7, <2>2, <3>1
  <2> QED
    BY <2>1, <2>2
<1>9. Len(u) = Len(v)
  BY <1>4, <1>5, <1>7
<1>10. u = v
  BY <1>5, <1>7, <1>8, <1>9, SeqEqual
<1> QED
  BY <1>10 DEF u, v, t, x

\* A stack whose top is pushed on has the same types, and its top has content.
LEMMA PushedIs ==
    ASSUME NEW s \in Seq(Layer), Len(s) > 0, NEW ns \in Seq(Node), ns # << >>
    PROVE  /\ Around(PushOn(s, ns)) = Around(s)
           /\ TopLayer(PushOn(s, ns)).ltype = TopLayer(s).ltype
           /\ ~BottomEmpty(PushOn(s, ns))
<1> DEFINE u == PushOn(s, ns)
           top == [TopLayer(s) EXCEPT !.list = @ \o ns]
<1>1. Len(s) \in Nat \ {0} /\ TopLayer(s) \in Layer /\ TopLayer(s) = s[Len(s)]
  BY LenProperties, ElementOfSeq DEF TopLayer
<1>2. /\ top \in Layer /\ top.ltype = TopLayer(s).ltype /\ top.list = TopLayer(s).list \o ns
  <2>1. TopLayer(s).list \o ns \in Seq(Node)
    BY <1>1, ConcatProperties DEF Layer
  <2> QED
    BY <1>1, <2>1 DEF Layer
<1>3. top.list # << >>
  <2>1. TopLayer(s).list \in Seq(Node) /\ ns \in Seq(Node)
    BY <1>1 DEF Layer
  <2> QED
    BY <1>2, <2>1, ConcatEqualIffEmpty
<1>4. u = [s EXCEPT ![Len(s)] = top]
  BY <1>1, LenProperties DEF PushOn, TopLayer
<1> HIDE DEF u, top
<1>5. /\ u \in Seq(Layer) /\ Len(u) = Len(s)
      /\ \A j \in 1..Len(s) : u[j] = IF j = Len(s) THEN top ELSE s[j]
  BY <1>1, <1>2, <1>4, ExceptSeq
<1>6. \A j \in 1..Len(s) : u[j].ltype = s[j].ltype
  BY <1>1, <1>2, <1>5
<1>7. Around(u) = Around(s)
  BY <1>5, <1>6 DEF Around
<1>8. u[Len(u)] = top
  BY <1>1, <1>5
<1>9. TopLayer(u).ltype = TopLayer(s).ltype
  BY <1>2, <1>8 DEF TopLayer
<1>10. ~BottomEmpty(u)
  BY <1>3, <1>8 DEF BottomEmpty
<1> QED
  BY <1>7, <1>9, <1>10 DEF u

LEMMA PoppedIs ==
    ASSUME NEW s \in Seq(Layer), Len(s) > 1
    PROVE  /\ Around(Popped(s)) = Front(Around(s))
           /\ ~BottomEmpty(Popped(s))
<1> DEFINE front == SubSeq(s, 1, Len(s) - 1)
<1>1. /\ front \in Seq(Layer) /\ TopLayer(s) \in Layer
      /\ s = Append(front, TopLayer(s)) /\ Len(front) > 0
  <2>1. Len(s) \in Nat
    BY LenProperties
  <2> QED
    BY <2>1, TopIs
<1>2. Popped(s) = PushOn(front, Nested(TopLayer(s)))
  BY DEF Popped
<1> HIDE DEF front
<1>3. Nested(TopLayer(s)) \in Seq(Node) /\ Nested(TopLayer(s)) # << >>
  <2>1. /\ Opening(TopLayer(s)) \in Seq(Node) /\ Close(TopLayer(s).ltype) \in Node
        /\ Nested(TopLayer(s)) = Opening(TopLayer(s)) \o <<Close(TopLayer(s).ltype)>>
    BY <1>1, OpeningType DEF Layer, Close, Node
  <2>2. <<Close(TopLayer(s).ltype)>> \in Seq(Node) /\ <<Close(TopLayer(s).ltype)>> # << >>
    BY <2>1
  <2>3. Nested(TopLayer(s)) \in Seq(Node)
    BY <1>1, NestedType
  <2>4. Nested(TopLayer(s)) # << >>
    BY <2>1, <2>2, ConcatEqualIffEmpty
  <2> QED
    BY <2>3, <2>4
<1>4. Around(Popped(s)) = Around(front) /\ ~BottomEmpty(Popped(s))
  BY <1>1, <1>2, <1>3, PushedIs
<1>5. Around(s) = Append(Around(front), TopLayer(s).ltype)
  BY <1>1, AroundAppend
<1>6. Around(front) \in Seq(LType) /\ TopLayer(s).ltype \in LType
  BY <1>1, AroundIs DEF Layer
<1> QED
  BY <1>4, <1>5, <1>6, FrontAppend

LEMMA DocNotEmpty ==
    ASSUME NEW f \in Seq(Layer), NEW s \in Seq(Layer), Len(s) > 0
    PROVE  /\ Doc(f, s) \in Seq(Node) /\ Len(Doc(f, s)) \in Nat \ {0}
           /\ Doc(f, s)[Len(Doc(f, s))] \in Node
<1> DEFINE front == SubSeq(s, 1, Len(s) - 1)
<1>1. front \in Seq(Layer) /\ TopLayer(s) \in Layer /\ s = Append(front, TopLayer(s))
  BY TopIs
<1> HIDE DEF front
<1>2. /\ Trees(f) \in Seq(Node) /\ Openings(front) \in Seq(Node)
      /\ Openings(s) = Openings(front) \o Opening(TopLayer(s)) /\ Openings(s) \in Seq(Node)
  BY <1>1, LayersAppend
<1>3. Opening(TopLayer(s)) \in Seq(Node) /\ Opening(TopLayer(s)) # << >>
  <2>1. /\ <<Open(TopLayer(s).ltype)>> \in Seq(Node) /\ TopLayer(s).list \in Seq(Node)
        /\ <<Open(TopLayer(s).ltype)>> # << >>
    BY <1>1 DEF Layer, Open, Node
  <2>2. Opening(TopLayer(s)) # << >>
    BY <2>1, ConcatEqualIffEmpty DEF Opening
  <2> QED
    BY <1>1, <2>2, OpeningType
<1>4. Openings(s) # << >>
  BY <1>2, <1>3, ConcatEqualIffEmpty
<1>5. Doc(f, s) # << >> /\ Doc(f, s) \in Seq(Node)
  BY <1>2, <1>4, ConcatEqualIffEmpty, DocType DEF Doc
<1>6. Len(Doc(f, s)) \in Nat \ {0}
  BY <1>5, EmptySeq
<1>7. Len(Doc(f, s)) \in 1..Len(Doc(f, s))
  BY <1>6
<1> QED
  BY <1>5, <1>6, <1>7, ElementOfSeq

\* What a document ends with.
LEMMA LastIs ==
    ASSUME NEW doc \in Seq(Node), NEW node \in Node
    PROVE  /\ Append(doc, node)[Len(Append(doc, node))] = node
           /\ Append(doc, node) \in Seq(Node) /\ Len(Append(doc, node)) > 0
<1>1. /\ Append(doc, node) \in Seq(Node) /\ Len(Append(doc, node)) = Len(doc) + 1
      /\ Append(doc, node)[Len(doc) + 1] = node /\ Len(doc) \in Nat
  BY AppendProperties, LenProperties
<1> QED
  BY <1>1

LEMMA NodeIs ==
    /\ \A l \in LType : /\ Open(l) \in Node /\ Open(l).kind = "open"
                        /\ Close(l) \in Node /\ Close(l).kind = "close"
    /\ \A i \in Nat \ {0} : Item(i) \in Node /\ Item(i).kind = "item"
  BY DEF Open, Close, Item, Node

\* A layer opens on top.
LEMMA ReadOpened ==
    ASSUME NEW rs, NEW n, NEW doc \in Seq(Node), NEW s \in Seq(Layer), NEW l \in LType,
           ReadBack(doc) = [open |-> Around(s), items |-> Taken(rs, n)]
    PROVE  ReadBack(Append(doc, Open(l)))
             = [open |-> Around(Append(s, NewLayer(l))), items |-> Taken(rs, n)]
<1>1. Open(l) \in Node /\ NewLayer(l) \in Layer /\ NewLayer(l).ltype = l
  BY NodeIs, NewLayerType DEF NewLayer
<1>2. ReadBack(Append(doc, Open(l))) = NodeRead([open |-> Around(s), items |-> Taken(rs, n)], Open(l))
  BY <1>1, ReadBackAppend
<1>3. Around(Append(s, NewLayer(l))) = Append(Around(s), l)
  BY <1>1, AroundAppend
<1> QED
  BY <1>2, <1>3, OpenRead

\* The top layer closes.
LEMMA ReadPopped ==
    ASSUME NEW rs, NEW n, NEW doc \in Seq(Node), NEW s \in Seq(Layer), Len(s) > 1, NEW l \in LType,
           ReadBack(doc) = [open |-> Around(s), items |-> Taken(rs, n)]
    PROVE  ReadBack(Append(doc, Close(l)))
             = [open |-> Around(Popped(s)), items |-> Taken(rs, n)]
<1>1. Close(l) \in Node
  BY NodeIs
<1>2. ReadBack(Append(doc, Close(l))) = NodeRead([open |-> Around(s), items |-> Taken(rs, n)], Close(l))
  BY <1>1, ReadBackAppend
<1> QED
  BY <1>2, CloseRead, PoppedIs

\* The top layer closes: document and layers.
LEMMA PopKeeps ==
    ASSUME NEW rs, NEW n \in Nat \ {0}, NEW at, NEW f \in Seq(Layer), NEW s \in Seq(Layer), Len(s) > 1,
           EverythingRead(rs, n, f, s), Orderly(rs, Doc(f, s), n), ~Twin(rs, n),
           Landed(rs, n, at, f, s),
           ~Awaits(rs, n, at, TopLayer(s).ltype)
    PROVE  /\ EverythingRead(rs, n, f, Popped(s)) /\ Orderly(rs, Doc(f, Popped(s)), n)
           /\ Doc(f, Popped(s))[Len(Doc(f, Popped(s)))].kind = "close"
<1> DEFINE l == TopLayer(s).ltype
           doc == Doc(f, s)
<1>1. l \in LType /\ Len(s) > 0 /\ Len(s) # 1
  <2>1. Len(s) \in Nat /\ Len(s) > 0 /\ Len(s) # 1
    <3>1. \A k \in Nat : k > 1 => k > 0 /\ k # 1
      OBVIOUS
    <3> QED
      BY <3>1, LenProperties
  <2>2. TopLayer(s) \in Layer
    BY <2>1, TopIs
  <2> QED
    BY <2>1, <2>2 DEF Layer
<1>2. Doc(f, Popped(s)) = Append(doc, Close(l))
  BY DocPopped
<1>3. doc \in Seq(Node) /\ Close(l) \in Node /\ Close(l).kind = "close"
  BY <1>1, DocType, NodeIs
<1>4. doc[Len(doc)].kind # "open"
  <2>1. ~BottomEmpty(s)
    BY <1>1 DEF BottomEmpty
  <2> QED
    BY <2>1 DEF Landed
<1>5. ReadBack(doc) = [open |-> Around(s), items |-> Taken(rs, n)]
  BY DEF EverythingRead
<1>6. Orderly(rs, doc, n)
  OBVIOUS
<1> HIDE DEF l, doc
<1>7. Orderly(rs, Append(doc, Close(l)), n)
  BY <1>3, <1>4, <1>6, OrderlyMore
<1>8. ReadBack(Append(doc, Close(l))) = [open |-> Around(Popped(s)), items |-> Taken(rs, n)]
  BY <1>1, <1>3, <1>5, ReadPopped
<1>9. ~BottomEmpty(Popped(s))
  BY PoppedIs
<1>10. EverythingRead(rs, n, f, Popped(s))
  BY <1>2, <1>8, <1>9 DEF EverythingRead
<1>11. Append(doc, Close(l))[Len(Append(doc, Close(l)))].kind = "close"
  BY <1>3, LastIs
<1> QED
  BY <1>2, <1>7, <1>10, <1>11

\* A layer opens on others for the row to come.
LEMMA OpenKeeps ==
    ASSUME NEW rs, NEW n \in Nat \ {0}, NEW f \in Seq(Layer), NEW s \in Seq(Layer), Len(s) > 0,
           NEW l \in LType,
           EverythingRead(rs, n, f, s), Orderly(rs, Doc(f, s), n), ~Twin(rs, n)
    PROVE  /\ EverythingRead(rs, n, f, Append(s, NewLayer(l)))
           /\ Orderly(rs, Doc(f, Append(s, NewLayer(l))), n)
           /\ TopLayer(Append(s, NewLayer(l))).ltype = l
<1> DEFINE doc == Doc(f, s)
           u == Append(s, NewLayer(l))
<1>1. Doc(f, u) = Append(doc, Open(l))
  BY DocOpened
<1>2. doc \in Seq(Node) /\ Open(l) \in Node /\ Open(l).kind = "open"
  BY DocType, NodeIs
<1>3. ReadBack(doc) = [open |-> Around(s), items |-> Taken(rs, n)]
  BY DEF EverythingRead
<1>4. Orderly(rs, doc, n)
  OBVIOUS
<1> HIDE DEF doc
<1>5. Orderly(rs, Append(doc, Open(l)), n)
  BY <1>2, <1>4, OrderlyMore
<1>6. ReadBack(Append(doc, Open(l))) = [open |-> Around(u), items |-> Taken(rs, n)]
  BY <1>2, <1>3, ReadOpened
<1>7. NewLayer(l) \in Layer /\ NewLayer(l).ltype = l
  BY NewLayerType DEF NewLayer
<1>8. /\ Len(u) = Len(s) + 1 /\ Len(s) \in Nat \ {0}
      /\ u[Len(s) + 1] = NewLayer(l)
  BY <1>7, AppendProperties, LenProperties
<1>9. ~BottomEmpty(u)
  BY <1>8 DEF BottomEmpty
<1>10. TopLayer(u).ltype = l
  BY <1>7, <1>8 DEF TopLayer
<1> HIDE DEF u
<1>11. EverythingRead(rs, n, f, u)
  BY <1>1, <1>6, <1>9 DEF EverythingRead
<1> QED
  BY <1>1, <1>5, <1>10, <1>11 DEF u

\* The bottom layer is finished, and an empty one takes its place.
LEMMA BottomKeeps ==
    ASSUME NEW rs, NEW n \in Nat \ {0}, NEW at, NEW f \in Seq(Layer), NEW layer \in Layer,
           NEW l \in LType,
           EverythingRead(rs, n, f, <<layer>>), Orderly(rs, Doc(f, <<layer>>), n), ~Twin(rs, n),
           Landed(rs, n, at, f, <<layer>>),
           ~Awaits(rs, n, at, layer.ltype)
    PROVE  /\ EverythingRead(rs, n, f \o FinishedBottom(layer), <<NewLayer(l)>>)
           /\ Orderly(rs, Doc(f \o FinishedBottom(layer), <<NewLayer(l)>>), n)
           /\ BottomEmpty(<<NewLayer(l)>>)
<1> DEFINE g == f \o FinishedBottom(layer)
           k == layer.ltype
           doc == Doc(f, <<layer>>)
           new == NewLayer(l)
<1>0. /\ new \in Layer /\ new.ltype = l /\ new.list = << >> /\ k \in LType
      /\ <<layer>> \in Seq(Layer) /\ <<new>> \in Seq(Layer)
  BY NewLayerType DEF NewLayer, Layer
<1>1. /\ Open(l) \in Node /\ Open(k) \in Node /\ Close(k) \in Node
      /\ Open(l).kind = "open" /\ Close(k).kind = "close"
  BY <1>0, NodeIs
<1>2. /\ Trees(f) \in Seq(Node)
      /\ layer.list = << >> => doc = Append(Trees(f), Open(k))
      /\ Trees(Append(f, layer)) = Append(doc, Close(k))
  BY DocBottom
<1>3. doc \in Seq(Node)
  BY <1>0, DocType
<1>4. Around(<<new>>) = <<l>>
  <2>1. Len(<<new>>) = 1 /\ <<new>>[1].ltype = l
    BY <1>0
  <2> QED
    BY <2>1 DEF Around
<1>5. BottomEmpty(<<new>>)
  BY <1>0 DEF BottomEmpty
<1>6. /\ ReadBack(doc) = [open |-> <<k>>, items |-> Taken(rs, n)]
      /\ layer.list = << >> => ReadBack(Trees(f)) = [open |-> << >>, items |-> Taken(rs, n)]
  <2>1. Around(<<layer>>) = <<k>>
    BY DEF Around
  <2>2. Len(<<layer>>) = 1 /\ <<layer>>[1] = layer
    OBVIOUS
  <2>3. BottomEmpty(<<layer>>) <=> layer.list = << >>
    BY <2>2 DEF BottomEmpty
  <2> QED
    BY <2>1, <2>3 DEF EverythingRead
<1>7. Orderly(rs, doc, n)
  OBVIOUS
<1>8. layer.list # << >> => doc[Len(doc)].kind # "open"
  <2>1. Len(<<layer>>) = 1 /\ <<layer>>[1] = layer
    OBVIOUS
  <2>2. layer.list # << >> => ~BottomEmpty(<<layer>>)
    BY <2>1 DEF BottomEmpty
  <2>3. TopLayer(<<layer>>) = layer
    BY <2>1 DEF TopLayer
  <2> QED
    BY <2>2, <2>3 DEF Landed
<1>9. << >> \o <<l>> = <<l>> /\ Append(<< >>, l) = <<l>>
  OBVIOUS
<1> HIDE DEF doc, k
<1>10. CASE layer.list = << >>
  <2>1. g = f
    BY <1>10, ConcatEmptySeq DEF FinishedBottom
  <2>2. Doc(f, <<new>>) = Append(Trees(f), Open(l))
    BY <1>0, DocBottom
  <2>3. Orderly(rs, Append(Trees(f), Open(l)), n)
    BY <1>0, <1>2, <1>7, <1>10, OrderlyBottom
  <2>4. ReadBack(Append(Trees(f), Open(l)))
          = NodeRead([open |-> << >>, items |-> Taken(rs, n)], Open(l))
    BY <1>1, <1>2, <1>6, <1>10, ReadBackAppend
  <2>5. ReadBack(Append(Trees(f), Open(l))) = [open |-> <<l>>, items |-> Taken(rs, n)]
    <3>1. NodeRead([open |-> << >>, items |-> Taken(rs, n)], Open(l))
            = [open |-> Append(<< >>, l), items |-> Taken(rs, n)]
      BY OpenRead
    <3> QED
      BY <1>9, <2>4, <3>1
  <2>6. EverythingRead(rs, n, f, <<new>>)
    BY <1>4, <1>6, <1>10, <2>2, <2>5 DEF EverythingRead
  <2> QED
    BY <1>5, <2>1, <2>2, <2>3, <2>6
<1>11. CASE layer.list # << >>
  <2>1. g = Append(f, layer) /\ g \in Seq(Layer)
    BY <1>11, AppendIsConcat, AppendProperties DEF FinishedBottom
  <2>2. Trees(g) = Append(doc, Close(k))
    BY <1>2, <2>1
  <2>3. Doc(g, <<new>>) = Append(Trees(g), Open(l))
    BY <1>0, <2>1, DocBottom
  <2> HIDE DEF g
  <2>4. Orderly(rs, Trees(g), n) /\ Trees(g) \in Seq(Node)
    BY <1>1, <1>3, <1>7, <1>8, <1>11, <2>2, OrderlyMore, LastIs
  <2>5. Orderly(rs, Append(Trees(g), Open(l)), n)
    BY <1>1, <2>4, OrderlyMore
  <2>6. ReadBack(Trees(g)) = [open |-> << >>, items |-> Taken(rs, n)]
    <3>1. ReadBack(Trees(g)) = NodeRead([open |-> <<k>>, items |-> Taken(rs, n)], Close(k))
      BY <1>1, <1>3, <1>6, <2>2, ReadBackAppend
    <3>2. Front(<<k>>) = << >>
      <4>1. << >> \in Seq(LType) /\ <<k>> = Append(<< >>, k)
        BY EmptySeq
      <4> QED
        BY <1>0, <4>1, FrontAppend
    <3> QED
      BY <3>1, <3>2, CloseRead
  <2>7. ReadBack(Append(Trees(g), Open(l)))
          = NodeRead([open |-> << >>, items |-> Taken(rs, n)], Open(l))
    BY <1>1, <2>4, <2>6, ReadBackAppend
  <2>8. ReadBack(Append(Trees(g), Open(l))) = [open |-> <<l>>, items |-> Taken(rs, n)]
    <3>1. NodeRead([open |-> << >>, items |-> Taken(rs, n)], Open(l))
            = [open |-> Append(<< >>, l), items |-> Taken(rs, n)]
      BY OpenRead
    <3> QED
      BY <1>9, <2>7, <3>1
  <2>9. EverythingRead(rs, n, g, <<new>>)
    BY <1>4, <2>3, <2>6, <2>8 DEF EverythingRead
  <2> QED
    BY <1>5, <2>3, <2>5, <2>9 DEF g
<1> QED
  BY <1>10, <1>11

\* A row is pushed.
LEMMA ItemKeeps ==
    ASSUME NEW rs, NEW n \in Nat \ {0}, n <= Len(rs), NEW f \in Seq(Layer), NEW s \in Seq(Layer),
           Len(s) > 0, Len(s) = rs[n].depth + 1, TopLayer(s).ltype = rs[n].ltype,
           rs[n].depth \in Nat,
           EverythingRead(rs, n, f, s), Orderly(rs, Doc(f, s), n)
    PROVE  LET u == PushOn(s, <<Item(n)>>)
           IN  /\ EverythingRead(rs, n + 1, f, u) /\ Orderly(rs, Doc(f, u), n + 1)
               /\ TopLayer(u).ltype = TopLayer(s).ltype
               /\ Doc(f, u)[Len(Doc(f, u))].kind = "item"
<1> DEFINE u == PushOn(s, <<Item(n)>>)
           doc == Doc(f, s)
<1>1. Item(n) \in Node /\ Item(n).kind = "item" /\ <<Item(n)>> \in Seq(Node) /\ <<Item(n)>> # << >>
  <2>1. Item(n) \in Node /\ Item(n).kind = "item"
    BY NodeIs
  <2> QED
    BY <2>1
<1>2. doc \in Seq(Node)
  BY DocType
<1>3. Doc(f, u) = Append(doc, Item(n))
  <2>1. Doc(f, u) = doc \o <<Item(n)>>
    BY <1>1, DocPushed
  <2> HIDE DEF u, doc
  <2> QED
    BY <1>1, <1>2, <2>1, AppendIsConcat
<1>4. Around(u) = Around(s) /\ TopLayer(u).ltype = TopLayer(s).ltype /\ ~BottomEmpty(u)
  BY <1>1, PushedIs
<1>5. ReadBack(doc) = [open |-> Around(s), items |-> Taken(rs, n)] /\ Orderly(rs, doc, n)
  BY DEF EverythingRead
<1> HIDE DEF u, doc
<1>6. Orderly(rs, Append(doc, Item(n)), n + 1)
  BY <1>2, <1>5, OrderlyItem
<1>7. ReadBack(Append(doc, Item(n))) = NodeRead([open |-> Around(s), items |-> Taken(rs, n)], Item(n))
  BY <1>1, <1>2, <1>5, ReadBackAppend
<1>8. Len(Around(s)) - 1 = rs[n].depth /\ Last(Around(s)) = rs[n].ltype
  <2>1. /\ Len(Around(s)) = Len(s) /\ Len(s) \in Nat \ {0}
        /\ \A i \in 1..Len(s) : Around(s)[i] = s[i].ltype
    BY AroundIs, LenProperties
  <2>2. Around(s)[Len(s)] = TopLayer(s).ltype
    BY <2>1 DEF TopLayer
  <2>3. Last(Around(s)) = Around(s)[Len(Around(s))]
    BY DEF Last
  <2>4. Last(Around(s)) = rs[n].ltype
    BY <2>1, <2>2, <2>3
  <2>5. Len(Around(s)) - 1 = rs[n].depth
    BY <2>1
  <2> QED
    BY <2>4, <2>5
<1>9. ReadBack(Append(doc, Item(n))) = [open |-> Around(s), items |-> Taken(rs, n + 1)]
  <2>1. NodeRead([open |-> Around(s), items |-> Taken(rs, n)], Item(n))
          = [open |-> Around(s),
             items |-> Append(Taken(rs, n), [row |-> n, depth |-> rs[n].depth, ltype |-> rs[n].ltype])]
    BY <1>8, ItemRead
  <2> QED
    BY <1>7, <2>1, TakenNext
<1>10. EverythingRead(rs, n + 1, f, u)
  BY <1>3, <1>4, <1>9 DEF EverythingRead
<1>11. Append(doc, Item(n))[Len(Append(doc, Item(n)))].kind = "item"
  BY <1>1, <1>2, LastIs
<1> QED
  BY <1>3, <1>4, <1>6, <1>10, <1>11 DEF u

LEMMA OneLayer ==
    ASSUME NEW s \in Seq(Layer), Len(s) = 1
    PROVE  s[1] \in Layer /\ s = <<s[1]>>
<1>1. s[1] \in Layer
  BY ElementOfSeq
<1> DEFINE t == <<s[1]>>
<1>2. t \in Seq(Layer) /\ Len(t) = 1 /\ t[1] = s[1]
  BY <1>1
<1> HIDE DEF t
<1>3. \A i \in 1..Len(s) : s[i] = t[i]
  BY <1>2
<1>4. s = t
  BY <1>2, <1>3, SeqEqual
<1> QED
  BY <1>1, <1>4 DEF t

LEMMA InitDocFits == DepthsInit => DocFits
<1> SUFFICES ASSUME DepthsInit PROVE DocFits
  OBVIOUS
<1>1. /\ << >> \in Seq(Layer) /\ Len(<< >>) = 0 /\ << >> \in Seq(Node)
      /\ NewLayer(TopLType) \in Layer /\ NewLayer(TopLType).list = << >> /\ TopLType \in LType
  BY EmptySeq, NewLayerType, DepthsAssumption DEF NewLayer
<1>2. next = 1 /\ finished = << >> /\ stack = <<NewLayer(TopLType)>>
  BY DEF DepthsInit
<1>3. stack = Append(<< >>, NewLayer(TopLType)) /\ Len(stack) = 1 /\ stack[1] = NewLayer(TopLType)
  BY <1>2
<1>4. Doc(<< >>, << >>) = << >>
  <2>1. << >> \o << >> = << >>
    BY <1>1, ConcatEmptySeq
  <2> QED
    BY <2>1, LayersNone DEF Doc
<1>5. Doc(finished, stack) = Append(<< >>, Open(TopLType))
  BY <1>1, <1>2, <1>3, <1>4, DocOpened
<1>6. Taken(rows, next) = << >>
  <2>1. 1..(next - 1) = {}
    BY <1>2
  <2> QED
    BY <2>1 DEF Taken
<1>7. Around(<< >>) = << >>
  <2>1. 1..Len(<< >>) = {}
    BY <1>1
  <2> QED
    BY <2>1 DEF Around
<1>8. ReadBack(<< >>) = [open |-> Around(<< >>), items |-> Taken(rows, next)]
  BY <1>6, <1>7, ReadBackNone
<1>9. EverythingRead(rows, next, finished, stack)
  <2>1. ReadBack(Doc(finished, stack)) = [open |-> Around(stack), items |-> Taken(rows, next)]
    <3>1. << >> \in Seq(Node) /\ << >> \in Seq(Layer) /\ TopLType \in LType
      BY <1>1
    <3>2. ReadBack(Append(<< >>, Open(TopLType)))
            = [open |-> Around(Append(<< >>, NewLayer(TopLType))), items |-> Taken(rows, next)]
      BY <1>8, <3>1, ReadOpened
    <3> QED
      BY <1>3, <1>5, <3>2
  <2>2. ReadBack(Trees(finished)) = [open |-> << >>, items |-> Taken(rows, next)]
    BY <1>2, <1>7, <1>8, LayersNone
  <2> QED
    BY <2>1, <2>2 DEF EverythingRead
<1>10. ~Twin(rows, next)
  BY <1>2 DEF Twin
<1>11. Orderly(rows, << >>, next)
  <2>1. 1..Len(<< >>) = {} /\ 1..(Len(<< >>) - 1) = {}
    BY <1>1
  <2> QED
    BY <2>1 DEF Orderly, ItemsOrderly, TwinsTogether, NoneEmpty
<1>12. Orderly(rows, Doc(finished, stack), next)
  <2>1. Open(TopLType) \in Node /\ Open(TopLType).kind = "open" /\ next \in Nat \ {0}
    BY <1>1, <1>2, NodeIs
  <2> QED
    BY <1>1, <1>5, <1>10, <1>11, <2>1, OrderlyMore
<1>13. BottomEmpty(stack)
  BY <1>1, <1>3 DEF BottomEmpty
<1> QED
  BY <1>9, <1>10, <1>12, <1>13 DEF DocFits, Sits, Landed

\* Where the loops stand when they do something to a layer.
LEMMA Standing ==
    ASSUME IInv
    PROVE  /\ next \in Nat \ {0} /\ level \in Nat /\ Len(rows) \in Nat
           /\ stack \in Seq(Layer) /\ finished \in Seq(Layer) /\ Len(stack) = level + 1
           /\ Len(stack) \in Nat \ {0} /\ TopLayer(stack) \in Layer
           /\ AtRow => rows[next].ltype \in LType /\ rows[next].depth \in Nat
<1>1. /\ rows \in Seq(Row) /\ next \in 1..(Len(rows) + 1) /\ level \in 0..MaxDepth
      /\ stack \in Seq(Layer) /\ finished \in Seq(Layer) /\ Len(stack) = level + 1
  BY DEF IInv, DepthsTypeOK, LayersMatchLevel
<1>2. Len(rows) \in Nat
  BY <1>1, LenProperties
<1>3. next \in Nat \ {0} /\ level \in Nat /\ Len(stack) \in Nat \ {0}
  BY <1>1, <1>2
<1>4. TopLayer(stack) \in Layer
  <2>1. Len(stack) > 0
    BY <1>3
  <2> QED
    BY <1>1, <2>1, TopIs
<1>5. AtRow => rows[next] \in Row
  <2>1. AtRow => next \in 1..Len(rows)
    BY <1>2, <1>3 DEF AtRow
  <2> QED
    BY <1>1, <2>1, ElementOfSeq
<1>6. AtRow => rows[next].ltype \in LType /\ rows[next].depth \in Nat
  BY <1>5, DepthsAssumption DEF Row
<1> QED
  BY <1>1, <1>2, <1>3, <1>4, <1>6

LEMMA NextDocFits == IInv /\ DocFits /\ [DepthsNext]_depthsVars => DocFits'
<1> SUFFICES ASSUME IInv, DocFits, [DepthsNext]_depthsVars PROVE DocFits'
  OBVIOUS
<1>1. /\ next \in Nat \ {0} /\ level \in Nat /\ Len(rows) \in Nat
      /\ stack \in Seq(Layer) /\ finished \in Seq(Layer) /\ Len(stack) = level + 1
      /\ Len(stack) \in Nat \ {0} /\ TopLayer(stack) \in Layer
      /\ AtRow => rows[next].ltype \in LType /\ rows[next].depth \in Nat
  BY Standing
<1>2. /\ EverythingRead(rows, next, finished, stack)
      /\ Orderly(rows, Doc(finished, stack), next)
      /\ Sits(rows, next, level, stack)
      /\ Landed(rows, next, level, finished, stack)
  BY DEF DocFits
<1>3. Twin(rows, next) => AtRow /\ level = rows[next].depth /\ TopLayer(stack).ltype = rows[next].ltype
  BY <1>2 DEF Twin, AtRow, Sits
<1>4. Awaits(rows, next, level, TopLayer(stack).ltype) =>
        AtRow /\ level <= rows[next].depth /\ TopLayer(stack).ltype = rows[next].ltype
  BY DEF Awaits, AtRow
<1>5. Len(stack) > 0
  BY <1>1
<1>6. CASE IncreaseDepth
  <2> DEFINE l == rows[next].ltype
  <2>1. /\ AtRow /\ level < rows[next].depth /\ level' = level + 1
        /\ stack' = Append(stack, NewLayer(l)) /\ rows' = rows /\ next' = next
        /\ finished' = finished
    BY <1>6 DEF IncreaseDepth
  <2>2. ~Twin(rows, next)
    BY <1>1, <1>3, <2>1
  <2>3. /\ EverythingRead(rows, next, finished, stack')
        /\ Orderly(rows, Doc(finished, stack'), next)
        /\ TopLayer(stack').ltype = l
    BY <1>1, <1>2, <1>5, <2>1, <2>2, OpenKeeps
  <2>4. Awaits(rows, next, level', TopLayer(stack').ltype)
    BY <1>1, <2>1, <2>3 DEF Awaits, AtRow
  <2>5. Landed(rows, next, level', finished, stack')
    BY <2>4 DEF Landed
  <2>6. Sits(rows, next, level', stack')
    BY <2>2 DEF Sits
  <2> QED
    BY <2>1, <2>3, <2>5, <2>6 DEF DocFits
<1>7. CASE DecreaseDepth
  <2>1. /\ AtRow /\ level > rows[next].depth /\ level' = level - 1
        /\ stack' = Popped(stack) /\ rows' = rows /\ next' = next
        /\ finished' = finished
    BY <1>7 DEF DecreaseDepth
  <2>2. ~Twin(rows, next) /\ ~Awaits(rows, next, level, TopLayer(stack).ltype) /\ Len(stack) > 1
    BY <1>1, <1>3, <1>4, <2>1
  <2>3. /\ EverythingRead(rows, next, finished, Popped(stack))
        /\ Orderly(rows, Doc(finished, Popped(stack)), next)
        /\ Doc(finished, Popped(stack))[Len(Doc(finished, Popped(stack)))].kind = "close"
    BY <1>1, <1>2, <2>2, PopKeeps
  <2>4. Landed(rows, next, level', finished, stack')
    BY <2>1, <2>3 DEF Landed
  <2>5. Sits(rows, next, level', stack')
    BY <2>2 DEF Sits
  <2> QED
    BY <2>1, <2>3, <2>4, <2>5 DEF DocFits
<1>8. CASE NewListAtBottom
  <2> DEFINE l == rows[next].ltype
             layer == stack[1]
  <2>1. /\ AtRow /\ TopLayer(stack).ltype # l /\ Len(stack) = 1 /\ level' = level
        /\ finished' = finished \o FinishedBottom(layer)
        /\ stack' = <<NewLayer(l)>> /\ rows' = rows /\ next' = next
    BY <1>8 DEF NewListAtBottom, TypeChanges
  <2>2. /\ stack = <<layer>> /\ TopLayer(stack) = layer /\ layer \in Layer /\ l \in LType
    <3>1. TopLayer(stack) = layer
      BY <2>1 DEF TopLayer
    <3>2. stack = <<layer>>
      BY <1>1, <2>1, OneLayer
    <3> QED
      BY <1>1, <2>1, <3>1, <3>2
  <2>3. ~Twin(rows, next) /\ ~Awaits(rows, next, level, layer.ltype)
    BY <1>3, <1>4, <2>1, <2>2
  <2>a. /\ EverythingRead(rows, next, finished, <<layer>>)
        /\ Orderly(rows, Doc(finished, <<layer>>), next)
        /\ Landed(rows, next, level, finished, <<layer>>)
    BY <1>2, <2>2
  <2> HIDE DEF l, layer
  <2>4. /\ EverythingRead(rows, next, finished \o FinishedBottom(layer), <<NewLayer(l)>>)
        /\ Orderly(rows, Doc(finished \o FinishedBottom(layer), <<NewLayer(l)>>), next)
        /\ BottomEmpty(<<NewLayer(l)>>)
    BY <1>1, <2>2, <2>3, <2>a, BottomKeeps
  <2>5. Landed(rows, next, level', finished', stack')
    BY <2>1, <2>4 DEF Landed
  <2>6. Sits(rows, next, level', stack')
    BY <2>3 DEF Sits
  <2> QED
    BY <2>1, <2>4, <2>5, <2>6 DEF DocFits
<1>9. CASE NewListNested
  <2> DEFINE l == rows[next].ltype
             popped == Popped(stack)
  <2>1. /\ AtRow /\ TopLayer(stack).ltype # l /\ Len(stack) > 1 /\ level' = level
        /\ level = rows[next].depth
        /\ stack' = Append(popped, NewLayer(l)) /\ rows' = rows /\ next' = next
        /\ finished' = finished
    BY <1>9 DEF NewListNested, TypeChanges
  <2>2. ~Twin(rows, next) /\ ~Awaits(rows, next, level, TopLayer(stack).ltype)
    BY <1>3, <1>4, <2>1
  <2>3. /\ EverythingRead(rows, next, finished, popped)
        /\ Orderly(rows, Doc(finished, popped), next)
    BY <1>1, <1>2, <2>1, <2>2, PopKeeps
  <2>4. popped \in Seq(Layer) /\ Len(popped) > 0
    BY <1>1, <2>1, PoppedType
  <2> HIDE DEF popped
  <2>5. /\ EverythingRead(rows, next, finished, stack')
        /\ Orderly(rows, Doc(finished, stack'), next)
        /\ TopLayer(stack').ltype = l
    BY <1>1, <2>1, <2>2, <2>3, <2>4, OpenKeeps
  <2>6. Awaits(rows, next, level', TopLayer(stack').ltype)
    BY <1>1, <2>1, <2>5 DEF Awaits, AtRow
  <2>7. Landed(rows, next, level', finished, stack')
    BY <2>6 DEF Landed
  <2>8. Sits(rows, next, level', stack')
    BY <2>2 DEF Sits
  <2> QED
    BY <2>1, <2>5, <2>7, <2>8 DEF DocFits
<1>10. CASE PushItem
  <2> DEFINE u == PushOn(stack, <<Item(next)>>)
  <2>1. /\ AtRow /\ level = rows[next].depth /\ TopLayer(stack).ltype = rows[next].ltype
        /\ stack' = u /\ next' = next + 1 /\ rows' = rows /\ level' = level
        /\ finished' = finished
    BY <1>10 DEF PushItem
  <2>2. /\ EverythingRead(rows, next + 1, finished, u)
        /\ Orderly(rows, Doc(finished, u), next + 1)
        /\ TopLayer(u).ltype = TopLayer(stack).ltype
        /\ Doc(finished, u)[Len(Doc(finished, u))].kind = "item"
    <3>1. /\ next <= Len(rows) /\ Len(stack) = rows[next].depth + 1
          /\ rows[next].depth \in Nat
      BY <1>1, <2>1 DEF AtRow
    <3> QED
      BY <1>1, <1>2, <1>5, <2>1, <3>1, ItemKeeps
  <2> HIDE DEF u
  <2>3. Landed(rows, next + 1, level, finished, u)
    BY <2>2 DEF Landed
  <2>4. Sits(rows, next + 1, level, u)
    <3> SUFFICES ASSUME Twin(rows, next + 1)
                 PROVE  level = rows[next + 1].depth /\ TopLayer(u).ltype = rows[next + 1].ltype
      BY DEF Sits
    <3>1. rows[next + 1] = rows[(next + 1) - 1] /\ (next + 1) - 1 = next
      BY <1>1 DEF Twin
    <3>2. rows[next + 1] = rows[next]
      BY <3>1
    <3> QED
      BY <2>1, <2>2, <3>2
  <2> QED
    BY <2>1, <2>2, <2>3, <2>4 DEF DocFits
<1>11. CASE CollapseLayer
  <2>1. /\ ~AtRow /\ Len(stack) > 1 /\ level' = level - 1
        /\ stack' = Popped(stack) /\ rows' = rows /\ next' = next
        /\ finished' = finished
    BY <1>11 DEF CollapseLayer
  <2>2. ~Twin(rows, next) /\ ~Awaits(rows, next, level, TopLayer(stack).ltype)
    BY <1>3, <1>4, <2>1
  <2>3. /\ EverythingRead(rows, next, finished, Popped(stack))
        /\ Orderly(rows, Doc(finished, Popped(stack)), next)
        /\ Doc(finished, Popped(stack))[Len(Doc(finished, Popped(stack)))].kind = "close"
    BY <1>1, <1>2, <2>1, <2>2, PopKeeps
  <2>4. Landed(rows, next, level', finished, stack')
    BY <2>1, <2>3 DEF Landed
  <2>5. Sits(rows, next, level', stack')
    BY <2>2 DEF Sits
  <2> QED
    BY <2>1, <2>3, <2>4, <2>5 DEF DocFits
<1>12. CASE IntoTrees
  <2> DEFINE layer == stack[1]
             l == layer.ltype
  <2>1. /\ ~AtRow /\ Len(stack) = 1 /\ level' = level
        /\ finished' = finished \o FinishedBottom(layer)
        /\ stack' = <<NewLayer(l)>> /\ rows' = rows /\ next' = next
    BY <1>12 DEF IntoTrees
  <2>2. /\ stack = <<layer>> /\ TopLayer(stack) = layer /\ layer \in Layer /\ l \in LType
    <3>1. TopLayer(stack) = layer
      BY <2>1 DEF TopLayer
    <3>2. stack = <<layer>>
      BY <1>1, <2>1, OneLayer
    <3> QED
      BY <1>1, <3>1, <3>2 DEF Layer
  <2>3. ~Twin(rows, next) /\ ~Awaits(rows, next, level, layer.ltype)
    BY <1>3, <1>4, <2>1, <2>2
  <2>a. /\ EverythingRead(rows, next, finished, <<layer>>)
        /\ Orderly(rows, Doc(finished, <<layer>>), next)
        /\ Landed(rows, next, level, finished, <<layer>>)
    BY <1>2, <2>2
  <2> HIDE DEF l, layer
  <2>4. /\ EverythingRead(rows, next, finished \o FinishedBottom(layer), <<NewLayer(l)>>)
        /\ Orderly(rows, Doc(finished \o FinishedBottom(layer), <<NewLayer(l)>>), next)
        /\ BottomEmpty(<<NewLayer(l)>>)
    BY <1>1, <2>2, <2>3, <2>a, BottomKeeps
  <2>5. Landed(rows, next, level', finished', stack')
    BY <2>1, <2>4 DEF Landed
  <2>6. Sits(rows, next, level', stack')
    BY <2>3 DEF Sits
  <2> QED
    BY <2>1, <2>4, <2>5, <2>6 DEF DocFits
<1>13. CASE UNCHANGED depthsVars
  BY <1>13, <1>2 DEF depthsVars, DocFits
<1> QED
  BY <1>6, <1>7, <1>8, <1>9, <1>10, <1>11, <1>12, <1>13 DEF DepthsNext

-----------------------------------------------------------------------------
(* The theorems *)

\* Type correctness of process_depths for every run of rows.
THEOREM TypeCorrect == DepthsSpec => []DepthsTypeOK
<1>1. IInv => DepthsTypeOK
  BY DEF IInv
<1> QED
  BY <1>1, InitIInv, NextIInv, PTL DEF DepthsSpec

\* `expect("No depth to pop off!")' never fires: at every step the stack holds
\* exactly one layer more than the depth the loops stand at.
THEOREM NeverUnderflows == DepthsSpec => []LayersMatchLevel
<1>1. IInv => LayersMatchLevel
  BY DEF IInv
<1> QED
  BY <1>1, InitIInv, NextIInv, PTL DEF DepthsSpec

\* For every run of rows, of any length and depth, the trees hold every row taken so
\* far once and in order, each at the depth it asked for and in a list of its own
\* type; equal rows in a row are siblings, and no closed list is empty.
THEOREM RowsPlaced == DepthsSpec => []RowsReadBack
<1>1. IInv /\ DocFits => RowsReadBack
  <2> SUFFICES ASSUME IInv, DocFits PROVE RowsReadBack
    OBVIOUS
  <2> DEFINE doc == Document
  <2>1. doc = Doc(finished, stack)
    BY DEF Document, Doc
  <2>2. /\ ReadBack(doc) = [open |-> Around(stack), items |-> Taken(rows, next)]
        /\ Orderly(rows, doc, next)
    BY <2>1 DEF DocFits, EverythingRead
  <2> HIDE DEF doc
  <2>3. ReadBack(doc).items
          = [i \in 1..(next - 1) |-> [row |-> i, depth |-> rows[i].depth, ltype |-> rows[i].ltype]]
    BY <2>2 DEF Taken
  <2>4. \A p \in 1..Len(doc), i \in 1..(next - 2) :
            doc[p] = Item(i) /\ rows[i] = rows[i + 1] => doc[p + 1] = Item(i + 1)
    BY <2>2 DEF Orderly, TwinsTogether
  <2>5. \A p \in 1..(Len(doc) - 1) : ~(doc[p].kind = "open" /\ doc[p + 1].kind = "close")
    BY <2>2 DEF Orderly, NoneEmpty
  <2> QED
    BY <2>3, <2>4, <2>5 DEF RowsReadBack, doc
<1> QED
  BY <1>1, InitIInv, NextIInv, InitDocFits, NextDocFits, PTL DEF DepthsSpec

=============================================================================
