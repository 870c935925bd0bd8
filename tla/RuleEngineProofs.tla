-------------------------- MODULE RuleEngineProofs --------------------------
(***************************************************************************)
(* Proofs about RuleEngine, for every grammar, every page and every limit. *)
(*                                                                         *)
(*   1. Depth and memos: the engine stays within its types and its limit   *)
(*      (IInv).                                                            *)
(*   2. Footnotes: what is registered is what the elements refer to (NInv).*)
(*   3. The reference: what its answers are, and that an attempt answers   *)
(*      the same wherever it has the room (BodyMoved, RuleMoved).          *)
(*   4. The engine follows the reference (EngineRight): parsers, memos and *)
(*      the page, step by step.                                            *)
(*   5. The memos change nothing.                                          *)
(***************************************************************************)
EXTENDS RuleInvariants, FiniteSetTheorems, WellFoundedInduction, TLAPS

--------------------
(* Parsers *)

LEMMA FailedFrame ==
  ASSUME NEW p \in Frame, NEW error \in ErrorKind
  PROVE  /\ Failed(p, error) \in Frame
         /\ \A k \in Nat : Placed(p, k) => Placed(Failed(p, error), k)
         /\ Failed(p, error).depth = p.depth
         /\ Carries(Failed(p, error), p)
<1>1. Append(p.tried, error) \in Seq(ErrorKind) BY DEF Frame
<1>2. Failed(p, error) \in Frame BY <1>1 DEF Failed, Frame
<1>3. \A k \in Nat : Placed(p, k) => Placed(Failed(p, error), k) BY DEF Failed, Frame, Placed
<1> QED BY <1>2, <1>3 DEF Failed, Frame, Carries

LEMMA ConsumedFrame ==
  ASSUME NEW p \in Frame, p.phase = "rules", NEW to \in Pos, NEW nodes \in Nodes,
         NEW errors \in SUBSET ErrorKind, NEW k \in Nat \ {0}, Placed(p, k), p.start <= to
  PROVE  /\ Consumed(p, to, nodes, errors) \in Frame
         /\ Placed(Consumed(p, to, nodes, errors), k)
         /\ Consumed(p, to, nodes, errors).depth = p.depth - 1
         /\ Carries(Consumed(p, to, nodes, errors), p)
<1> DEFINE q == Consumed(p, to, nodes, errors)
<1>1. p.depth = k /\ p.depth - 1 \in 0..MaxDepth
  <2>1. p.depth = k /\ p.depth \in 0..MaxDepth BY DEF Placed, Frame
  <2> QED BY <2>1, RuleEngineAssumption
<1>2. p.nodes \o nodes \in Nodes /\ p.errors \cup errors \in SUBSET ErrorKind BY DEF Frame, Nodes
<1>3. << >> \in Seq(ErrorKind) OBVIOUS
<1>4. q \in Frame
  <2> DEFINE d == p.depth - 1
             n == p.nodes \o nodes
             e == p.errors \cup errors
             t == << >>
  <2>1. q = [p EXCEPT !.pos = to, !.depth = d, !.nodes = n, !.errors = e,
                      !.phase = "body", !.tried = t]
    BY DEF Consumed
  <2>2. d \in 0..MaxDepth /\ n \in Nodes /\ e \in SUBSET ErrorKind /\ t \in Seq(ErrorKind)
    BY <1>1, <1>2, <1>3
  <2> HIDE DEF d, n, e, t, q
  <2> QED BY <2>1, <2>2 DEF Frame
<1>5. q.depth = p.depth - 1 /\ q.phase = "body" /\ q.enclosing = p.enclosing
      /\ q.rule = p.rule /\ q.start = p.start /\ q.pos = to
      /\ q.noteCount = p.noteCount
  BY DEF Consumed, Frame
<1>6. Placed(q, k) BY <1>1, <1>5 DEF Placed
<1> QED BY <1>4, <1>5, <1>6 DEF Carries

\* A clone starts one place further, at the depth of its parent.
LEMMA CloneFrame ==
  ASSUME IInv, NEW p \in Frame, p.phase = "rules",
         NEW r \in Rule, NEW k \in Nat \ {0}, Placed(p, k),
         p.noteCount <= Len(notes)
  PROVE  /\ Clone(p, r) \in Frame
         /\ Placed(Clone(p, r), k + 1)
         /\ Clone(p, r).depth = p.depth
         /\ Clone(p, r).noteCount = Len(notes)
         /\ Follows(p, Clone(p, r))
<1> DEFINE q == Clone(p, r)
<1>1. p.depth = k BY DEF Placed
<1>2. Len(notes) \in Nat /\ peak \in Nat /\ << >> \in Nodes /\ << >> \in Seq(ErrorKind)
  BY DEF IInv, Nodes
<1>3. /\ (IF Shape[r] = "group" THEN "item" ELSE p.accepts) \in Accepts
      /\ (IF Shape[r] = "group" THEN p.depth + 1 ELSE p.acceptsAt) \in Nat
      /\ (IF Shape[r] = "note" THEN "note" ELSE p.zone) \in Zones
  BY DEF Frame, Accepts, Zones
<1>4. q \in Frame
  <2> DEFINE a == IF Shape[r] = "group" THEN "item" ELSE p.accepts
             b == IF Shape[r] = "group" THEN p.depth + 1 ELSE p.acceptsAt
             z == IF Shape[r] = "note" THEN "note" ELSE p.zone
             n == << >>
             c == Len(notes)
             t == << >>
             i == p.pos + 1
  <2>1. q = [p EXCEPT !.rule = r, !.start = p.pos, !.pos = i, !.accepts = a,
                      !.acceptsAt = b, !.zone = z, !.nodes = n, !.errors = {},
                      !.noteCount = c, !.enclosing = peak, !.visited = {},
                      !.phase = "body", !.tried = t]
    BY DEF Clone
  <2>2. /\ a \in Accepts /\ b \in Nat /\ z \in Zones /\ n \in Nodes
        /\ c \in Nat /\ t \in Seq(ErrorKind) /\ peak \in Nat
    BY <1>2, <1>3
  <2>3. i \in Pos /\ p.pos \in Pos BY DEF Frame, Pos
  <2> HIDE DEF a, b, z, n, c, t, i, q
  <2> QED BY <2>1, <2>2, <2>3 DEF Frame
<1>5. q.depth = p.depth /\ q.phase = "body" /\ q.enclosing = peak
      /\ q.start = p.pos /\ q.pos = p.pos + 1 /\ q.noteCount = Len(notes)
  BY DEF Clone, Frame
<1>6. Placed(q, k + 1)
  <2>1. p.pos \in Nat /\ peak <= MaxDepth + 1 BY DEF Frame, Pos, IInv
  <2> QED BY <1>1, <1>5, <2>1 DEF Placed
<1> QED BY <1>4, <1>5, <1>6 DEF Follows

--------------------
(* The stack *)

\* The innermost parser.
LEMMA TopFrame ==
  ASSUME IInv
  PROVE  /\ Top \in Frame /\ Placed(Top, Len(frames))
         /\ Len(frames) \in Nat \ {0}
         /\ Top = frames[Len(frames)]
         /\ Len(frames) = 1 => Top.rule = Page
<1>1. frames \in Seq(Frame) /\ Len(frames) > 0 BY DEF IInv, Stack
<1>2. Len(frames) \in Nat /\ Len(frames) \in 1..Len(frames) BY <1>1
<1>3. Top = frames[Len(frames)] BY DEF Top, Last
<1>4. Top \in Frame BY <1>1, <1>2, <1>3
<1>5. Placed(Top, Len(frames)) BY <1>2, <1>3 DEF IInv, Stack
<1> QED BY <1>1, <1>2, <1>3, <1>4, <1>5 DEF Placed

\* The parent of the innermost parser is inside consume.
LEMMA ParentFrame ==
  ASSUME IInv, Len(frames) > 1
  PROVE  LET p == frames[Len(frames) - 1]
         IN  /\ p \in Frame /\ Placed(p, Len(frames) - 1) /\ Follows(p, Top)
             /\ p.depth = Len(frames) - 1 /\ p.depth <= peak
             /\ Len(frames) - 1 \in Nat \ {0}
<1> DEFINE p == frames[Len(frames) - 1]
<1>1. /\ frames \in Seq(Frame) /\ Len(frames) \in Nat
      /\ \A k \in 1..Len(frames) : Placed(frames[k], k)
      /\ \A k \in 1..(Len(frames) - 1) : Follows(frames[k], frames[k + 1])
  BY DEF IInv, Stack
<1>2. Len(frames) - 1 \in Nat \ {0}
  <2>1. \A n \in Nat : n > 1 => n - 1 \in Nat \ {0} OBVIOUS
  <2> QED BY <1>1, <2>1
<1>3. /\ Len(frames) - 1 \in 1..Len(frames) /\ Len(frames) - 1 \in 1..(Len(frames) - 1)
      /\ (Len(frames) - 1) + 1 = Len(frames)
  BY <1>1, <1>2
<1>4. p \in Frame /\ Placed(p, Len(frames) - 1) /\ Follows(p, Top) BY <1>1, <1>3, TopFrame
<1>5. p.depth = Len(frames) - 1 BY <1>4 DEF Placed, Follows
<1>6. Len(frames) - 1 <= peak
  <2>1. Top.depth = Len(frames) \/ Top.depth = Len(frames) - 1 BY TopFrame DEF Placed
  <2>2. Top.depth <= peak /\ peak \in Nat BY DEF IInv
  <2> QED BY <1>1, <2>1, <2>2
<1>7. p.depth <= peak BY <1>5, <1>6
<1> QED BY <1>2, <1>4, <1>5, <1>7

LEMMA ReplacedStack ==
  ASSUME IInv, NEW p \in Frame, Placed(p, Len(frames)), Carries(p, Top)
  PROVE  Stack(Replaced(p)) /\ Last(Replaced(p)) = p
<1>1. /\ frames \in Seq(Frame) /\ Len(frames) \in Nat /\ Len(frames) > 0
      /\ \A k \in 1..Len(frames) : Placed(frames[k], k)
      /\ \A k \in 1..(Len(frames) - 1) : Follows(frames[k], frames[k + 1])
      /\ Top = frames[Len(frames)]
  BY TopFrame DEF IInv, Stack
<1>2. Replaced(p) \in Seq(Frame) /\ Len(Replaced(p)) = Len(frames) BY <1>1 DEF Replaced
<1>3. \A k \in 1..Len(frames) :
         Replaced(p)[k] = IF k = Len(frames) THEN p ELSE frames[k]
  BY <1>1 DEF Replaced
<1>4. Last(Replaced(p)) = p BY <1>1, <1>2, <1>3 DEF Last
<1>5. \A k \in 1..Len(frames) : Placed(Replaced(p)[k], k) BY <1>1, <1>3
<1>6. ASSUME NEW k \in 1..(Len(frames) - 1) PROVE Follows(Replaced(p)[k], Replaced(p)[k + 1])
  <2>1. k # Len(frames) /\ k \in 1..Len(frames) /\ k + 1 \in 1..Len(frames) BY <1>1
  <2>2. Replaced(p)[k] = frames[k] /\ Follows(frames[k], frames[k + 1]) BY <1>1, <1>3, <2>1
  <2>3. CASE k + 1 = Len(frames) BY <1>1, <1>3, <2>1, <2>2, <2>3 DEF Follows, Carries
  <2>4. CASE k + 1 # Len(frames) BY <1>3, <2>1, <2>2, <2>4
  <2> QED BY <2>3, <2>4
<1> QED BY <1>1, <1>2, <1>4, <1>5, <1>6 DEF Stack

LEMMA ReturnedStack ==
  ASSUME IInv, Len(frames) > 1, NEW p \in Frame, Placed(p, Len(frames) - 1),
         Carries(p, frames[Len(frames) - 1])
  PROVE  Stack(Returned(p)) /\ Last(Returned(p)) = p
<1>1. /\ frames \in Seq(Frame) /\ Len(frames) \in Nat /\ Len(frames) - 2 \in Nat
      /\ \A k \in 1..Len(frames) : Placed(frames[k], k)
      /\ \A k \in 1..(Len(frames) - 1) : Follows(frames[k], frames[k + 1])
  BY DEF IInv, Stack
<1> DEFINE s == SubSeq(frames, 1, Len(frames) - 2)
<1>2. s \in Seq(Frame) BY <1>1
<1>3. Len(s) = Len(frames) - 2
  <2>1. \A n \in Nat : n <= Len(frames) => Len(SubSeq(frames, 1, n)) = n BY <1>1
  <2>2. Len(frames) - 2 <= Len(frames) BY <1>1
  <2> QED BY <1>1, <2>1, <2>2
<1>4. \A k \in 1..(Len(frames) - 2) : s[k] = frames[k] BY <1>1
<1>5. Returned(p) = Append(s, p) BY DEF Returned
<1> HIDE DEF s
<1>6. Returned(p) \in Seq(Frame) /\ Len(Returned(p)) = Len(frames) - 1 BY <1>1, <1>2, <1>3, <1>5
<1>7. \A k \in 1..(Len(frames) - 1) :
         Returned(p)[k] = IF k = Len(frames) - 1 THEN p ELSE frames[k]
  BY <1>1, <1>2, <1>3, <1>4, <1>5
<1>8. Last(Returned(p)) = p BY <1>1, <1>6, <1>7 DEF Last
<1>9. \A k \in 1..(Len(frames) - 1) : Placed(Returned(p)[k], k) BY <1>1, <1>7
<1>10. ASSUME NEW k \in 1..((Len(frames) - 1) - 1) PROVE Follows(Returned(p)[k], Returned(p)[k + 1])
  <2>1. /\ k # Len(frames) - 1 /\ k \in 1..(Len(frames) - 1)
        /\ k + 1 \in 1..(Len(frames) - 1)
    BY <1>1
  <2>2. Returned(p)[k] = frames[k] /\ Follows(frames[k], frames[k + 1]) BY <1>1, <1>7, <2>1
  <2>3. CASE k + 1 = Len(frames) - 1 BY <1>1, <1>7, <2>1, <2>2, <2>3 DEF Follows, Carries
  <2>4. CASE k + 1 # Len(frames) - 1 BY <1>7, <2>1, <2>2, <2>4
  <2> QED BY <2>3, <2>4
<1> QED BY <1>1, <1>6, <1>8, <1>9, <1>10 DEF Stack

LEMMA ClonedStack ==
  ASSUME IInv, NEW q \in Frame, Placed(q, Len(frames) + 1), Follows(Top, q)
  PROVE  Stack(Append(frames, q)) /\ Last(Append(frames, q)) = q
<1> DEFINE fs == Append(frames, q)
<1>1. /\ frames \in Seq(Frame) /\ Len(frames) \in Nat /\ Len(frames) > 0
      /\ \A k \in 1..Len(frames) : Placed(frames[k], k)
      /\ \A k \in 1..(Len(frames) - 1) : Follows(frames[k], frames[k + 1])
      /\ Top = frames[Len(frames)]
  BY TopFrame DEF IInv, Stack
<1>2. fs \in Seq(Frame) /\ Len(fs) = Len(frames) + 1 BY <1>1
<1>3. \A k \in 1..(Len(frames) + 1) :
         fs[k] = IF k = Len(frames) + 1 THEN q ELSE frames[k]
  BY <1>1
<1> HIDE DEF fs
<1>4. Last(fs) = q BY <1>1, <1>2, <1>3 DEF Last
<1>5. \A k \in 1..(Len(frames) + 1) : Placed(fs[k], k) BY <1>1, <1>3
<1>6. ASSUME NEW k \in 1..((Len(frames) + 1) - 1) PROVE Follows(fs[k], fs[k + 1])
  <2>1. /\ k # Len(frames) + 1 /\ k \in 1..(Len(frames) + 1)
        /\ k + 1 \in 1..(Len(frames) + 1) /\ k \in 1..Len(frames)
    BY <1>1
  <2>2. fs[k] = frames[k] BY <1>3, <2>1
  <2>3. CASE k = Len(frames) BY <1>1, <1>3, <2>1, <2>2, <2>3
  <2>4. CASE k # Len(frames)
    <3>1. k \in 1..(Len(frames) - 1) /\ k + 1 # Len(frames) + 1 BY <1>1, <2>1, <2>4
    <3> QED BY <1>1, <1>3, <2>1, <2>2, <3>1
  <2> QED BY <2>3, <2>4
<1>7. Stack(fs) BY <1>1, <1>2, <1>5, <1>6 DEF Stack
<1> QED BY <1>4, <1>7 DEF fs

--------------------
(* The memos *)

LEMMA KeyType ==
  ASSUME NEW r \in Rule, NEW p \in Frame, NEW pos \in Pos
  PROVE  Key(r, p, pos) \in MemoKey /\ Key(r, p, pos).depth = {}
<1>1. p.accepts \in Accepts /\ p.zone \in Zones /\ p.acceptsAt \in Nat /\ p.depth \in 0..MaxDepth
  BY DEF Frame
<1>2. (IF p.acceptsAt = 0 THEN {} ELSE {p.acceptsAt - p.depth}) \in SUBSET Int BY <1>1
<1> QED BY <1>1, <1>2 DEF Key, MemoKey

\* What an attempt that reached `top' is stored under never claims more.
LEMMA StoredType ==
  ASSUME NEW key \in MemoKey, key.depth = {}, NEW depth \in 0..MaxDepth,
         NEW height \in Nat, depth + height <= MaxDepth + 1
  PROVE  /\ Stored(key, depth, height) \in MemoKey
         /\ \A d \in Stored(key, depth, height).depth : d + height <= MaxDepth + 1
<1>1. CASE depth + height > MaxDepth
  <2>1. Stored(key, depth, height) = [key EXCEPT !.depth = {depth}] BY <1>1 DEF Stored, Pinned
  <2>2. [key EXCEPT !.depth = {depth}] \in MemoKey
        /\ [key EXCEPT !.depth = {depth}].depth = {depth}
    BY DEF MemoKey
  <2> QED BY <2>1, <2>2
<1>2. CASE ~(depth + height > MaxDepth) BY <1>2 DEF Stored
<1> QED BY <1>1, <1>2

LEMMA WithMemo ==
  ASSUME NEW memo, NEW entries, NEW keys, NEW entry \in entries,
         Memo(memo, entries), Fits(memo), keys \subseteq MemoKey,
         \A key \in keys : \A d \in key.depth : d + entry.height <= MaxDepth + 1
  PROVE  Memo(With(memo, keys, entry), entries) /\ Fits(With(memo, keys, entry))
<1> DEFINE new == With(memo, keys, entry)
<1>1. DOMAIN new = keys \cup DOMAIN memo BY DEF With
<1>2. \A key \in DOMAIN new : new[key] = IF key \in keys THEN entry ELSE memo[key] BY DEF With
<1> HIDE DEF new
<1>3. Memo(new, entries) BY <1>1, <1>2 DEF Memo
<1>4. Fits(new) BY <1>1, <1>2 DEF Fits
<1> QED BY <1>3, <1>4 DEF new

\* An outcome remembered for rule r at p's position.
LEMMA RememberMemo ==
  ASSUME NEW memo, NEW entries, NEW r \in Rule, NEW p \in Frame,
         NEW entry \in entries, Memo(memo, entries), Fits(memo),
         entry.height \in Nat, p.depth + entry.height <= MaxDepth + 1
  PROVE  /\ Memo(Remember(memo, Key(r, p, p.pos), p.depth, entry), entries)
         /\ Fits(Remember(memo, Key(r, p, p.pos), p.depth, entry))
<1>1. p.pos \in Pos /\ p.depth \in 0..MaxDepth BY DEF Frame
<1>2. Key(r, p, p.pos) \in MemoKey /\ Key(r, p, p.pos).depth = {} BY <1>1, KeyType
<1>3. /\ Stored(Key(r, p, p.pos), p.depth, entry.height) \in MemoKey
      /\ \A d \in Stored(Key(r, p, p.pos), p.depth, entry.height).depth :
            d + entry.height <= MaxDepth + 1
  BY <1>1, <1>2, StoredType
<1> QED BY <1>3, WithMemo DEF Remember

\* What ends a body walk here, and the key of the walk.
LEMMA BodyEndsType ==
  ASSUME IInv PROVE BodyEnds \in [inner : Rule, outer : [BlockRule -> Nat]]
<1> DEFINE K(r) == {k \in 1..(Len(frames) - 1) : frames[k].rule = r}
<1>1. Len(frames) - 1 \in Int /\ Top.rule \in Rule BY TopFrame DEF Frame
<1>2. IsFiniteSet(1..(Len(frames) - 1)) BY <1>1, FS_Interval
<1>3. ASSUME NEW r \in BlockRule PROVE Cardinality(K(r)) \in Nat
  <2>1. K(r) \subseteq 1..(Len(frames) - 1) OBVIOUS
  <2> HIDE DEF K
  <2> QED BY <1>2, <2>1, FS_Subset, FS_CardinalityType
<1>4. BodyEnds = [inner |-> Top.rule, outer |-> [r \in BlockRule |-> Cardinality(K(r))]]
  BY DEF BodyEnds
<1> HIDE DEF K
<1> QED BY <1>1, <1>3, <1>4

LEMMA WalkKeyType ==
  ASSUME IInv, NEW pos \in Pos PROVE WalkKey(Top, pos) \in MemoKey /\ WalkKey(Top, pos).depth = {}
<1> DEFINE k == Key(Top.rule, Top, pos)
           e == {BodyEnds}
<1>1. k \in MemoKey /\ k.depth = {}
  <2>1. Top \in Frame /\ Top.rule \in Rule BY TopFrame DEF Frame
  <2> QED BY <2>1, KeyType
<1>2. e \in SUBSET [inner : Rule, outer : [BlockRule -> Nat]] BY BodyEndsType
<1>3. WalkKey(Top, pos) = [k EXCEPT !.ends = e] BY DEF WalkKey
<1> HIDE DEF k, e
<1> QED BY <1>1, <1>2, <1>3 DEF MemoKey

LEMMA RememberWalkMemo ==
  ASSUME IInv, NEW top \in Nat, peak <= top, top <= MaxDepth + 1
  PROVE  /\ Memo(RememberWalk(Top, top), WalkEntries)
         /\ Fits(RememberWalk(Top, top))
<1> DEFINE h == top - Top.depth
           e == [height |-> h]
           keys == {Stored(WalkKey(Top, pos), Top.depth, h) : pos \in Top.visited}
<1>1. Top \in Frame /\ Top.depth \in 0..MaxDepth /\ Top.rule \in Rule
      /\ Top.visited \subseteq Pos
  BY TopFrame DEF Frame
<1>2. Top.depth <= peak /\ peak \in Nat /\ MaxDepth \in Nat BY RuleEngineAssumption DEF IInv
<1>3. h \in Nat /\ Top.depth + h <= MaxDepth + 1 BY <1>1, <1>2
<1>4. \A pos \in Top.visited :
         /\ Stored(WalkKey(Top, pos), Top.depth, h) \in MemoKey
         /\ \A d \in Stored(WalkKey(Top, pos), Top.depth, h).depth :
               d + h <= MaxDepth + 1
  <2> TAKE pos \in Top.visited
  <2>1. WalkKey(Top, pos) \in MemoKey /\ WalkKey(Top, pos).depth = {} BY <1>1, WalkKeyType
  <2> HIDE DEF h
  <2> QED BY <1>1, <1>3, <2>1, StoredType
<1>5. e \in WalkEntries /\ e.height = h BY <1>3 DEF WalkEntries
<1>6. keys \subseteq MemoKey /\ \A key \in keys : \A d \in key.depth : d + h <= MaxDepth + 1 BY <1>4
<1>7. Memo(walks, WalkEntries) /\ Fits(walks) BY DEF IInv, MemosOK
<1>8. RememberWalk(Top, top) = With(walks, keys, e) BY DEF RememberWalk
<1> HIDE DEF h, e, keys
<1> QED BY <1>5, <1>6, <1>7, <1>8, WithMemo

\* An entry used at a depth fits there.
LEMMA UsableFits ==
  ASSUME NEW memo, NEW entries, Memo(memo, entries), Fits(memo),
         NEW k \in MemoKey, NEW depth \in 0..MaxDepth,
         NEW key \in Usable(memo, k, depth), memo[key].height \in Nat
  PROVE  key \in DOMAIN memo /\ depth + memo[key].height <= MaxDepth + 1
<1>1. CASE k \in DOMAIN memo /\ depth + memo[k].height <= MaxDepth
  BY <1>1, RuleEngineAssumption DEF Usable
<1>2. CASE ~(k \in DOMAIN memo /\ depth + memo[k].height <= MaxDepth)
  <2>1. key \in DOMAIN memo /\ key = Pinned(k, depth) BY <1>2 DEF Usable
  <2>2. key.depth = {depth} BY <2>1 DEF Pinned, MemoKey
  <2> QED BY <2>1, <2>2 DEF Fits
<1> QED BY <1>1, <1>2

--------------------
(* The steps *)

LEMMA Assembled ==
  ASSUME IInv, input' = input, NEW fs, Stack(fs), frames' = fs,
         notes' \in Seq(Note), Last(fs).noteCount <= Len(notes'),
         peak' \in Nat, Last(fs).depth <= peak', peak' <= MaxDepth + 1,
         MemosOK', page' \in {"parsing", "ok", "error"}
  PROVE  IInv'
<1>1. Stack(frames)' BY DEF Stack, Placed, Follows
<1>2. Top' = Last(fs) BY DEF Top
<1>3. input' \in Seq(Token) BY DEF IInv
<1> QED BY <1>1, <1>2, <1>3 DEF IInv

\* A registry cut back to an attempt's snapshot.
LEMMA CutNotes ==
  ASSUME IInv
  PROVE  LET cut == SubSeq(notes, 1, Top.noteCount)
         IN  cut \in Seq(Note) /\ Len(cut) = Top.noteCount
<1>1. notes \in Seq(Note) /\ Top.noteCount <= Len(notes) BY DEF IInv
<1>2. Top.noteCount \in Nat BY TopFrame DEF Frame
<1>3. \A n \in Nat : n <= Len(notes) => SubSeq(notes, 1, n) \in Seq(Note)
                                         /\ Len(SubSeq(notes, 1, n)) = n
  BY <1>1
<1> QED BY <1>1, <1>2, <1>3

LEMMA LargerType ==
  ASSUME NEW a \in Nat, NEW b \in Nat
  PROVE  Larger(a, b) \in {a, b} /\ Larger(a, b) \in Nat
         /\ Larger(a, b) >= a /\ Larger(a, b) >= b
  BY DEF Larger

\* The innermost attempt fails: f is the innermost parser, possibly moved on.
LEMMA FailKeeps ==
  ASSUME IInv, input' = input, NEW f, NEW error \in ErrorKind, NEW top \in Nat,
         f.rule = Top.rule, f.start = Top.start, f.noteCount = Top.noteCount,
         f.enclosing = Top.enclosing,
         peak <= top, top <= MaxDepth + 1,
         Fail(f, error, top), (Memo(walks, WalkEntries) /\ Fits(walks))'
  PROVE  IInv'
<1> DEFINE p == frames[Len(frames) - 1]
           h == top - p.depth
           e == [height |-> h, error |-> error]
           q == Failed(p, error)
<1>1. Len(frames) > 1 BY DEF Fail
<1>2. /\ p \in Frame /\ Placed(p, Len(frames) - 1) /\ Follows(p, Top)
      /\ p.depth = Len(frames) - 1 /\ p.depth <= peak /\ Len(frames) - 1 \in Nat \ {0}
  BY <1>1, ParentFrame
<1>3. Top.rule \in Rule /\ Top.start \in Pos /\ Top.noteCount \in Nat /\ Top.enclosing \in Nat
      /\ Top.enclosing <= MaxDepth + 1
  BY TopFrame DEF Frame, Placed
<1>4. peak \in Nat /\ MaxDepth \in Nat BY RuleEngineAssumption DEF IInv
<1>5. h \in Nat /\ p.depth + h <= MaxDepth + 1 BY <1>2, <1>4
<1>6. e \in FailureEntries /\ e.height = h BY <1>5 DEF FailureEntries
<1>7. (Memo(failures, FailureEntries) /\ Fits(failures))'
  <2>1. Memo(failures, FailureEntries) /\ Fits(failures) BY DEF IInv, MemosOK
  <2>2. failures' = Remember(failures, Key(f.rule, p, p.pos), p.depth, e)
        \/ failures' = failures
    BY DEF Fail
  <2> DEFINE m == Remember(failures, Key(f.rule, p, p.pos), p.depth, e)
  <2>3. Memo(m, FailureEntries) /\ Fits(m) BY <1>2, <1>3, <1>5, <1>6, <2>1, RememberMemo
  <2> HIDE DEF m
  <2> QED BY <2>1, <2>2, <2>3 DEF m, Memo, Fits, MemoKey, FailureEntries
<1>8. (Memo(successes, SuccessEntries) /\ Fits(successes))'
  <2>1. Memo(successes, SuccessEntries) /\ Fits(successes) /\ successes' = successes
    BY DEF IInv, MemosOK, Fail
  <2> QED BY <2>1 DEF Memo, Fits, MemoKey, SuccessEntries
<1>9. MemosOK'
  <2>1. blockFailures' = BlockFailures(f, error, p.depth) BY DEF Fail
  <2>2. p.depth \in 0..MaxDepth /\ blockFailures \subseteq BlockRule \X Pos \X SUBSET (0..MaxDepth)
    BY <1>2 DEF Frame, IInv, MemosOK
  <2>3. {} \in SUBSET (0..MaxDepth) /\ {p.depth} \in SUBSET (0..MaxDepth) BY <2>2
  <2> HIDE DEF p
  <2>4. BlockFailures(f, error, p.depth) \subseteq BlockRule \X Pos \X SUBSET (0..MaxDepth)
    BY <1>3, <2>2, <2>3 DEF BlockFailures
  <2> QED BY <1>7, <1>8, <2>1, <2>4 DEF MemosOK
<1>10. q \in Frame /\ Placed(q, Len(frames) - 1) /\ Carries(q, p) /\ q.depth = p.depth
  BY <1>2, FailedFrame
<1>11. Stack(Returned(q)) /\ Last(Returned(q)) = q BY <1>1, <1>10, ReturnedStack
<1>12. frames' = Returned(q) /\ notes' = SubSeq(notes, 1, Top.noteCount)
       /\ peak' = Larger(top, Top.enclosing) /\ page' = page
  BY DEF Fail, Restored
<1>13. notes' \in Seq(Note) /\ Len(notes') = Top.noteCount BY <1>12, CutNotes
<1>14. q.noteCount <= Len(notes')
  <2>1. q.noteCount = p.noteCount /\ p.noteCount <= Top.noteCount
    BY <1>2, <1>10 DEF Carries, Follows
  <2> QED BY <1>13, <2>1
<1>15. peak' \in Nat /\ peak' <= MaxDepth + 1 /\ q.depth <= peak'
  <2>1. peak' \in {top, Top.enclosing} /\ peak' \in Nat /\ peak' >= top BY <1>3, <1>12, LargerType
  <2>2. peak' <= MaxDepth + 1 BY <1>3, <2>1
  <2>3. q.depth \in Nat /\ q.depth <= peak BY <1>2, <1>10
  <2> QED BY <1>4, <2>1, <2>2, <2>3
<1>16. page' \in {"parsing", "ok", "error"} BY <1>12 DEF IInv
<1> HIDE DEF p, q, e, h
<1> QED BY <1>9, <1>11, <1>12, <1>13, <1>14, <1>15, <1>16, Assembled

LEMMA SameMemos ==
  ASSUME IInv, failures' = failures, successes' = successes, walks' = walks,
         blockFailures' = blockFailures
  PROVE  MemosOK' /\ (Memo(walks, WalkEntries) /\ Fits(walks))'
  BY DEF IInv, MemosOK, Memo, Fits, MemoKey, FailureEntries, SuccessEntries, WalkEntries

LEMMA WalkMemo ==
  ASSUME IInv, NEW top \in Nat, peak <= top, top <= MaxDepth + 1,
         walks' = RememberWalk(Top, top)
  PROVE  (Memo(walks, WalkEntries) /\ Fits(walks))'
<1> DEFINE m == RememberWalk(Top, top)
<1>1. Memo(m, WalkEntries) /\ Fits(m) BY RememberWalkMemo
<1> HIDE DEF m
<1>2. walks' = m BY DEF m
<1> QED BY <1>1, <1>2 DEF Memo, Fits, MemoKey, WalkEntries

\* The failing steps.
LEMMA FailingKeeps ==
  ASSUME IInv,
         RefuseNested \/ MeetBreak \/ MeetNoteEnd \/ MeetEnd \/ KnownWalk \/ TooDeep
         \/ FallbackTooDeep \/ RunOffEnd
  PROVE  IInv'
<1>1. peak \in Nat /\ peak <= MaxDepth + 1 /\ MaxDepth \in Nat
      /\ {"failed", "end", "depth"} \subseteq ErrorKind
  BY RuleEngineAssumption DEF IInv, ErrorKind
<1>2. Top \in Frame BY TopFrame
<1>3. \A i : /\ [Top EXCEPT !.pos = i].rule = Top.rule
             /\ [Top EXCEPT !.pos = i].start = Top.start
             /\ [Top EXCEPT !.pos = i].noteCount = Top.noteCount
             /\ [Top EXCEPT !.pos = i].enclosing = Top.enclosing
  BY <1>2 DEF Frame
<1>4. CASE RefuseNested \/ MeetBreak \/ MeetNoteEnd
  <2>1. Fail(Top, "failed", peak) /\ input' = input /\ walks' = walks
    BY <1>4 DEF RefuseNested, MeetBreak, MeetNoteEnd
  <2>2. (Memo(walks, WalkEntries) /\ Fits(walks))'
    BY <2>1 DEF IInv, MemosOK, Memo, Fits, MemoKey, WalkEntries
  <2> QED BY <1>1, <2>1, <2>2, FailKeeps
<1>5. CASE MeetEnd
  <2>1. input' = input /\ Fail(Top, "end", peak) /\ walks' = RememberWalk(Top, peak)
    BY <1>5 DEF MeetEnd
  <2>2. (Memo(walks, WalkEntries) /\ Fits(walks))' BY <1>1, <2>1, WalkMemo
  <2> QED BY <1>1, <2>1, <2>2, FailKeeps
<1>6. CASE KnownWalk
  <2>1. PICK key \in WalkEntry :
           LET top == Larger(peak, Top.depth + walks[key].height)
           IN  /\ walks' = RememberWalk(Top, top)
               /\ Fail([Top EXCEPT !.pos = Len(input) + 1], "end", top)
    BY <1>6 DEF KnownWalk
  <2> DEFINE top == Larger(peak, Top.depth + walks[key].height)
             f == [Top EXCEPT !.pos = Len(input) + 1]
  <2>2. Memo(walks, WalkEntries) /\ Fits(walks) BY DEF IInv, MemosOK
  <2>3. key \in DOMAIN walks BY DEF WalkEntry, Usable
  <2>4. walks[key].height \in Nat BY <2>2, <2>3 DEF Memo, WalkEntries
  <2>5. Top.depth \in 0..MaxDepth /\ Top.rule \in Rule /\ Top.pos \in Pos BY <1>2 DEF Frame
  <2>6. WalkKey(Top, Top.pos) \in MemoKey BY <2>5, WalkKeyType
  <2>7. Top.depth + walks[key].height <= MaxDepth + 1
    BY <2>2, <2>4, <2>5, <2>6, UsableFits DEF WalkEntry
  <2>8. top \in Nat /\ peak <= top /\ top <= MaxDepth + 1
    <3>1. Top.depth + walks[key].height \in Nat BY <2>4, <2>5
    <3>2. top \in {peak, Top.depth + walks[key].height} /\ top \in Nat /\ peak <= top
      BY <1>1, <3>1, LargerType
    <3> QED BY <1>1, <2>7, <3>2
  <2> HIDE DEF top
  <2>9. walks' = RememberWalk(Top, top) /\ Fail(f, "end", top) /\ input' = input
    BY <1>6, <2>1 DEF top, KnownWalk
  <2>10. (Memo(walks, WalkEntries) /\ Fits(walks))' BY <2>8, <2>9, WalkMemo
  <2>11. f.rule = Top.rule /\ f.start = Top.start
       /\ f.noteCount = Top.noteCount /\ f.enclosing = Top.enclosing
    BY <1>3
  <2> HIDE DEF f
  <2> QED BY <1>1, <2>8, <2>9, <2>10, <2>11, FailKeeps
<1>7. CASE TooDeep
  <2> DEFINE top == Larger(peak, MaxDepth + 1)
  <2>1. top \in Nat /\ peak <= top /\ top <= MaxDepth + 1
    <3>1. MaxDepth + 1 \in Nat BY <1>1
    <3>2. top \in {peak, MaxDepth + 1} /\ top \in Nat /\ peak <= top BY <1>1, <3>1, LargerType
    <3> QED BY <1>1, <3>2
  <2>2. Fail(Top, "depth", top) /\ input' = input /\ walks' = walks BY <1>7 DEF TooDeep
  <2>3. (Memo(walks, WalkEntries) /\ Fits(walks))'
    BY <2>2 DEF IInv, MemosOK, Memo, Fits, MemoKey, WalkEntries
  <2> HIDE DEF top
  <2> QED BY <1>1, <2>1, <2>2, <2>3, FailKeeps
<1>8. CASE FallbackTooDeep
  <2> DEFINE f == [Top EXCEPT !.pos = @ + 1]
  <2>1. Fail(f, "depth", peak) /\ input' = input /\ walks' = walks BY <1>8 DEF FallbackTooDeep
  <2>2. (Memo(walks, WalkEntries) /\ Fits(walks))'
    BY <2>1 DEF IInv, MemosOK, Memo, Fits, MemoKey, WalkEntries
  <2>3. f.rule = Top.rule /\ f.start = Top.start
       /\ f.noteCount = Top.noteCount /\ f.enclosing = Top.enclosing
    BY <1>3
  <2> HIDE DEF f
  <2> QED BY <1>1, <2>1, <2>2, <2>3, FailKeeps
<1>9. CASE RunOffEnd
  <2>1. Fail(Top, "end", peak) /\ input' = input /\ walks' = walks BY <1>9 DEF RunOffEnd
  <2>2. (Memo(walks, WalkEntries) /\ Fits(walks))'
    BY <2>1 DEF IInv, MemosOK, Memo, Fits, MemoKey, WalkEntries
  <2> QED BY <1>1, <2>1, <2>2, FailKeeps
<1> QED BY <1>4, <1>5, <1>6, <1>7, <1>8, <1>9

\* The innermost parser goes on as p, and nothing else changes but the peak.
LEMMA MovesOn ==
  ASSUME IInv, input' = input, notes' = notes, page' = page,
         failures' = failures, successes' = successes, walks' = walks,
         blockFailures' = blockFailures,
         NEW p \in Frame, Placed(p, Len(frames)), Carries(p, Top),
         frames' = Replaced(p),
         peak' \in Nat, p.depth <= peak', peak' <= MaxDepth + 1
  PROVE  IInv'
<1>1. Stack(Replaced(p)) /\ Last(Replaced(p)) = p BY ReplacedStack
<1>2. MemosOK' BY SameMemos
<1>3. notes' \in Seq(Note) /\ p.noteCount <= Len(notes') /\ page' \in {"parsing", "ok", "error"}
  BY DEF IInv, Carries
<1> QED BY <1>1, <1>2, <1>3, Assembled

LEMMA PageKeeps ==
  ASSUME IInv, FinishPage \/ PageTooDeep PROVE IInv'
<1>1. /\ input' = input /\ frames' = frames /\ notes' = notes /\ peak' = peak
      /\ failures' = failures /\ successes' = successes /\ walks' = walks
      /\ blockFailures' = blockFailures
      /\ page' \in {"ok", "error"}
  BY DEF FinishPage, PageTooDeep, FailPage, memos
<1>2. MemosOK' BY <1>1, SameMemos
<1>3. Stack(frames) /\ Last(frames) = Top BY DEF IInv, Top
<1>4. /\ notes' \in Seq(Note) /\ Top.noteCount <= Len(notes')
      /\ peak' \in Nat /\ Top.depth <= peak' /\ peak' <= MaxDepth + 1
  BY <1>1 DEF IInv
<1> QED BY <1>1, <1>2, <1>3, <1>4, Assembled

LEMMA StepBreakKeeps ==
  ASSUME IInv, StepBreak PROVE IInv'
<1> DEFINE q == [Top EXCEPT !.pos = @ + 1]
<1>1. Top \in Frame /\ Placed(Top, Len(frames)) /\ Top.phase = "body"
  BY TopFrame DEF StepBreak, BodyGoesOn
<1>2. Top.pos + 1 \in Pos /\ Top.start <= Top.pos + 1 BY <1>1 DEF Frame, Pos, Placed
<1>3. q \in Frame /\ Carries(q, Top) /\ q.depth = Top.depth BY <1>1, <1>2 DEF Frame, Carries
<1>4. Placed(q, Len(frames)) BY <1>1, <1>2 DEF Frame, Placed
<1>5. /\ input' = input /\ frames' = Replaced(q) /\ notes' = notes /\ peak' = peak
      /\ failures' = failures /\ successes' = successes /\ walks' = walks
      /\ blockFailures' = blockFailures
      /\ page' = page
  BY DEF StepBreak, memos
<1>6. peak' \in Nat /\ q.depth <= peak' /\ peak' <= MaxDepth + 1 BY <1>3, <1>5 DEF IInv
<1> HIDE DEF q
<1> QED BY <1>3, <1>4, <1>5, <1>6, MovesOn

LEMMA ConsumeKeeps ==
  ASSUME IInv, Consume PROVE IInv'
<1> DEFINE v == IF AsksWalk THEN Top.visited \cup {Top.pos} ELSE Top.visited
           d == Top.depth + 1
           q == [Top EXCEPT !.depth = d, !.phase = "rules", !.visited = v]
<1>1. Top \in Frame /\ Placed(Top, Len(frames)) /\ Top.phase = "body"
      /\ Len(frames) \in Nat
  BY TopFrame DEF Consume, Enters, AtToken, BodyGoesOn
<1>2. Top.depth \in 0..MaxDepth /\ Top.depth < MaxDepth /\ MaxDepth \in Nat
  BY <1>1, RuleEngineAssumption DEF Frame, Consume
<1>3. v \in SUBSET Pos /\ d \in 0..MaxDepth BY <1>1, <1>2 DEF Frame
<1>5. /\ frames' = Replaced(q) /\ input' = input /\ notes' = notes /\ page' = page
      /\ failures' = failures /\ successes' = successes /\ walks' = walks
      /\ blockFailures' = blockFailures
      /\ peak' = Larger(peak, d)
  BY DEF Consume, memos
<1>6. q \in Frame /\ Carries(q, Top) /\ q.depth = d BY <1>1, <1>3 DEF Frame, Carries
<1>7. Placed(q, Len(frames)) BY <1>1, <1>2 DEF Frame, Placed
<1>8. peak' \in Nat /\ q.depth <= peak' /\ peak' <= MaxDepth + 1
  <2>1. peak \in Nat /\ peak <= MaxDepth + 1 /\ d \in Nat /\ d <= MaxDepth + 1
    BY <1>2, <1>3 DEF IInv
  <2>2. peak' \in {peak, d} /\ peak' \in Nat /\ peak' >= d BY <1>5, <2>1, LargerType
  <2> HIDE DEF d, q
  <2> QED BY <1>6, <2>1, <2>2
<1> HIDE DEF q
<1> QED BY <1>5, <1>6, <1>7, <1>8, MovesOn

\* The rule a consume turns to next.
LEMMA NextRuleType ==
  ASSUME IInv, Calling, Untried
  PROVE  /\ NextRule \in Rule /\ Top \in Frame /\ Placed(Top, Len(frames))
         /\ Top.phase = "rules" /\ Top.depth \in 0..MaxDepth
         /\ Key(NextRule, Top, Top.pos) \in MemoKey
<1>1. Top \in Frame /\ Placed(Top, Len(frames)) /\ Top.phase = "rules" BY TopFrame DEF Calling
<1>2. Top.pos \in Pos /\ input \in Seq(Token) /\ Len(Top.tried) \in Nat BY <1>1 DEF Frame, IInv
<1>3. Here # "end" BY <1>2 DEF Untried, Rules
<1>4. Rules(Here) \in Seq(Rule)
  <2>1. Top.pos \in 1..Len(input) /\ Here = input[Top.pos] BY <1>2, <1>3 DEF Here, Tok, Pos
  <2>2. Here \in Token BY <1>2, <2>1
  <2> QED BY <1>3, <2>2, RuleEngineAssumption DEF Rules
<1>5. Len(Top.tried) + 1 \in 1..Len(Rules(Here)) BY <1>2, <1>4 DEF Untried
<1>6. NextRule \in Rule BY <1>4, <1>5 DEF NextRule
<1>7. Key(NextRule, Top, Top.pos) \in MemoKey BY <1>1, <1>2, <1>6, KeyType
<1> QED BY <1>1, <1>6, <1>7 DEF Frame

LEMMA RejectedBeforeKeeps ==
  ASSUME IInv, RejectedBefore PROVE IInv'
<1> DEFINE q == Failed(Top, "partial")
<1>1. Top \in Frame /\ Placed(Top, Len(frames)) /\ Len(frames) \in Nat
      /\ "partial" \in ErrorKind
  BY TopFrame DEF ErrorKind
<1>2. q \in Frame /\ Placed(q, Len(frames)) /\ Carries(q, Top) /\ q.depth = Top.depth
  BY <1>1, FailedFrame
<1>3. /\ frames' = Replaced(q) /\ input' = input /\ notes' = notes /\ page' = page
      /\ failures' = failures /\ successes' = successes /\ walks' = walks
      /\ blockFailures' = blockFailures
      /\ peak' = peak
  BY DEF RejectedBefore, memos
<1>4. peak' \in Nat /\ q.depth <= peak' /\ peak' <= MaxDepth + 1 BY <1>2, <1>3 DEF IInv
<1> HIDE DEF q
<1> QED BY <1>2, <1>3, <1>4, MovesOn

\* A block known to fail is spared.
LEMMA BlockBeforeKeeps ==
  ASSUME IInv, BlockEndedBefore \/ BlockTooDeepBefore PROVE IInv'
<1>1. PICK error \in {"end", "depth"} :
         /\ frames' = Replaced(Failed(Top, error))
         /\ peak' = peak \/ peak' = Larger(peak, MaxDepth + 1)
  BY DEF BlockEndedBefore, BlockTooDeepBefore
<1> DEFINE q == Failed(Top, error)
<1>2. Top \in Frame /\ Placed(Top, Len(frames)) /\ Len(frames) \in Nat
      /\ error \in ErrorKind
  BY TopFrame DEF ErrorKind
<1>3. q \in Frame /\ Placed(q, Len(frames)) /\ Carries(q, Top) /\ q.depth = Top.depth
  BY <1>2, FailedFrame
<1>4. /\ frames' = Replaced(q) /\ input' = input /\ notes' = notes /\ page' = page
      /\ failures' = failures /\ successes' = successes /\ walks' = walks
      /\ blockFailures' = blockFailures
  BY <1>1 DEF BlockEndedBefore, BlockTooDeepBefore, memos
<1>5. peak' \in Nat /\ q.depth <= peak' /\ peak' <= MaxDepth + 1
  <2>1. peak \in Nat /\ Top.depth <= peak /\ peak <= MaxDepth + 1 /\ MaxDepth + 1 \in Nat
    BY RuleEngineAssumption DEF IInv
  <2>2. peak' \in {peak, MaxDepth + 1} /\ peak' \in Nat /\ peak' >= peak BY <1>1, <2>1, LargerType
  <2>3. Top.depth \in Nat BY <1>2 DEF Frame
  <2> HIDE DEF q
  <2> QED BY <1>3, <2>1, <2>2, <2>3
<1> HIDE DEF q
<1> QED BY <1>3, <1>4, <1>5, MovesOn

LEMMA FailedBeforeKeeps ==
  ASSUME IInv, FailedBefore PROVE IInv'
<1>1. PICK key \in FailureEntry :
         /\ frames' = Replaced(Failed(Top, failures[key].error))
         /\ peak' = Larger(peak, Top.depth + failures[key].height)
  BY DEF FailedBefore
<1> DEFINE h == failures[key].height
           q == Failed(Top, failures[key].error)
<1>2. Top \in Frame /\ Placed(Top, Len(frames)) /\ Len(frames) \in Nat
      /\ Top.depth \in 0..MaxDepth /\ Key(NextRule, Top, Top.pos) \in MemoKey
  BY NextRuleType, TopFrame DEF FailedBefore
<1>3. Memo(failures, FailureEntries) /\ Fits(failures) BY DEF IInv, MemosOK
<1>4. key \in DOMAIN failures BY DEF FailureEntry, Usable
<1>5. h \in Nat /\ failures[key].error \in ErrorKind BY <1>3, <1>4 DEF Memo, FailureEntries
<1>6. Top.depth + h <= MaxDepth + 1 BY <1>2, <1>3, <1>5, UsableFits DEF FailureEntry
<1>7. q \in Frame /\ Placed(q, Len(frames)) /\ Carries(q, Top) /\ q.depth = Top.depth
  BY <1>2, <1>5, FailedFrame
<1>8. /\ frames' = Replaced(q) /\ input' = input /\ notes' = notes /\ page' = page
      /\ failures' = failures /\ successes' = successes /\ walks' = walks
      /\ blockFailures' = blockFailures
  BY <1>1 DEF FailedBefore, memos
<1>9. peak' \in Nat /\ q.depth <= peak' /\ peak' <= MaxDepth + 1
  <2>1. peak \in Nat /\ peak <= MaxDepth + 1 /\ Top.depth <= peak BY DEF IInv
  <2>2. Top.depth + h \in Nat BY <1>2, <1>5
  <2>3. peak' \in {peak, Top.depth + h} /\ peak' \in Nat /\ peak' >= peak
    BY <1>1, <2>1, <2>2, LargerType
  <2> HIDE DEF q, h
  <2> QED BY <1>2, <1>6, <1>7, <2>1, <2>3
<1> HIDE DEF q
<1> QED BY <1>7, <1>8, <1>9, MovesOn

\* The elements of a finished rule.
LEMMA ResultType ==
  ASSUME NEW f \in Frame
  PROVE  /\ Result(f) \in Nodes
         /\ EndOf(f) \in Pos /\ f.pos <= EndOf(f)
<1>1. f.rule \in Rule /\ f.start \in Pos /\ f.pos \in Pos /\ f.nodes \in Nodes BY DEF Frame
<1>2. \A part \in {"leaf", "note", "open", "close"}, at \in Pos :
         <<Node(part, f.rule, at)>> \in Nodes
  BY <1>1 DEF Node, Nodes
<1>3. \A a, b \in Nodes : a \o b \in Nodes BY DEF Nodes
<1>4. Result(f) \in Nodes
  <2>1. CASE Shape[f.rule] = "leaf" BY <1>1, <1>2, <2>1 DEF Result
  <2>2. CASE Shape[f.rule] = "note" BY <1>1, <1>2, <2>2 DEF Result
  <2>3. CASE Shape[f.rule] # "leaf" /\ Shape[f.rule] # "note"
    <3>1. Result(f) = <<Node("open", f.rule, f.start)>> \o f.nodes
                        \o <<Node("close", f.rule, f.pos)>>
      BY <2>3 DEF Result
    <3> QED BY <1>1, <1>2, <1>3, <3>1
  <2> QED BY <2>1, <2>2, <2>3
<1>5. EndOf(f) \in Pos /\ f.pos <= EndOf(f) BY <1>1 DEF EndOf, Pos
<1> QED BY <1>4, <1>5

LEMMA SucceededBeforeKeeps ==
  ASSUME IInv, SucceededBefore PROVE IInv'
<1>1. PICK key \in SuccessEntry :
         LET hit == successes[key]
         IN  /\ frames' = Replaced(Consumed(Top, Top.pos + hit.length,
                                            hit.nodes, hit.errors))
             /\ peak' = Larger(peak, Top.depth + hit.height)
  BY DEF SucceededBefore
<1> DEFINE hit == successes[key]
           to  == Top.pos + hit.length
           q   == Consumed(Top, to, hit.nodes, hit.errors)
<1>2. Top \in Frame /\ Placed(Top, Len(frames)) /\ Len(frames) \in Nat \ {0}
      /\ Top.phase = "rules"
      /\ Top.depth \in 0..MaxDepth /\ Key(NextRule, Top, Top.pos) \in MemoKey
  BY NextRuleType, TopFrame DEF SucceededBefore
<1>3. Memo(successes, SuccessEntries) /\ Fits(successes) BY DEF IInv, MemosOK
<1>4. key \in DOMAIN successes BY DEF SuccessEntry, Usable
<1>5. /\ hit.height \in Nat /\ hit.length \in Nat
      /\ hit.nodes \in Nodes /\ hit.errors \in SUBSET ErrorKind
  BY <1>3, <1>4 DEF Memo, SuccessEntries
<1>6. Top.depth + hit.height <= MaxDepth + 1 BY <1>2, <1>3, <1>5, UsableFits DEF SuccessEntry
<1>7. to \in Pos /\ Top.start <= to
  <2>1. Top.pos \in Pos /\ Top.start \in Pos /\ Top.start <= Top.pos BY <1>2 DEF Frame, Placed
  <2> QED BY <1>5, <2>1 DEF Pos
<1>8. q \in Frame /\ Placed(q, Len(frames)) /\ Carries(q, Top) /\ q.depth = Top.depth - 1
  BY <1>2, <1>5, <1>7, ConsumedFrame
<1>9. /\ frames' = Replaced(q) /\ input' = input /\ notes' = notes /\ page' = page
      /\ failures' = failures /\ successes' = successes /\ walks' = walks
      /\ blockFailures' = blockFailures
  BY <1>1 DEF SucceededBefore, memos
<1>10. peak' \in Nat /\ q.depth <= peak' /\ peak' <= MaxDepth + 1
  <2>1. peak \in Nat /\ peak <= MaxDepth + 1 /\ Top.depth <= peak BY DEF IInv
  <2>2. Top.depth + hit.height \in Nat BY <1>2, <1>5
  <2>3. peak' \in {peak, Top.depth + hit.height} /\ peak' \in Nat /\ peak' >= peak
    BY <1>1, <2>1, <2>2, LargerType
  <2> HIDE DEF q, hit
  <2> QED BY <1>2, <1>6, <1>8, <2>1, <2>3
<1> HIDE DEF q
<1> QED BY <1>8, <1>9, <1>10, MovesOn

LEMMA FallbackKeeps ==
  ASSUME IInv, Fallback PROVE IInv'
<1> DEFINE nodes == <<Node("text", Page, Top.pos)>>
           errors == ToSet(Top.tried)
           to == Top.pos + 1
           q == Consumed(Top, to, nodes, errors)
<1>1. Top \in Frame /\ Placed(Top, Len(frames)) /\ Len(frames) \in Nat \ {0}
      /\ Top.phase = "rules"
  BY TopFrame DEF Fallback, Calling
<1>2. Top.pos \in Pos /\ Top.start \in Pos /\ Top.start <= Top.pos
      /\ Top.tried \in Seq(ErrorKind) /\ Top.depth \in Int
  BY <1>1 DEF Frame, Placed
<1>3. to \in Pos /\ Top.start <= to BY <1>2 DEF Pos
<1>4. nodes \in Nodes BY <1>2, RuleEngineAssumption DEF Node, Nodes
<1>5. errors \in SUBSET ErrorKind BY <1>2 DEF ToSet
<1>6. q \in Frame /\ Placed(q, Len(frames)) /\ Carries(q, Top) /\ q.depth = Top.depth - 1
  BY <1>1, <1>3, <1>4, <1>5, ConsumedFrame
<1>7. /\ frames' = Replaced(q) /\ input' = input /\ notes' = notes /\ page' = page
      /\ failures' = failures /\ successes' = successes /\ walks' = walks
      /\ blockFailures' = blockFailures
      /\ peak' = peak
  BY DEF Fallback, memos
<1>8. peak' \in Nat /\ q.depth <= peak' /\ peak' <= MaxDepth + 1
  <2>1. peak \in Nat /\ peak <= MaxDepth + 1 /\ Top.depth <= peak BY DEF IInv
  <2> HIDE DEF q
  <2> QED BY <1>2, <1>6, <1>7, <2>1
<1> HIDE DEF q
<1> QED BY <1>6, <1>7, <1>8, MovesOn

LEMMA StartRuleKeeps ==
  ASSUME IInv, StartRule PROVE IInv'
<1> DEFINE q == Clone(Top, NextRule)
<1>1. Top \in Frame /\ Placed(Top, Len(frames)) /\ Len(frames) \in Nat \ {0}
      /\ Top.phase = "rules" /\ NextRule \in Rule /\ Top.depth \in 0..MaxDepth
  BY NextRuleType, TopFrame DEF StartRule, Fresh
<1>2. Top.noteCount <= Len(notes) /\ notes \in Seq(Note) BY DEF IInv
<1>3. /\ q \in Frame /\ Placed(q, Len(frames) + 1) /\ Follows(Top, q)
      /\ q.depth = Top.depth /\ q.noteCount = Len(notes)
  BY <1>1, <1>2, CloneFrame
<1>4. /\ frames' = Append(frames, q) /\ input' = input /\ notes' = notes /\ page' = page
      /\ failures' = failures /\ successes' = successes /\ walks' = walks
      /\ blockFailures' = blockFailures
      /\ peak' = Top.depth
  BY DEF StartRule, memos
<1>5. Stack(Append(frames, q)) /\ Last(Append(frames, q)) = q BY <1>3, ClonedStack
<1>6. MemosOK' BY <1>4, SameMemos
<1>7. notes' \in Seq(Note) /\ q.noteCount <= Len(notes') BY <1>2, <1>3, <1>4
<1>8. peak' \in Nat /\ q.depth <= peak' /\ peak' <= MaxDepth + 1
  <2>1. Top.depth <= peak /\ peak <= MaxDepth + 1 /\ peak \in Nat BY DEF IInv
  <2> HIDE DEF q
  <2> QED BY <1>1, <1>3, <1>4, <2>1, RuleEngineAssumption
<1>9. page' \in {"parsing", "ok", "error"} BY <1>4 DEF IInv
<1> HIDE DEF q
<1> QED BY <1>4, <1>5, <1>6, <1>7, <1>8, <1>9, Assembled

\* The page's own parser has no closer.
LEMMA ClosingFrame ==
  ASSUME IInv, BodyCloses(Top) PROVE Len(frames) > 1
<1>1. Top.rule # Page BY DEF BodyCloses
<1>2. Len(frames) \in Nat \ {0} /\ (Len(frames) = 1 => Top.rule = Page) BY TopFrame
<1>3. \A n \in Nat \ {0} : n # 1 => n > 1 OBVIOUS
<1> QED BY <1>1, <1>2, <1>3

\* An element the parent does not accept.
LEMMA CloseRejectedKeeps ==
  ASSUME IInv, CloseRejected PROVE IInv'
<1> DEFINE p == frames[Len(frames) - 1]
           q == Failed(p, "partial")
<1>1. Top \in Frame /\ Placed(Top, Len(frames)) /\ Len(frames) \in Nat \ {0}
      /\ Len(frames) > 1
  <2>1. BodyCloses(Top) BY DEF CloseRejected
  <2> QED BY <2>1, TopFrame, ClosingFrame
<1>2. /\ p \in Frame /\ Placed(p, Len(frames) - 1) /\ Follows(p, Top)
      /\ p.depth = Len(frames) - 1 /\ p.depth <= peak /\ Len(frames) - 1 \in Nat \ {0}
  BY <1>1, ParentFrame
<1>3. "partial" \in ErrorKind BY DEF ErrorKind
<1>4. q \in Frame /\ Placed(q, Len(frames) - 1) /\ Carries(q, p) /\ q.depth = p.depth
  BY <1>2, <1>3, FailedFrame
<1>5. Stack(Returned(q)) /\ Last(Returned(q)) = q BY <1>1, <1>4, ReturnedStack
<1>6. /\ frames' = Returned(q) /\ input' = input /\ page' = page
      /\ notes' = SubSeq(notes, 1, Top.noteCount)
      /\ failures' = failures /\ successes' = successes /\ walks' = walks
      /\ blockFailures' = blockFailures
      /\ peak' = Larger(peak, Top.enclosing)
  BY DEF CloseRejected, Restored
<1>7. MemosOK' BY <1>6, SameMemos
<1>8. notes' \in Seq(Note) /\ Len(notes') = Top.noteCount BY <1>6, CutNotes
<1>9. q.noteCount <= Len(notes')
  <2>1. q.noteCount = p.noteCount /\ p.noteCount <= Top.noteCount BY <1>2, <1>4 DEF Carries, Follows
  <2> QED BY <1>8, <2>1
<1>10. peak' \in Nat /\ q.depth <= peak' /\ peak' <= MaxDepth + 1
  <2>1. peak \in Nat /\ peak <= MaxDepth + 1 /\ Top.enclosing \in Nat
        /\ Top.enclosing <= MaxDepth + 1
    BY <1>1 DEF IInv, Frame, Placed
  <2>2. peak' \in {peak, Top.enclosing} /\ peak' \in Nat /\ peak' >= peak BY <1>6, <2>1, LargerType
  <2>3. q.depth \in Nat /\ q.depth <= peak BY <1>2, <1>4
  <2> QED BY <2>1, <2>2, <2>3
<1>11. page' \in {"parsing", "ok", "error"} BY <1>6 DEF IInv
<1> HIDE DEF p, q
<1> QED BY <1>5, <1>6, <1>7, <1>8, <1>9, <1>10, <1>11, Assembled

LEMMA CloseAcceptedKeeps ==
  ASSUME IInv, CloseAccepted PROVE IInv'
<1> DEFINE p == frames[Len(frames) - 1]
           q == Consumed(p, EndOf(Top), Result(Top), Top.errors)
           o == Outcome(Top, p)
<1>1. Top \in Frame /\ Placed(Top, Len(frames)) /\ Len(frames) \in Nat \ {0}
      /\ Len(frames) > 1
  <2>1. BodyCloses(Top) BY DEF CloseAccepted
  <2> QED BY <2>1, TopFrame, ClosingFrame
<1>2. /\ p \in Frame /\ Placed(p, Len(frames) - 1) /\ Follows(p, Top)
      /\ p.depth = Len(frames) - 1 /\ p.depth <= peak /\ Len(frames) - 1 \in Nat \ {0}
      /\ p.phase = "rules" /\ Top.start = p.pos
  BY <1>1, ParentFrame DEF Follows
<1>3. Result(Top) \in Nodes /\ EndOf(Top) \in Pos /\ Top.pos <= EndOf(Top) BY <1>1, ResultType
<1>4. /\ Top.start \in Pos /\ Top.pos \in Pos /\ Top.rule \in Rule
      /\ Top.nodes \in Nodes
      /\ Top.errors \in SUBSET ErrorKind /\ Top.start <= Top.pos
      /\ p.start \in Pos /\ p.start <= p.pos /\ p.depth \in Nat
      /\ Top.noteCount \in Nat /\ p.noteCount \in Nat
      /\ p.noteCount <= Top.noteCount
      /\ Top.enclosing \in Nat /\ Top.enclosing <= MaxDepth + 1
  BY <1>1, <1>2 DEF Frame, Placed, Follows
<1>5. p.start <= EndOf(Top) BY <1>2, <1>3, <1>4 DEF Pos
<1>6. q \in Frame /\ Placed(q, Len(frames) - 1) /\ Carries(q, p) /\ q.depth = p.depth - 1
  BY <1>2, <1>3, <1>4, <1>5, ConsumedFrame
<1>7. Stack(Returned(q)) /\ Last(Returned(q)) = q BY <1>1, <1>6, ReturnedStack
<1>8. /\ frames' = Returned(q) /\ input' = input /\ page' = page
      /\ failures' = failures /\ walks' = walks /\ blockFailures' = blockFailures
      /\ notes' = Registered(Top)
      /\ peak' = Larger(peak, Top.enclosing)
      /\ \/ successes' = successes
         \/ successes' = Remember(successes, Key(Top.rule, p, p.pos), p.depth, o)
  BY DEF CloseAccepted
<1>9. peak \in Nat /\ peak <= MaxDepth + 1 /\ MaxDepth \in Nat BY RuleEngineAssumption DEF IInv
<1>10. o \in SuccessEntries /\ o.height \in Nat /\ p.depth + o.height <= MaxDepth + 1
  <2> DEFINE h == peak - p.depth
             l == EndOf(Top) - Top.start
  <2>1. h \in Nat /\ p.depth + h <= MaxDepth + 1 BY <1>2, <1>4, <1>9
  <2>2. l \in Nat BY <1>3, <1>4 DEF Pos
  <2>3. o = [height |-> h, nodes |-> Result(Top), errors |-> Top.errors, length |-> l]
    BY DEF Outcome
  <2> HIDE DEF h, l, o
  <2> QED BY <1>3, <1>4, <2>1, <2>2, <2>3 DEF SuccessEntries
<1>11. (Memo(successes, SuccessEntries) /\ Fits(successes))'
  <2> DEFINE m == Remember(successes, Key(Top.rule, p, p.pos), p.depth, o)
  <2>1. Memo(successes, SuccessEntries) /\ Fits(successes) BY DEF IInv, MemosOK
  <2>2. Memo(m, SuccessEntries) /\ Fits(m) BY <1>2, <1>4, <1>10, <2>1, RememberMemo
  <2>3. successes' = successes \/ successes' = m BY <1>8
  <2> HIDE DEF m
  <2> QED BY <2>1, <2>2, <2>3 DEF Memo, Fits, MemoKey, SuccessEntries
<1>12. MemosOK'
  <2>1. /\ Memo(failures, FailureEntries) /\ Fits(failures)
        /\ Memo(walks, WalkEntries) /\ Fits(walks)
    BY DEF IInv, MemosOK
  <2>2. (Memo(failures, FailureEntries) /\ Fits(failures))'
    BY <1>8, <2>1 DEF Memo, Fits, MemoKey, FailureEntries
  <2>3. (Memo(walks, WalkEntries) /\ Fits(walks))'
    BY <1>8, <2>1 DEF Memo, Fits, MemoKey, WalkEntries
  <2>4. blockFailures' \subseteq BlockRule \X Pos \X SUBSET (0..MaxDepth) BY <1>8 DEF IInv, MemosOK
  <2> QED BY <1>11, <2>2, <2>3, <2>4 DEF MemosOK
<1>13. notes' \in Seq(Note) /\ Len(notes) <= Len(notes')
  <2>1. notes \in Seq(Note) /\ Len(notes) \in Nat BY DEF IInv
  <2> DEFINE n == [at |-> Top.start, nodes |-> Top.nodes]
  <2>2. n \in Note BY <1>4 DEF Note
  <2>3. notes' = Append(notes, n) \/ notes' = notes BY <1>8 DEF Registered
  <2> HIDE DEF n
  <2> QED BY <2>1, <2>2, <2>3
<1>14. q.noteCount <= Len(notes')
  <2>1. q.noteCount = p.noteCount /\ Top.noteCount <= Len(notes)
        /\ Len(notes) \in Nat /\ Len(notes') \in Nat
    BY <1>6, <1>13 DEF Carries, IInv
  <2> HIDE DEF p, q
  <2> QED BY <1>4, <1>13, <2>1
<1>15. peak' \in Nat /\ q.depth <= peak' /\ peak' <= MaxDepth + 1
  <2>1. peak' \in {peak, Top.enclosing} /\ peak' \in Nat /\ peak' >= peak
    BY <1>4, <1>8, <1>9, LargerType
  <2> HIDE DEF p, q
  <2>2. q.depth <= peak /\ q.depth \in Int BY <1>2, <1>4, <1>6, <1>9
  <2> QED BY <1>4, <1>9, <2>1, <2>2
<1>16. page' \in {"parsing", "ok", "error"} BY <1>8 DEF IInv
<1> HIDE DEF p, q, o
<1> QED BY <1>7, <1>8, <1>12, <1>13, <1>14, <1>15, <1>16, Assembled

--------------------
(* The invariant *)

LEMMA StartEstablishes == Starts => IInv
<1> SUFFICES ASSUME Starts PROVE IInv OBVIOUS
<1>1. input \in Seq(Token) /\ notes = << >> /\ peak = 0 /\ page = "parsing" BY DEF Starts
<1>2. PageFrame \in Frame
  BY RuleEngineAssumption DEF PageFrame, Frame, Pos, Accepts, Zones, Nodes, ErrorKind
<1>3. Placed(PageFrame, 1) BY RuleEngineAssumption DEF Placed, PageFrame
<1>4. frames = <<PageFrame>> /\ Top = PageFrame BY DEF Starts, Top, Last
<1>5. Stack(frames)
  <2>1. frames \in Seq(Frame) /\ Len(frames) = 1 /\ frames[1] = PageFrame BY <1>2, <1>4
  <2> QED BY <1>3, <2>1 DEF Stack
<1>6. Top.noteCount = 0 /\ Top.depth = 0 BY <1>4 DEF PageFrame
<1>7. MemosOK BY DEF Starts, MemosOK, Memo, Fits
<1>8. notes \in Seq(Note) /\ Top.noteCount <= Len(notes) BY <1>1, <1>6
<1> QED BY <1>1, <1>5, <1>6, <1>7, <1>8, RuleEngineAssumption DEF IInv

LEMMA InitEstablishes == Init => IInv
<1> SUFFICES ASSUME Init PROVE IInv OBVIOUS
<1>1. input \in Seq(Token)
  <2>1. PICK n \in 0..MaxTokens : input \in [1..n -> Token] BY DEF Init
  <2> QED BY <2>1
<1>2. Starts BY <1>1 DEF Init, Starts
<1> QED BY <1>2, StartEstablishes

LEMMA StepKeeps ==
  ASSUME IInv, [Next]_vars PROVE IInv'
<1>1. CASE CloseAccepted BY <1>1, CloseAcceptedKeeps
<1>2. CASE CloseRejected BY <1>2, CloseRejectedKeeps
<1>3. CASE RefuseNested \/ MeetBreak \/ MeetNoteEnd \/ MeetEnd \/ KnownWalk \/ TooDeep
           \/ FallbackTooDeep \/ RunOffEnd
  BY <1>3, FailingKeeps
<1>4. CASE FinishPage \/ PageTooDeep BY <1>4, PageKeeps
<1>5. CASE StepBreak BY <1>5, StepBreakKeeps
<1>6. CASE Consume BY <1>6, ConsumeKeeps
<1>7. CASE RejectedBefore BY <1>7, RejectedBeforeKeeps
<1>8. CASE FailedBefore BY <1>8, FailedBeforeKeeps
<1>9. CASE SucceededBefore BY <1>9, SucceededBeforeKeeps
<1>10. CASE StartRule BY <1>10, StartRuleKeeps
<1>11. CASE Fallback BY <1>11, FallbackKeeps
<1>12. CASE UNCHANGED vars
  <2>1. /\ input' = input /\ frames' = frames /\ notes' = notes /\ peak' = peak
        /\ failures' = failures /\ successes' = successes /\ walks' = walks
      /\ blockFailures' = blockFailures
        /\ page' = page
    BY <1>12 DEF vars, memos
  <2>2. MemosOK' BY <2>1, SameMemos
  <2>3. Stack(frames) /\ Last(frames) = Top BY DEF IInv, Top
  <2>4. /\ notes' \in Seq(Note) /\ Top.noteCount <= Len(notes')
        /\ peak' \in Nat /\ Top.depth <= peak' /\ peak' <= MaxDepth + 1
        /\ page' \in {"parsing", "ok", "error"}
    BY <2>1 DEF IInv
  <2> QED BY <2>1, <2>2, <2>3, <2>4, Assembled
<1>13. CASE BlockEndedBefore \/ BlockTooDeepBefore BY <1>13, BlockBeforeKeeps
<1> QED BY <1>1, <1>2, <1>3, <1>4, <1>5, <1>6, <1>7, <1>8, <1>9, <1>10, <1>11, <1>12, <1>13 DEF Next

LEMMA WellTyped == IInv => TypeOK
  BY DEF IInv, Stack, MemosOK, TypeOK

LEMMA Bounded == IInv => StackBounded
<1> SUFFICES ASSUME IInv PROVE StackBounded OBVIOUS
<1>1. /\ frames \in Seq(Frame) /\ Len(frames) \in Nat
      /\ \A k \in 1..Len(frames) : Placed(frames[k], k)
      /\ \A k \in 1..(Len(frames) - 1) : frames[k].phase = "rules"
  BY DEF IInv, Stack, Follows
<1>2. Len(frames) <= MaxDepth + 1
  <2>1. CASE Len(frames) > 1
    <3> DEFINE p == frames[Len(frames) - 1]
    <3>1. p \in Frame /\ p.depth = Len(frames) - 1 BY <2>1, ParentFrame
    <3>2. p.depth <= MaxDepth /\ MaxDepth \in Nat BY <3>1, RuleEngineAssumption DEF Frame
    <3> HIDE DEF p
    <3> QED BY <1>1, <3>1, <3>2
  <2>2. CASE ~(Len(frames) > 1) BY <1>1, <2>2, RuleEngineAssumption
  <2> QED BY <2>1, <2>2
<1>3. DOMAIN frames = 1..Len(frames) BY <1>1
<1> QED BY <1>1, <1>2, <1>3 DEF StackBounded, Placed

\* The inductive invariant: the stack is a chain of attempts, each at its place,
\* the registry covers every snapshot, and the memos fit.
THEOREM Invariance == Spec => []IInv
<1>1. Init => IInv BY InitEstablishes
<1>2. IInv /\ [Next]_vars => IInv' BY StepKeeps
<1> QED BY <1>1, <1>2, PTL DEF Spec

\* The engine stays within its types: a consume that looks a rule up stands on a
\* token that has rules, a registry is only cut back to a length it has, and
\* every memo key and entry is of its kind.
THEOREM TypeCorrect == Spec => []TypeOK
<1> QED BY WellTyped, Invariance, PTL

\* However rules fail, are refused or are spared, never more than
\* max_recursion_depth + 1 parsers are open, and each is as deep as its place:
\* no path through consume forgets to leave a level.
THEOREM DepthIsPlace == Spec => []StackBounded
<1> QED BY Bounded, Invariance, PTL

\* peak - self.depth never underflows, and no remembered outcome, wherever it may
\* be used, stands for an attempt deeper than the one refused level above the
\* limit.
THEOREM NoHeightUnderflow == Spec => []HeightsFit
<1>1. IInv => HeightsFit BY DEF IInv, MemosOK, HeightsFit
<1> QED BY <1>1, Invariance, PTL

--------------------
(* Footnotes: nodes and the notes they refer to *)

LEMMA NothingReferred ==
  ASSUME NEW nodes \in Nodes, PlainNodes(nodes), NEW ns, NEW m \in Nat
  PROVE  Refers(nodes, ns, m + 1, m)
<1> DEFINE g == [i \in (m + 1)..m |-> 0]
<1>1. (m + 1)..m = {} OBVIOUS
<1>2. g \in [(m + 1)..m -> DOMAIN nodes] BY <1>1
<1> HIDE DEF g
<1> QED BY <1>1, <1>2 DEF Refers, PlainNodes

LEMMA NoneReferred ==
  ASSUME NEW nodes, NEW ns, NEW m \in Nat, Refers(nodes, ns, m + 1, m) PROVE PlainNodes(nodes)
<1>1. (m + 1)..m = {} OBVIOUS
<1> QED BY <1>1 DEF Refers, PlainNodes

LEMMA SameReferred ==
  ASSUME NEW nodes, NEW ns, NEW ms, NEW a, NEW b, Refers(nodes, ns, a, b),
         \A i \in a..b : ms[i] = ns[i]
  PROVE  Refers(nodes, ms, a, b)
<1>1. PICK g \in [a..b -> DOMAIN nodes] :
        /\ \A i \in a..b : nodes[g[i]].part = "note" /\ nodes[g[i]].at = ns[i].at
        /\ \A i, j \in a..b : i < j => g[i] < g[j]
        /\ \A k \in DOMAIN nodes : nodes[k].part = "note" => \E i \in a..b : g[i] = k
  BY DEF Refers
<1>2. \A i \in a..b : nodes[g[i]].part = "note" /\ nodes[g[i]].at = ms[i].at BY <1>1
<1> QED BY <1>1, <1>2 DEF Refers

LEMMA OneReferred ==
  ASSUME NEW nodes \in Nodes, Len(nodes) = 1, nodes[1].part = "note",
         NEW ns, NEW m \in Nat, nodes[1].at = ns[m + 1].at
  PROVE  Refers(nodes, ns, m + 1, m + 1)
<1> DEFINE g == [i \in (m + 1)..(m + 1) |-> 1]
<1>1. (m + 1)..(m + 1) = {m + 1} /\ DOMAIN nodes = {1} BY DEF Nodes
<1>2. g \in [(m + 1)..(m + 1) -> DOMAIN nodes] /\ g[m + 1] = 1 BY <1>1
<1> HIDE DEF g
<1> QED BY <1>1, <1>2 DEF Refers

LEMMA BothReferred ==
  ASSUME NEW n1 \in Nodes, NEW n2 \in Nodes, NEW ns,
         NEW a \in Nat, NEW b \in Nat, NEW c \in Nat, a <= b, b <= c,
         Refers(n1, ns, a + 1, b), Refers(n2, ns, b + 1, c)
  PROVE  Refers(n1 \o n2, ns, a + 1, c)
<1>1. PICK g \in [(a + 1)..b -> DOMAIN n1] :
        /\ \A i \in (a + 1)..b : n1[g[i]].part = "note" /\ n1[g[i]].at = ns[i].at
        /\ \A i, j \in (a + 1)..b : i < j => g[i] < g[j]
        /\ \A k \in DOMAIN n1 : n1[k].part = "note" => \E i \in (a + 1)..b : g[i] = k
  BY DEF Refers
<1>2. PICK h \in [(b + 1)..c -> DOMAIN n2] :
        /\ \A i \in (b + 1)..c : n2[h[i]].part = "note" /\ n2[h[i]].at = ns[i].at
        /\ \A i, j \in (b + 1)..c : i < j => h[i] < h[j]
        /\ \A k \in DOMAIN n2 : n2[k].part = "note" => \E i \in (b + 1)..c : h[i] = k
  BY DEF Refers
<1> DEFINE n == n1 \o n2
           l == Len(n1)
           f == [i \in (a + 1)..c |-> IF i <= b THEN g[i] ELSE l + h[i]]
<1>3. /\ l \in Nat /\ DOMAIN n1 = 1..l /\ DOMAIN n2 = 1..Len(n2) /\ Len(n2) \in Nat
      /\ DOMAIN n = 1..(l + Len(n2))
      /\ \A k \in 1..l : n[k] = n1[k]
      /\ \A k \in 1..Len(n2) : n[l + k] = n2[k]
  BY DEF Nodes
<1> HIDE DEF n, l
<1>4. \A i \in (a + 1)..c : i \in (a + 1)..b \/ (i \in (b + 1)..c /\ ~(i <= b)) OBVIOUS
<1>5. \A i \in (a + 1)..b : i \in (a + 1)..c /\ i <= b /\ f[i] = g[i] /\ g[i] \in 1..l BY <1>3
<1>6. \A i \in (b + 1)..c : /\ i \in (a + 1)..c /\ ~(i <= b)
                            /\ f[i] = l + h[i] /\ h[i] \in 1..Len(n2)
  BY <1>3
<1>7. f \in [(a + 1)..c -> DOMAIN n]
  <2>1. ASSUME NEW i \in (a + 1)..c PROVE f[i] \in 1..(l + Len(n2)) BY <1>3, <1>4, <1>5, <1>6
  <2> QED BY <1>3, <2>1
<1> HIDE DEF f
<1>8. ASSUME NEW i \in (a + 1)..c PROVE n[f[i]].part = "note" /\ n[f[i]].at = ns[i].at
  <2>1. CASE i \in (a + 1)..b
    <3>1. n[f[i]] = n1[g[i]] BY <1>3, <1>5, <2>1
    <3> QED BY <1>1, <2>1, <3>1
  <2>2. CASE i \in (b + 1)..c
    <3>1. n[f[i]] = n2[h[i]] BY <1>3, <1>6, <2>2
    <3> QED BY <1>2, <2>2, <3>1
  <2> QED BY <1>4, <2>1, <2>2
<1>9. ASSUME NEW i \in (a + 1)..c, NEW j \in (a + 1)..c, i < j PROVE f[i] < f[j]
  <2>1. CASE i \in (a + 1)..b /\ j \in (a + 1)..b BY <1>1, <1>5, <1>9, <2>1
  <2>2. CASE i \in (a + 1)..b /\ j \in (b + 1)..c
    <3>1. f[i] = g[i] /\ g[i] \in 1..l BY <1>5, <2>2
    <3>2. f[j] = l + h[j] /\ h[j] \in 1..Len(n2) BY <1>6, <2>2
    <3>3. \A x \in 1..l, y \in 1..Len(n2) : x < l + y BY <1>3
    <3> QED BY ONLY <3>1, <3>2, <3>3
  <2>3. CASE i \in (b + 1)..c /\ j \in (b + 1)..c
    <3>1. f[i] = l + h[i] /\ h[i] \in 1..Len(n2) BY <1>6, <2>3
    <3>2. f[j] = l + h[j] /\ h[j] \in 1..Len(n2) BY <1>6, <2>3
    <3>3. h[i] < h[j] BY <1>2, <1>9, <2>3
    <3>4. \A x, y \in 1..Len(n2) : x < y => l + x < l + y BY <1>3
    <3> QED BY ONLY <3>1, <3>2, <3>3, <3>4
  <2>4. CASE i \in (b + 1)..c /\ j \in (a + 1)..b BY <1>9, <2>4
  <2> QED BY <1>4, <2>1, <2>2, <2>3, <2>4
<1>10. ASSUME NEW k \in DOMAIN n, n[k].part = "note" PROVE \E i \in (a + 1)..c : f[i] = k
  <2>1. CASE k \in 1..l
    <3>1. PICK i \in (a + 1)..b : g[i] = k BY <1>1, <1>3, <1>10, <2>1
    <3> QED BY <1>5, <3>1
  <2>2. CASE k \notin 1..l
    <3>1. k - l \in 1..Len(n2) /\ k = l + (k - l) /\ k \in Nat BY <1>3, <2>2
    <3>2. n2[k - l].part = "note" BY <1>3, <1>10, <3>1
    <3>3. PICK i \in (b + 1)..c : h[i] = k - l BY <1>2, <1>3, <3>1, <3>2
    <3> QED BY <1>3, <1>6, <3>1, <3>3
  <2> QED BY <2>1, <2>2
<1> QED BY <1>7, <1>8, <1>9, <1>10 DEF Refers, n

\* Nodes without notes may be put behind.
LEMMA PlainBehind ==
  ASSUME NEW n1 \in Nodes, NEW n2 \in Nodes, NEW ns, NEW a \in Nat, NEW b \in Nat,
         a <= b, Refers(n1, ns, a + 1, b), PlainNodes(n2)
  PROVE  Refers(n1 \o n2, ns, a + 1, b)
<1>1. Refers(n2, ns, b + 1, b) BY NothingReferred
<1> QED BY <1>1, BothReferred

--------------------
(* How the stack moves *)

LEMMA StackIs ==
  ASSUME IInv, NInv
  PROVE  /\ frames \in Seq(Frame) /\ Len(frames) \in Nat \ {0} /\ notes \in Seq(Note)
         /\ Len(notes) \in Nat
         /\ Top = frames[Len(frames)] /\ Top \in Frame
         /\ \A k \in 1..Len(frames) : frames[k] \in Frame /\ frames[k].noteCount \in Nat
         /\ \A k \in 1..Len(frames) : Owns(frames[k], notes, Upto(frames, notes, k))
         /\ Top.noteCount <= Len(notes)
         /\ Owns(Top, notes, Len(notes))
<1>1. /\ frames \in Seq(Frame) /\ notes \in Seq(Note) /\ Top = frames[Len(frames)]
      /\ Len(frames) \in Nat \ {0} /\ Top \in Frame /\ Top.noteCount <= Len(notes)
  BY TopFrame DEF IInv, Stack
<1>2. \A k \in 1..Len(frames) : frames[k] \in Frame /\ frames[k].noteCount \in Nat
  <2>1. \A k \in 1..Len(frames) : frames[k] \in Frame BY <1>1
  <2>2. \A p \in Frame : p.noteCount \in Nat BY DEF Frame
  <2> QED BY <2>1, <2>2
<1>3. \A k \in 1..Len(frames) : Owns(frames[k], notes, Upto(frames, notes, k)) BY DEF NInv, NotesFit
<1>4. Owns(Top, notes, Len(notes))
  <2>1. Len(frames) \in 1..Len(frames) BY <1>1
  <2> QED BY <1>1, <1>3, <2>1 DEF Upto
<1> QED BY <1>1, <1>2, <1>3, <1>4

\* The innermost parser goes on.
LEMMA ReplacedNotes ==
  ASSUME IInv, NInv, NEW q \in Frame, Continues(q, Top),
         Shape[Top.rule] # "leaf",
         Refers(q.nodes, notes, q.noteCount + 1, Len(notes))
  PROVE  NotesFit(Replaced(q), notes)
<1> DEFINE fs == Replaced(q)
           n == Len(frames)
<1>1. /\ n \in Nat \ {0} /\ Top = frames[n] /\ Owns(Top, notes, Len(notes))
      /\ frames \in Seq(Frame)
  BY StackIs
<1>2. Len(fs) = n /\ \A k \in 1..n : fs[k] = IF k = n THEN q ELSE frames[k] BY <1>1 DEF Replaced
<1> HIDE DEF fs
<1>3. \A k \in 1..n : Continues(fs[k], frames[k]) BY <1>1, <1>2 DEF Continues
<1>4. \A k \in 1..n : Upto(fs, notes, k) = Upto(frames, notes, k)
  <2>1. \A k \in 1..n : k # n => k + 1 \in 1..n BY <1>1
  <2> QED BY <1>2, <1>3, <2>1 DEF Upto, Continues
<1>5. ASSUME NEW k \in 1..n PROVE Owns(fs[k], notes, Upto(fs, notes, k))
  <2>1. CASE k = n BY <1>1, <1>2, <2>1 DEF Owns, Continues, Upto
  <2>2. CASE k # n BY <1>2, <1>4, <2>2 DEF NInv, NotesFit
  <2> QED BY <2>1, <2>2
<1>6. fs[1].noteCount = 0
  <2>1. 1 \in 1..n BY <1>1
  <2> QED BY <1>3, <2>1 DEF NInv, NotesFit, Continues
<1>7. \A k \in 1..(n - 1) : fs[k].zone = "note" => fs[k + 1].zone = "note"
  <2>1. \A k \in 1..(n - 1) : k \in 1..n /\ k + 1 \in 1..n BY <1>1
  <2> QED BY <1>3, <2>1 DEF NInv, NotesFit, Continues
<1>8. \A k \in 2..n : fs[k].rule # Page
  <2>1. \A k \in 2..n : k \in 1..n BY <1>1
  <2> QED BY <1>3, <2>1 DEF NInv, NotesFit, Continues
<1>9. \A j, k \in 1..n : j < k => fs[j].noteCount <= fs[k].noteCount
  BY <1>3 DEF NInv, NotesFit, Continues
<1> QED BY <1>2, <1>5, <1>6, <1>7, <1>8, <1>9 DEF NotesFit, fs

\* The innermost parser returns to its parent, which accounts for what it leaves.
LEMMA ReturnedNotes ==
  ASSUME IInv, NInv, Len(frames) > 1,
         NEW q \in Frame, Continues(q, frames[Len(frames) - 1]),
         NEW ns \in Seq(Note), Top.noteCount <= Len(ns),
         \A i \in 1..Top.noteCount : ns[i] = notes[i],
         Refers(q.nodes, ns, q.noteCount + 1, Len(ns)),
         q.zone = "note" => Len(ns) = q.noteCount
  PROVE  NotesFit(Returned(q), ns)
<1> DEFINE fs == Returned(q)
           n == Len(frames)
<1>1. /\ n \in Nat /\ n - 1 \in Nat \ {0} /\ Top = frames[n]
      /\ frames \in Seq(Frame)
      /\ \A k \in 1..n : frames[k] \in Frame /\ frames[k].noteCount \in Nat
  <2>1. n \in Nat /\ n > 1 BY StackIs
  <2>2. \A m \in Nat : m > 1 => m - 1 \in Nat \ {0} OBVIOUS
  <2> QED BY <2>1, <2>2, StackIs
<1>2. Len(fs) = n - 1 /\ \A k \in 1..(n - 1) : fs[k] = IF k = n - 1 THEN q ELSE frames[k]
  <2> DEFINE s == SubSeq(frames, 1, n - 2)
  <2>1. n - 2 \in Nat /\ n - 2 <= n BY <1>1
  <2>2. s \in Seq(Frame) /\ Len(s) = n - 2 /\ \A k \in 1..(n - 2) : s[k] = frames[k]
    <3>1. \A m \in Nat : m <= Len(frames) =>
             /\ SubSeq(frames, 1, m) \in Seq(Frame) /\ Len(SubSeq(frames, 1, m)) = m
             /\ \A k \in 1..m : SubSeq(frames, 1, m)[k] = frames[k]
      BY <1>1
    <3> QED BY <2>1, <3>1
  <2>3. fs = Append(s, q) BY DEF Returned
  <2> HIDE DEF s, fs
  <2> QED BY <1>1, <2>1, <2>2, <2>3
<1> HIDE DEF fs
<1>3. \A k \in 1..(n - 1) : k \in 1..n /\ k + 1 \in 1..n /\ Continues(fs[k], frames[k])
  BY <1>1, <1>2 DEF Continues
<1>4. ASSUME NEW k \in 1..(n - 1) PROVE Owns(fs[k], ns, Upto(fs, ns, k))
  <2>1. CASE k = n - 1
    <3>1. Upto(fs, ns, k) = Len(ns) /\ fs[k] = q BY <1>2, <2>1 DEF Upto
    <3>2. /\ Shape[frames[k].rule] = "note" => frames[k].zone = "note"
          /\ Shape[frames[k].rule] # "leaf"
      <4>1. frames[k].phase = "rules" BY <2>1, ParentFrame DEF Follows
      <4> QED BY <1>3, <4>1 DEF NInv, NotesFit, Owns
    <3> QED BY <1>3, <2>1, <3>1, <3>2 DEF Owns, Continues
  <2>2. CASE k # n - 1
    <3>1. k + 1 \in 1..(n - 1) /\ k # n /\ k + 1 \in 1..n /\ k \in 1..n BY <1>1, <2>2
    <3>2. fs[k] = frames[k] /\ Upto(fs, ns, k) = frames[k + 1].noteCount
      BY <1>2, <1>3, <2>2, <3>1 DEF Upto, Continues
    <3>3. Owns(frames[k], notes, frames[k + 1].noteCount) BY <3>1 DEF NInv, NotesFit, Upto
    <3>4. frames[k + 1].noteCount <= Top.noteCount /\ n \in 1..n /\ k + 1 < n
      <4>1. n \in 1..n /\ k + 1 < n BY <1>1, <3>1
      <4> QED BY <1>1, <3>1, <4>1 DEF NInv, NotesFit
    <3>5. ASSUME NEW i \in (frames[k].noteCount + 1)..frames[k + 1].noteCount PROVE ns[i] = notes[i]
      <4>1. i \in 1..Top.noteCount
        <5>1. frames[k].noteCount \in Nat /\ frames[k + 1].noteCount \in Nat
              /\ Top.noteCount \in Nat
          BY <1>1, <3>1, <3>4
        <5> QED BY <3>4, <5>1
      <4> QED BY <4>1
    <3>6. Refers(frames[k].nodes, ns, frames[k].noteCount + 1, frames[k + 1].noteCount)
      <4>1. Refers(frames[k].nodes, notes, frames[k].noteCount + 1, frames[k + 1].noteCount)
        BY <3>3 DEF Owns
      <4> QED BY <3>5, <4>1, SameReferred
    <3> QED BY <3>2, <3>3, <3>6 DEF Owns
  <2> QED BY <2>1, <2>2
<1>5. fs[1].noteCount = 0
  <2>1. 1 \in 1..(n - 1) BY <1>1
  <2> QED BY <1>3, <2>1 DEF NInv, NotesFit, Continues
<1>6. \A k \in 1..((n - 1) - 1) : fs[k].zone = "note" => fs[k + 1].zone = "note"
  <2>1. \A k \in 1..((n - 1) - 1) : k \in 1..(n - 1) /\ k + 1 \in 1..(n - 1) BY <1>1
  <2> QED BY <1>3, <2>1 DEF NInv, NotesFit, Continues
<1>7. \A k \in 2..(n - 1) : fs[k].rule # Page
  <2>1. \A k \in 2..(n - 1) : k \in 1..(n - 1) /\ k \in 2..n BY <1>1
  <2> QED BY <1>3, <2>1 DEF NInv, NotesFit, Continues
<1>8. \A j, k \in 1..(n - 1) : j < k => fs[j].noteCount <= fs[k].noteCount
  BY <1>3 DEF NInv, NotesFit, Continues
<1> QED BY <1>2, <1>4, <1>5, <1>6, <1>7, <1>8 DEF NotesFit, fs

\* A clone has nothing to account for yet.
LEMMA ClonedNotes ==
  ASSUME IInv, NInv, NEW r \in Rule, r # Page, Top.phase = "rules",
         Clone(Top, r) \in Frame
  PROVE  NotesFit(Append(frames, Clone(Top, r)), notes)
<1> DEFINE q == Clone(Top, r)
           fs == Append(frames, q)
           n == Len(frames)
<1>1. /\ n \in Nat \ {0} /\ Top = frames[n] /\ Owns(Top, notes, Len(notes))
      /\ frames \in Seq(Frame) /\ Len(notes) \in Nat /\ Top \in Frame
      /\ Top.noteCount <= Len(notes)
      /\ \A k \in 1..n : frames[k].noteCount \in Nat
      /\ \A k \in 1..n : Owns(frames[k], notes, Upto(frames, notes, k))
  BY StackIs
<1>2. /\ q.rule = r /\ q.nodes = << >> /\ q.noteCount = Len(notes) /\ q.phase = "body"
      /\ q.zone = IF Shape[r] = "note" THEN "note" ELSE Top.zone
  <2> DEFINE z == IF Shape[r] = "note" THEN "note" ELSE Top.zone
  <2>1. q = [Top EXCEPT !.rule = r, !.start = Top.pos, !.pos = Top.pos + 1,
               !.accepts = IF Shape[r] = "group" THEN "item" ELSE Top.accepts,
               !.acceptsAt = IF Shape[r] = "group" THEN Top.depth + 1 ELSE Top.acceptsAt,
               !.zone = z, !.nodes = << >>, !.errors = {}, !.noteCount = Len(notes),
               !.enclosing = peak, !.visited = {}, !.phase = "body", !.tried = << >>]
    BY DEF Clone
  <2> HIDE DEF z, q
  <2>2. q.rule = r /\ q.nodes = << >> /\ q.noteCount = Len(notes) /\ q.zone = z
        /\ q.phase = "body"
    BY <1>1, <2>1 DEF Frame
  <2> QED BY <2>2 DEF z
<1> HIDE DEF q
<1>3. Len(fs) = n + 1 /\ \A k \in 1..(n + 1) : fs[k] = IF k = n + 1 THEN q ELSE frames[k]
  BY <1>1 DEF q
<1> HIDE DEF fs
<1>4. Owns(q, notes, Len(notes))
  <2>1. << >> \in Nodes /\ PlainNodes(<< >>) BY DEF Nodes, PlainNodes
  <2>2. Refers(<< >>, notes, Len(notes) + 1, Len(notes)) BY <1>1, <2>1, NothingReferred
  <2> QED BY <1>2, <2>2 DEF Owns
<1>5. ASSUME NEW k \in 1..(n + 1) PROVE Owns(fs[k], notes, Upto(fs, notes, k))
  <2>1. CASE k = n + 1 BY <1>3, <1>4, <2>1 DEF Upto
  <2>2. CASE k = n
    <3>1. fs[k] = Top /\ fs[k + 1] = q /\ k # n + 1 BY <1>1, <1>3, <2>2
    <3> QED BY <1>1, <1>2, <1>3, <3>1 DEF Upto
  <2>3. CASE k # n /\ k # n + 1
    <3>1. k \in 1..n /\ k + 1 \in 1..n /\ k + 1 # n + 1 /\ k + 1 \in 1..(n + 1) BY <1>1, <2>3
    <3>2. fs[k] = frames[k] /\ fs[k + 1] = frames[k + 1] BY <1>3, <2>3, <3>1
    <3>3. Upto(fs, notes, k) = Upto(frames, notes, k) BY <1>3, <2>3, <3>2 DEF Upto
    <3> QED BY <1>1, <3>1, <3>2, <3>3
  <2> QED BY <2>1, <2>2, <2>3
<1>6. fs[1].noteCount = 0
  <2>1. 1 \in 1..(n + 1) /\ 1 # n + 1 BY <1>1
  <2> QED BY <1>3, <2>1 DEF NInv, NotesFit
<1>7. ASSUME NEW k \in 1..((n + 1) - 1), fs[k].zone = "note" PROVE fs[k + 1].zone = "note"
  <2>1. k \in 1..n /\ k # n + 1 /\ fs[k] = frames[k] BY <1>1, <1>3
  <2>2. CASE k = n BY <1>1, <1>2, <1>3, <1>7, <2>1, <2>2
  <2>3. CASE k # n
    <3>1. k \in 1..(n - 1) /\ k + 1 \in 1..(n + 1) /\ k + 1 # n + 1 BY <1>1, <2>1, <2>3
    <3> QED BY <1>3, <1>7, <2>1, <3>1 DEF NInv, NotesFit
  <2> QED BY <2>2, <2>3
<1>8. ASSUME NEW k \in 2..(n + 1) PROVE fs[k].rule # Page
  <2>1. CASE k = n + 1 BY <1>2, <1>3, <2>1
  <2>2. CASE k # n + 1
    <3>1. k \in 2..n /\ k \in 1..(n + 1) BY <1>1, <2>2
    <3> QED BY <1>3, <2>2, <3>1 DEF NInv, NotesFit
  <2> QED BY <2>1, <2>2
<1>9. ASSUME NEW j \in 1..(n + 1), NEW k \in 1..(n + 1), j < k
      PROVE  fs[j].noteCount <= fs[k].noteCount
  <2>1. j \in 1..n /\ j # n + 1 /\ fs[j] = frames[j] BY <1>1, <1>3, <1>9
  <2>2. CASE k = n + 1
    <3>1. frames[j].noteCount <= Top.noteCount
      <4>1. CASE j = n BY <1>1, <2>1, <4>1
      <4>2. CASE j # n
        <5>1. j < n /\ n \in 1..n BY <1>1, <2>1, <4>2
        <5> QED BY <1>1, <2>1, <5>1 DEF NInv, NotesFit
      <4> QED BY <4>1, <4>2
    <3>2. frames[j].noteCount \in Nat /\ Top.noteCount \in Nat BY <1>1, <2>1 DEF Frame
    <3> QED BY <1>1, <1>2, <1>3, <2>1, <2>2, <3>1, <3>2
  <2>3. CASE k # n + 1
    <3>1. k \in 1..n /\ fs[k] = frames[k] BY <1>1, <1>3, <2>3
    <3> QED BY <1>9, <2>1, <3>1 DEF NInv, NotesFit
  <2> QED BY <2>2, <2>3
<1> QED BY <1>3, <1>5, <1>6, <1>7, <1>8, <1>9 DEF NotesFit, fs, q

--------------------
(* The steps *)

LEMMA Arrives ==
  ASSUME NEW fs, NEW ns, NotesFit(fs, ns), frames' = fs, notes' = ns
  PROVE  NotesFit(frames, notes)'
<1>1. \A k : Upto(fs, ns, k) = Upto(frames, notes, k)' BY DEF Upto
<1>2. ASSUME NEW k, NEW m, Owns(fs[k], ns, m) PROVE Owns(frames[k], notes, m)'
  <2>1. Refers(fs[k].nodes, ns, fs[k].noteCount + 1, m) BY <1>2 DEF Owns
  <2>2. Refers(frames[k].nodes, notes, frames[k].noteCount + 1, m)' BY <2>1 DEF Refers
  <2> QED BY <1>2, <2>2 DEF Owns
<1> QED BY <1>1, <1>2 DEF NotesFit

\* The parser goes on, and what it has gathered still refers to the same notes.
LEMMA MovesOnNotes ==
  ASSUME IInv, NInv, NEW q \in Frame, Continues(q, Top),
         Shape[Top.rule] # "leaf",
         Refers(q.nodes, notes, q.noteCount + 1, Len(notes)),
         frames' = Replaced(q), notes' = notes, successes' = successes, page' = page
  PROVE  NInv'
<1>1. NotesFit(Replaced(q), notes) BY ReplacedNotes
<1>2. NotesFit(frames, notes)' BY <1>1, Arrives
<1>3. SuccessesPlain' BY DEF NInv, SuccessesPlain, PlainNodes
<1>4. Len(Replaced(q)) = Len(frames) BY StackIs DEF Replaced
<1> QED BY <1>2, <1>3, <1>4 DEF NInv

\* The innermost attempt fails, and its notes go with it.
LEMMA FailNotes ==
  ASSUME IInv, NInv, Len(frames) > 1, NEW error \in ErrorKind,
         frames' = Returned(Failed(frames[Len(frames) - 1], error)),
         notes' = SubSeq(notes, 1, Top.noteCount),
         successes' = successes, page' = page
  PROVE  NInv'
<1> DEFINE p == frames[Len(frames) - 1]
           q == Failed(p, error)
           ns == SubSeq(notes, 1, Top.noteCount)
<1>1. p \in Frame /\ Len(frames) - 1 \in 1..Len(frames) /\ Len(frames) \in Nat
      /\ (Len(frames) - 1) + 1 = Len(frames)
  BY ParentFrame, StackIs
<1>2. q \in Frame /\ Continues(q, p) /\ q.nodes = p.nodes
  BY <1>1, FailedFrame DEF Failed, Continues, Frame
<1>3. ns \in Seq(Note) /\ Len(ns) = Top.noteCount /\ \A i \in 1..Top.noteCount : ns[i] = notes[i]
  <2>1. Top.noteCount \in Nat /\ Top.noteCount <= Len(notes) /\ notes \in Seq(Note)
    BY StackIs DEF Frame
  <2> QED BY <2>1
<1>4. Owns(p, notes, Top.noteCount)
  <2>1. Owns(p, notes, Upto(frames, notes, Len(frames) - 1)) BY <1>1, StackIs
  <2>2. \A n \in Nat : n - 1 # n OBVIOUS
  <2>3. Len(frames) - 1 # Len(frames) /\ Top = frames[(Len(frames) - 1) + 1] BY <1>1, <2>2, StackIs
  <2> QED BY <2>1, <2>3 DEF Upto
<1>5. Refers(q.nodes, ns, q.noteCount + 1, Len(ns)) /\ (q.zone = "note" => Len(ns) = q.noteCount)
  <2>1. p.noteCount \in Nat /\ Top.noteCount \in Nat BY <1>1, StackIs DEF Frame
  <2>2. \A i \in (p.noteCount + 1)..Top.noteCount : ns[i] = notes[i] BY <1>3, <2>1
  <2> HIDE DEF p, q, ns
  <2>3. Refers(p.nodes, ns, p.noteCount + 1, Top.noteCount) BY <1>4, <2>2, SameReferred DEF Owns
  <2> QED BY <1>2, <1>3, <1>4, <2>3 DEF Owns, Continues
<1>6. Top.noteCount <= Len(ns)
  <2>1. Top.noteCount \in Nat BY StackIs DEF Frame
  <2> HIDE DEF ns
  <2> QED BY <1>3, <2>1
<1>7. NotesFit(Returned(q), ns) BY <1>2, <1>3, <1>5, <1>6, ReturnedNotes
<1>8. NotesFit(frames, notes)' BY <1>7, Arrives
<1>9. SuccessesPlain' BY DEF NInv, SuccessesPlain, PlainNodes
<1>10. page' # "ok" BY <1>1 DEF NInv
<1> QED BY <1>8, <1>9, <1>10 DEF NInv

LEMMA FailingNotes ==
  ASSUME IInv, NInv,
         \/ RefuseNested \/ MeetBreak \/ MeetNoteEnd \/ MeetEnd \/ KnownWalk \/ TooDeep
         \/ FallbackTooDeep \/ RunOffEnd \/ CloseRejected
  PROVE  NInv'
<1>1. Top \in Frame BY StackIs
<1>2. \A i : [Top EXCEPT !.pos = i].noteCount = Top.noteCount BY <1>1 DEF Frame
<1>3. \A f, error, top : Fail(f, error, top) =>
         /\ Len(frames) > 1 /\ frames' = Returned(Failed(frames[Len(frames) - 1], error))
         /\ notes' = SubSeq(notes, 1, f.noteCount)
         /\ successes' = successes /\ page' = page
  BY DEF Fail, Restored
<1>4. /\ RefuseNested \/ MeetBreak \/ MeetNoteEnd => Fail(Top, "failed", peak)
      /\ MeetEnd \/ RunOffEnd => Fail(Top, "end", peak)
      /\ TooDeep => Fail(Top, "depth", Larger(peak, MaxDepth + 1))
      /\ FallbackTooDeep => Fail([Top EXCEPT !.pos = @ + 1], "depth", peak)
      /\ KnownWalk => \E top : Fail([Top EXCEPT !.pos = Len(input) + 1], "end", top)
  BY DEF RefuseNested, MeetBreak, MeetNoteEnd, MeetEnd, RunOffEnd, TooDeep, FallbackTooDeep,
    KnownWalk
<1>5. CloseRejected =>
         /\ Len(frames) > 1 /\ frames' = Returned(Failed(frames[Len(frames) - 1], "partial"))
         /\ notes' = SubSeq(notes, 1, Top.noteCount)
         /\ successes' = successes /\ page' = page
  BY ClosingFrame DEF CloseRejected, Restored
<1>6. \E error \in ErrorKind :
         /\ Len(frames) > 1 /\ frames' = Returned(Failed(frames[Len(frames) - 1], error))
         /\ notes' = SubSeq(notes, 1, Top.noteCount)
         /\ successes' = successes /\ page' = page
  <2>1. ASSUME NEW f, NEW error \in ErrorKind, NEW top, Fail(f, error, top),
               f.noteCount = Top.noteCount
        PROVE  /\ Len(frames) > 1
               /\ frames' = Returned(Failed(frames[Len(frames) - 1], error))
               /\ notes' = SubSeq(notes, 1, Top.noteCount)
               /\ successes' = successes /\ page' = page
    BY <1>3, <2>1
  <2> QED BY <1>2, <1>4, <1>5, <2>1 DEF ErrorKind
<1> QED BY <1>6, FailNotes

\* The parser goes on with what it has.
LEMMA SteadyNotes ==
  ASSUME IInv, NInv,
         StepBreak \/ Consume \/ RejectedBefore \/ FailedBefore
         \/ BlockEndedBefore \/ BlockTooDeepBefore
  PROVE  NInv'
<1>1. Top \in Frame /\ Owns(Top, notes, Len(notes)) BY StackIs
<1>2. notes' = notes /\ successes' = successes /\ page' = page
  BY DEF StepBreak, Consume, RejectedBefore, FailedBefore, BlockEndedBefore, BlockTooDeepBefore,
    memos
<1>6. Shape[Top.rule] # "leaf"
  <2>1. CASE StepBreak \/ Consume
    BY <2>1, RuleEngineAssumption DEF StepBreak, Consume, Enters, AtToken, BodyGoesOn, BodyCloses
  <2>2. CASE RejectedBefore \/ FailedBefore \/ BlockEndedBefore \/ BlockTooDeepBefore
    BY <1>1, <2>2 DEF RejectedBefore, FailedBefore, BlockEndedBefore, BlockTooDeepBefore, Fresh,
      Calling, Owns
  <2> QED BY <2>1, <2>2
<1>3. \A q : q.nodes = Top.nodes /\ Continues(q, Top)
               => Refers(q.nodes, notes, q.noteCount + 1, Len(notes))
  BY <1>1 DEF Owns, Continues
<1>4. CASE StepBreak \/ Consume
  <2>1. PICK q : /\ frames' = Replaced(q) /\ q.nodes = Top.nodes /\ Continues(q, Top)
                 /\ \/ q = [Top EXCEPT !.pos = @ + 1]
                    \/ q = [Top EXCEPT !.depth = @ + 1, !.phase = "rules",
                              !.visited = IF AsksWalk THEN @ \cup {Top.pos} ELSE @]
    BY <1>1, <1>4 DEF StepBreak, Consume, Frame, Continues
  <2>2. q \in Frame
    <3>1. frames' = Replaced(q) /\ IInv' BY <1>4, <2>1, StepBreakKeeps, ConsumeKeeps
    <3>2. Len(frames) \in 1..Len(frames') /\ frames' \in Seq(Frame) /\ frames'[Len(frames)] = q
      BY <3>1, StackIs DEF Replaced, IInv, Stack
    <3> QED BY <3>2
  <2> QED BY <1>2, <1>3, <1>6, <2>1, <2>2, MovesOnNotes
<1>5. CASE RejectedBefore \/ FailedBefore \/ BlockEndedBefore \/ BlockTooDeepBefore
  <2>1. PICK error : frames' = Replaced(Failed(Top, error))
    BY <1>5 DEF RejectedBefore, FailedBefore, BlockEndedBefore, BlockTooDeepBefore
  <2> DEFINE q == Failed(Top, error)
  <2>2. q.nodes = Top.nodes /\ Continues(q, Top) BY <1>1 DEF Failed, Continues, Frame
  <2>3. q \in Frame
    <3>1. frames' = Replaced(q) /\ IInv'
      BY <1>5, <2>1, RejectedBeforeKeeps, FailedBeforeKeeps, BlockBeforeKeeps
    <3> HIDE DEF q
    <3>2. Len(frames) \in 1..Len(frames') /\ frames' \in Seq(Frame) /\ frames'[Len(frames)] = q
      BY <3>1, StackIs DEF Replaced, IInv, Stack
    <3> QED BY <3>2
  <2> HIDE DEF q
  <2>4. frames' = Replaced(q) BY <2>1 DEF q
  <2> QED BY <1>2, <1>3, <1>6, <2>2, <2>3, <2>4, MovesOnNotes
<1> QED BY <1>4, <1>5

\* Text, and what a remembered success brings, refer to no notes.
LEMMA AppendingNotes ==
  ASSUME IInv, NInv, SucceededBefore \/ Fallback PROVE NInv'
<1>1. /\ Top \in Frame /\ Owns(Top, notes, Len(notes)) /\ Top.noteCount <= Len(notes)
      /\ Len(notes) \in Nat
  BY StackIs
<1>2. notes' = notes /\ successes' = successes /\ page' = page
  BY DEF SucceededBefore, Fallback, memos
<1>3. PICK to, nodes, errors :
         /\ frames' = Replaced(Consumed(Top, to, nodes, errors))
         /\ nodes \in Nodes /\ PlainNodes(nodes)
  <2>1. CASE SucceededBefore
    <3>1. PICK key \in SuccessEntry :
             frames' = Replaced(Consumed(Top, Top.pos + successes[key].length,
                                         successes[key].nodes, successes[key].errors))
      BY <2>1 DEF SucceededBefore
    <3>2. key \in DOMAIN successes BY DEF SuccessEntry, Usable
    <3>3. successes[key].nodes \in Nodes BY <3>2 DEF IInv, MemosOK, Memo, SuccessEntries
    <3> QED BY <3>1, <3>2, <3>3 DEF NInv, SuccessesPlain
  <2>2. CASE Fallback
    <3>1. frames' = Replaced(Consumed(Top, Top.pos + 1, <<Node("text", Page, Top.pos)>>,
                                      ToSet(Top.tried)))
      BY <2>2 DEF Fallback
    <3>2. <<Node("text", Page, Top.pos)>> \in Nodes
      BY <1>1, RuleEngineAssumption DEF Node, Nodes, Frame
    <3>3. PlainNodes(<<Node("text", Page, Top.pos)>>) BY DEF PlainNodes, Node
    <3> QED BY <3>1, <3>2, <3>3
  <2> QED BY <2>1, <2>2
<1> DEFINE q == Consumed(Top, to, nodes, errors)
<1>4. q.nodes = Top.nodes \o nodes /\ Continues(q, Top) BY <1>1 DEF Consumed, Continues, Frame
<1>5. q \in Frame
  <2>1. frames' = Replaced(q) /\ IInv' BY <1>3, SucceededBeforeKeeps, FallbackKeeps
  <2> HIDE DEF q
  <2>2. Len(frames) \in 1..Len(frames') /\ frames' \in Seq(Frame) /\ frames'[Len(frames)] = q
    BY <2>1, StackIs DEF Replaced, IInv, Stack
  <2> QED BY <2>2
<1>6. Refers(q.nodes, notes, q.noteCount + 1, Len(notes))
  <2>1. Top.nodes \in Nodes /\ Top.noteCount \in Nat BY <1>1 DEF Frame
  <2>2. Refers(Top.nodes, notes, Top.noteCount + 1, Len(notes)) BY <1>1 DEF Owns
  <2>3. Refers(Top.nodes \o nodes, notes, Top.noteCount + 1, Len(notes))
    BY <1>1, <1>3, <2>1, <2>2, PlainBehind
  <2> QED BY <1>4, <2>3 DEF Continues
<1>7. frames' = Replaced(q) BY <1>3
<1>8. Shape[Top.rule] # "leaf" BY <1>1 DEF SucceededBefore, Fallback, Calling, Owns
<1> HIDE DEF q
<1> QED BY <1>2, <1>4, <1>5, <1>6, <1>7, <1>8, MovesOnNotes

LEMMA StartRuleNotes ==
  ASSUME IInv, NInv, StartRule PROVE NInv'
<1>1. NextRule \in Rule /\ Top \in Frame /\ Placed(Top, Len(frames)) /\ Top.phase = "rules"
      /\ Len(frames) \in Nat \ {0} /\ Top.noteCount <= Len(notes)
  BY NextRuleType, StackIs DEF StartRule, Fresh
<1>2. NextRule # Page
  <2>1. Top.pos \in Pos /\ input \in Seq(Token) /\ Len(Top.tried) \in Nat BY <1>1 DEF Frame, IInv
  <2>2. Here # "end" BY <2>1 DEF StartRule, Fresh, Untried, Rules
  <2>3. Here \in Token BY <2>1, <2>2 DEF Here, Tok, Pos
  <2>4. Rules(Here) = RulesOf[Here] /\ RulesOf[Here] \in Seq(Rule)
    BY <2>2, <2>3, RuleEngineAssumption DEF Rules
  <2>5. Len(Top.tried) + 1 \in DOMAIN RulesOf[Here] BY <2>1, <2>4 DEF StartRule, Fresh, Untried
  <2> QED BY <2>3, <2>4, <2>5, RuleEngineAssumption DEF NextRule
<1>3. Clone(Top, NextRule) \in Frame BY <1>1, CloneFrame
<1>4. NotesFit(Append(frames, Clone(Top, NextRule)), notes) BY <1>1, <1>2, <1>3, ClonedNotes
<1>5. /\ frames' = Append(frames, Clone(Top, NextRule)) /\ notes' = notes
      /\ successes' = successes /\ page' = page /\ page = "parsing"
  BY DEF StartRule, Fresh, Calling, memos
<1>6. NotesFit(frames, notes)' BY <1>4, <1>5, Arrives
<1>7. SuccessesPlain' BY <1>5 DEF NInv, SuccessesPlain, PlainNodes
<1> QED BY <1>5, <1>6, <1>7 DEF NInv

\* What a finished rule leaves refers to the notes it has registered, its own last.
LEMMA ResultReferred ==
  ASSUME IInv, NInv, Len(frames) > 1, ~Nested(Top)
  PROVE  LET p  == frames[Len(frames) - 1]
             ns == Registered(Top)
         IN  /\ ns \in Seq(Note) /\ Top.noteCount <= Len(ns)
             /\ \A i \in 1..Top.noteCount : ns[i] = notes[i]
             /\ Refers(Result(Top), ns, Top.noteCount + 1, Len(ns))
             /\ p.zone = "note" => Len(ns) = Top.noteCount
             /\ Len(ns) = Top.noteCount => PlainNodes(Result(Top))
<1> DEFINE p == frames[Len(frames) - 1]
           ns == Registered(Top)
           n == [at |-> Top.start, nodes |-> Top.nodes]
<1>1. /\ Top \in Frame /\ notes \in Seq(Note) /\ Len(notes) \in Nat
      /\ Top.noteCount \in Nat /\ Top.noteCount <= Len(notes)
      /\ Top.nodes \in Nodes /\ Top.start \in Pos /\ Top.pos \in Pos /\ Top.rule \in Rule
      /\ Owns(Top, notes, Len(notes))
      /\ Result(Top) \in Nodes
  BY StackIs, ResultType DEF Frame
<1>2. p.zone = "note" => Top.zone = "note"
  <2>1. /\ Len(frames) - 1 \in 1..(Len(frames) - 1)
        /\ (Len(frames) - 1) + 1 = Len(frames) /\ Top = frames[Len(frames)]
    BY StackIs
  <2> QED BY <2>1 DEF NInv, NotesFit
<1>3. CASE Shape[Top.rule] = "note"
  <2>1. Top.noteCount = Len(notes) /\ p.zone # "note" BY <1>1, <1>3 DEF Owns, Nested
  <2>2. n \in Note BY <1>1 DEF Note
  <2>3. ns = Append(notes, n) BY <1>3 DEF Registered
  <2>4. n.at = Top.start OBVIOUS
  <2> HIDE DEF n, ns
  <2>5. /\ ns \in Seq(Note) /\ Len(ns) = Len(notes) + 1 /\ ns[Len(notes) + 1] = n
        /\ \A i \in 1..Len(notes) : ns[i] = notes[i]
    BY <1>1, <2>2, <2>3
  <2>6. /\ Len(Result(Top)) = 1 /\ Result(Top)[1].part = "note"
        /\ Result(Top)[1].at = Top.start
    BY <1>3 DEF Result, Node
  <2>7. Refers(Result(Top), ns, Len(notes) + 1, Len(notes) + 1)
    BY <1>1, <2>4, <2>5, <2>6, OneReferred
  <2>8. Len(ns) # Top.noteCount /\ Top.noteCount <= Len(ns) BY <1>1, <2>1, <2>5
  <2> QED BY <1>1, <2>1, <2>5, <2>7, <2>8 DEF ns
<1>4. CASE Shape[Top.rule] # "note"
  <2>1. ns = notes BY <1>4 DEF Registered
  <2>2. p.zone = "note" => Len(notes) = Top.noteCount BY <1>1, <1>2 DEF Owns
  <2>3. Refers(Top.nodes, notes, Top.noteCount + 1, Len(notes)) BY <1>1 DEF Owns
  <2>4. Refers(Result(Top), notes, Top.noteCount + 1, Len(notes))
    <3>1. CASE Shape[Top.rule] = "leaf"
      <4>1. Len(notes) = Top.noteCount BY <1>1, <3>1 DEF Owns
      <4>2. PlainNodes(Result(Top)) BY <3>1 DEF Result, PlainNodes, Node
      <4> QED BY <1>1, <4>1, <4>2, NothingReferred
    <3>2. CASE Shape[Top.rule] # "leaf"
      <4> DEFINE o == <<Node("open", Top.rule, Top.start)>>
                 c == <<Node("close", Top.rule, Top.pos)>>
      <4>1. o \in Nodes /\ PlainNodes(o) /\ c \in Nodes /\ PlainNodes(c)
        BY <1>1 DEF Node, Nodes, PlainNodes
      <4>2. Result(Top) = (o \o Top.nodes) \o c BY <1>4, <3>2 DEF Result
      <4> HIDE DEF o, c
      <4>3. o \o Top.nodes \in Nodes BY <1>1, <4>1 DEF Nodes
      <4>4. Refers(o, notes, Top.noteCount + 1, Top.noteCount) BY <1>1, <4>1, NothingReferred
      <4>5. Refers(o \o Top.nodes, notes, Top.noteCount + 1, Len(notes))
        BY <1>1, <2>3, <4>1, <4>4, BothReferred
      <4> QED BY <1>1, <4>1, <4>2, <4>3, <4>5, PlainBehind
    <3> QED BY <3>1, <3>2
  <2>5. Len(notes) = Top.noteCount => PlainNodes(Result(Top))
    <3>1. ASSUME Len(notes) = Top.noteCount
          PROVE  Refers(Result(Top), notes, Top.noteCount + 1, Top.noteCount)
      BY <2>4, <3>1
    <3> QED BY <1>1, <3>1, NoneReferred
  <2> QED BY <1>1, <2>1, <2>2, <2>4, <2>5
<1> QED BY <1>3, <1>4

\* The parent takes the elements, and the registry what the attempt registered; what
\* is remembered registered nothing.
LEMMA CloseAcceptedNotes ==
  ASSUME IInv, NInv, CloseAccepted PROVE NInv'
<1> DEFINE p == frames[Len(frames) - 1]
           q == Consumed(p, EndOf(Top), Result(Top), Top.errors)
           ns == Registered(Top)
           o == Outcome(Top, p)
<1>1. Len(frames) > 1 /\ ~Nested(Top) BY ClosingFrame DEF CloseAccepted
<1>2. /\ p \in Frame /\ Len(frames) - 1 \in 1..Len(frames) /\ Len(frames) \in Nat
      /\ (Len(frames) - 1) + 1 = Len(frames) /\ Follows(p, Top) /\ Top \in Frame
      /\ Top = frames[Len(frames)]
  BY <1>1, ParentFrame, StackIs
<1>3. /\ frames' = Returned(q) /\ notes' = ns /\ page' = page
      /\ \/ successes' = successes
         \/ /\ Len(ns) = Top.noteCount
            /\ successes' = Remember(successes, Key(Top.rule, p, p.pos), p.depth, o)
  BY DEF CloseAccepted
<1>4. q \in Frame
  <2>1. /\ Returned(q) \in Seq(Frame)
        /\ Returned(q) = Append(SubSeq(frames, 1, Len(frames) - 2), q)
    BY <1>3, CloseAcceptedKeeps DEF IInv, Stack, Returned
  <2> DEFINE s == SubSeq(frames, 1, Len(frames) - 2)
  <2>2. s \in Seq(Frame)
    <3>1. frames \in Seq(Frame) /\ Len(frames) - 2 \in Nat BY <1>1, StackIs
    <3> QED BY <3>1
  <2>3. Append(s, q) \in Seq(Frame) BY <2>1
  <2> HIDE DEF s, q
  <2>4. Len(s) + 1 \in 1..Len(Append(s, q)) /\ Append(s, q)[Len(s) + 1] = q BY <2>2
  <2> QED BY <2>3, <2>4
<1>5. q.nodes = p.nodes \o Result(Top) /\ Continues(q, p) BY <1>2 DEF Consumed, Continues, Frame
<1>6. /\ ns \in Seq(Note) /\ Top.noteCount <= Len(ns)
      /\ \A i \in 1..Top.noteCount : ns[i] = notes[i]
      /\ Refers(Result(Top), ns, Top.noteCount + 1, Len(ns))
      /\ p.zone = "note" => Len(ns) = Top.noteCount
      /\ Len(ns) = Top.noteCount => PlainNodes(Result(Top))
  BY <1>1, ResultReferred
<1>7. /\ p.noteCount \in Nat /\ Top.noteCount \in Nat /\ Len(ns) \in Nat
      /\ p.nodes \in Nodes /\ Result(Top) \in Nodes /\ p.noteCount <= Top.noteCount
  <2>1. Result(Top) \in Nodes BY <1>2, ResultType
  <2>2. Len(ns) \in Nat BY <1>6
  <2>3. p.noteCount \in Nat /\ p.nodes \in Nodes /\ Top.noteCount \in Nat BY <1>2 DEF Frame
  <2> QED BY <1>2, <2>1, <2>2, <2>3 DEF Follows
<1>8. Owns(p, notes, Top.noteCount)
  <2>1. Owns(p, notes, Upto(frames, notes, Len(frames) - 1)) BY <1>2, StackIs
  <2>2. \A n \in Nat : n - 1 # n OBVIOUS
  <2>3. Len(frames) - 1 # Len(frames) BY <1>2, <2>2
  <2> QED BY <1>2, <2>1, <2>3 DEF Upto
<1> HIDE DEF p, ns
<1>9. Refers(q.nodes, ns, q.noteCount + 1, Len(ns))
  <2>1. \A i \in (p.noteCount + 1)..Top.noteCount : ns[i] = notes[i] BY <1>6, <1>7
  <2>2. Refers(p.nodes, ns, p.noteCount + 1, Top.noteCount) BY <1>8, <2>1, SameReferred DEF Owns
  <2>3. Refers(p.nodes \o Result(Top), ns, p.noteCount + 1, Len(ns))
    BY <1>6, <1>7, <2>2, BothReferred
  <2> QED BY <1>5, <2>3 DEF Continues
<1>10. q.zone = "note" => Len(ns) = q.noteCount BY <1>5, <1>6, <1>8 DEF Owns, Continues
<1> HIDE DEF q
<1>11. NotesFit(Returned(q), ns) BY <1>1, <1>4, <1>5, <1>6, <1>9, <1>10, ReturnedNotes DEF p
<1>12. NotesFit(frames, notes)' BY <1>3, <1>11, Arrives
<1>13. SuccessesPlain'
  <2>1. o.nodes = Result(Top) BY DEF Outcome
  <2> DEFINE k == Stored(Key(Top.rule, p, p.pos), p.depth, o.height)
             m == With(successes, {k}, o)
  <2>2. Len(ns) = Top.noteCount => \A key \in DOMAIN m : PlainNodes(m[key].nodes)
    <3> HIDE DEF k, o
    <3>1. DOMAIN m = {k} \cup DOMAIN successes
          /\ \A key \in DOMAIN m : m[key] = IF key \in {k} THEN o ELSE successes[key]
      BY DEF With
    <3> HIDE DEF m
    <3> QED BY <1>6, <2>1, <3>1 DEF NInv, SuccessesPlain
  <2>3. successes' = successes \/ (Len(ns) = Top.noteCount /\ successes' = m) BY <1>3 DEF Remember
  <2> HIDE DEF m
  <2>4. \A key \in DOMAIN successes' : PlainNodes(successes'[key].nodes)
    BY <2>2, <2>3 DEF NInv, SuccessesPlain
  <2> QED BY <2>4 DEF SuccessesPlain, PlainNodes
<1>14. page' # "ok"
  <2>1. \A n \in Nat : n > 1 => n # 1 OBVIOUS
  <2> QED BY <1>1, <1>2, <1>3, <2>1 DEF NInv
<1> QED BY <1>12, <1>13, <1>14 DEF NInv

\* The page's own parser is the only one without a parent.
LEMMA PageNotes ==
  ASSUME IInv, NInv, FinishPage \/ PageTooDeep PROVE NInv'
<1>1. frames' = frames /\ notes' = notes /\ successes' = successes
  BY DEF FinishPage, PageTooDeep, FailPage, memos
<1>2. NotesFit(frames, notes)' /\ SuccessesPlain'
  BY <1>1, Arrives DEF NInv, SuccessesPlain, PlainNodes
<1>3. CASE FinishPage
  <2>1. Top.rule = Page BY <1>3 DEF FinishPage
  <2>2. Len(frames) \in Nat \ {0} /\ Top = frames[Len(frames)] BY StackIs
  <2>3. Len(frames) \notin 2..Len(frames) BY <2>1, <2>2 DEF NInv, NotesFit
  <2>4. \A n \in Nat \ {0} : n \notin 2..n => n = 1 OBVIOUS
  <2>5. Len(frames) = 1 BY <2>2, <2>3, <2>4
  <2> QED BY <1>1, <1>2, <2>5 DEF NInv
<1>4. CASE PageTooDeep BY <1>2, <1>4 DEF NInv, PageTooDeep, FailPage
<1> QED BY <1>3, <1>4

--------------------
(* The invariant *)

LEMMA StartsFit == Starts => NInv
<1> SUFFICES ASSUME Starts PROVE NInv OBVIOUS
<1>1. frames = <<PageFrame>> /\ notes = << >> /\ successes = << >> /\ page = "parsing" BY DEF Starts
<1>2. /\ Len(frames) = 1 /\ frames[1] = PageFrame /\ Len(notes) = 0
      /\ PageFrame.noteCount = 0 /\ PageFrame.zone = "page" /\ PageFrame.nodes = << >>
      /\ PageFrame.rule = Page
  BY <1>1 DEF PageFrame
<1>3. Shape[Page] = "page" BY RuleEngineAssumption
<1>4. Owns(frames[1], notes, 0)
  <2>1. << >> \in Nodes /\ PlainNodes(<< >>) BY DEF Nodes, PlainNodes
  <2>2. Refers(<< >>, notes, 0 + 1, 0) BY <2>1, NothingReferred
  <2> QED BY <1>2, <1>3, <2>2 DEF Owns
<1>5. NotesFit(frames, notes)
  <2>1. 1..1 = {1} /\ 1..(1 - 1) = {} /\ 2..1 = {} OBVIOUS
  <2> QED BY <1>2, <1>4, <2>1 DEF NotesFit, Upto
<1>6. SuccessesPlain BY <1>1 DEF SuccessesPlain
<1> QED BY <1>1, <1>5, <1>6 DEF NInv

LEMMA NotesStep ==
  ASSUME IInv, NInv, [Next]_vars PROVE NInv'
<1>1. CASE UNCHANGED vars
  <2>1. frames' = frames /\ notes' = notes /\ successes' = successes /\ page' = page
    BY <1>1 DEF vars, memos
  <2> QED BY <2>1, Arrives DEF NInv, SuccessesPlain, PlainNodes
<1>2. CASE CloseAccepted BY <1>2, CloseAcceptedNotes
<1>3. CASE FinishPage \/ PageTooDeep BY <1>3, PageNotes
<1>4. CASE StartRule BY <1>4, StartRuleNotes
<1>5. CASE SucceededBefore \/ Fallback BY <1>5, AppendingNotes
<1>6. CASE StepBreak \/ Consume \/ RejectedBefore \/ FailedBefore
           \/ BlockEndedBefore \/ BlockTooDeepBefore
  BY <1>6, SteadyNotes
<1>7. CASE RefuseNested \/ MeetBreak \/ MeetNoteEnd \/ MeetEnd \/ KnownWalk \/ TooDeep
           \/ FallbackTooDeep \/ RunOffEnd \/ CloseRejected
  BY <1>7, FailingNotes
<1> QED BY <1>1, <1>2, <1>3, <1>4, <1>5, <1>6, <1>7 DEF Next

\* A page that was parsed refers to all its notes, in order.
LEMMA PageRefers ==
  ASSUME IInv, NInv, page = "ok" PROVE Refers(frames[1].nodes, notes, 1, Len(notes))
<1>1. Len(frames) = 1 /\ frames[1].noteCount = 0 BY DEF NInv, NotesFit
<1>2. Owns(frames[1], notes, Len(notes)) BY <1>1 DEF NInv, NotesFit, Upto
<1> QED BY <1>1, <1>2 DEF Owns

--------------------
(* The reference: what holds of all positions is shown from the end of the page, by    *)
(* the set of positions it holds at (FromTheEnd).                                      *)

\* A set of positions that holds a position once it holds all the later ones holds all.
LEMMA FromTheEnd ==
  ASSUME NEW n \in Nat, NEW S \in SUBSET (1..n),
         \A p \in 1..n : (\A q \in (p + 1)..n : q \in S) => p \in S
  PROVE  S = 1..n
<1> SUFFICES ASSUME (1..n) \ S # {} PROVE FALSE OBVIOUS
<1> DEFINE T == {m \in Nat : n - m \in (1..n) \ S}
<1>1. T \in SUBSET Nat /\ T # {}
  <2>1. PICK p \in 1..n : p \notin S OBVIOUS
  <2>2. n - p \in Nat /\ n - (n - p) = p OBVIOUS
  <2>3. n - p \in T BY <2>1, <2>2
  <2> QED BY <2>3
<1>2. \A m \in T : n - m \in 1..n /\ n - m \notin S OBVIOUS
<1>3. \A q \in 1..n : q \notin S => n - q \in T
  <2> TAKE q \in 1..n
  <2>1. n - q \in Nat /\ n - (n - q) = q OBVIOUS
  <2> QED BY <2>1
<1> HIDE DEF T
<1>4. PICK x \in T : \A y \in T : ~ (<<y, x>> \in OpToRel(<, Nat))
  BY <1>1, WFMin, NatLessThanWellFounded
<1>5. \A y \in T : ~ (y < x) BY <1>1, <1>4 DEF OpToRel
<1>6. x \in Nat /\ n - x \in 1..n /\ n - x \notin S BY <1>1, <1>2
<1>7. \A q \in ((n - x) + 1)..n : q \in S
  <2> SUFFICES ASSUME NEW q \in ((n - x) + 1)..n, q \notin S PROVE FALSE OBVIOUS
  <2>1. q \in 1..n /\ n - q < x BY <1>6
  <2>2. n - q \in T BY <1>3, <2>1
  <2> QED BY <1>5, <2>1, <2>2
<1> QED BY <1>6, <1>7

LEMMA BodiesSteps ==
  ASSUME NEW text, Len(text) \in Nat
  PROVE  \E f : f = [pos \in 1..(Len(text) + 1) |-> BodiesFrom(f, text, pos)]
<1> DEFINE n == Len(text) + 1
           S == {p \in 1..n : \E g : \A at \in p..n : g[at] = BodiesFrom(g, text, at)}
<1>1. n \in Nat /\ 1 \in 1..n OBVIOUS
<1>2. ASSUME NEW g, NEW h, NEW pos \in 1..n, \A at \in (pos + 1)..n : g[at] = h[at]
      PROVE  BodiesFrom(g, text, pos) = BodiesFrom(h, text, pos)
  <2>1. [at \in (pos + 1)..n |-> g[at]] = [at \in (pos + 1)..n |-> h[at]] BY <1>2
  <2> QED BY <2>1 DEF BodiesFrom
<1>3. ASSUME NEW p \in 1..n, \A q \in (p + 1)..n : q \in S PROVE p \in S
  <2>1. PICK g : \A at \in (p + 1)..n : g[at] = BodiesFrom(g, text, at)
    <3>1. CASE p = n
      <4>1. (p + 1)..n = {} BY <3>1, <1>1
      <4> QED BY <4>1
    <3>2. CASE p # n
      <4>1. p + 1 \in (p + 1)..n BY <3>2, <1>1
      <4> QED BY <1>3, <4>1
    <3> QED BY <3>1, <3>2
  <2> DEFINE h == [at \in 1..n |-> IF at = p THEN BodiesFrom(g, text, p) ELSE g[at]]
  <2>2. h[p] = BodiesFrom(g, text, p) /\ \A at \in (p + 1)..n : h[at] = g[at]
    <3>1. \A at \in (p + 1)..n : at \in 1..n /\ at # p OBVIOUS
    <3> QED BY <3>1
  <2> HIDE DEF h
  <2>3. ASSUME NEW at \in p..n PROVE h[at] = BodiesFrom(h, text, at)
    <3>1. at \in 1..n /\ \A k \in (at + 1)..n : k \in (p + 1)..n OBVIOUS
    <3>2. BodiesFrom(h, text, at) = BodiesFrom(g, text, at)
      <4>1. \A k \in (at + 1)..n : h[k] = g[k] BY <2>2, <3>1
      <4> HIDE DEF n
      <4> QED BY <1>2, <3>1, <4>1
    <3>3. h[at] = BodiesFrom(g, text, at)
      <4>1. CASE at = p BY <2>2, <4>1
      <4>2. CASE at # p
        <5>1. at \in (p + 1)..n BY <4>2
        <5> QED BY <2>1, <2>2, <5>1
      <4> QED BY <4>1, <4>2
    <3> QED BY <3>2, <3>3
  <2> QED BY <2>3
<1>4. S = 1..n
  <2> HIDE DEF n
  <2>1. S \in SUBSET (1..n) OBVIOUS
  <2> HIDE DEF S
  <2> QED BY <1>1, <1>3, <2>1, FromTheEnd
<1>5. PICK g : \A at \in 1..n : g[at] = BodiesFrom(g, text, at)
  <2>1. 1 \in S BY <1>1, <1>4
  <2> QED BY <2>1
<1> HIDE DEF S
<1> DEFINE f == [pos \in 1..n |-> BodiesFrom(g, text, pos)]
<1>6. ASSUME NEW pos \in 1..n PROVE BodiesFrom(f, text, pos) = BodiesFrom(g, text, pos)
  <2>1. \A at \in (pos + 1)..n : at \in 1..n OBVIOUS
  <2>2. \A at \in (pos + 1)..n : f[at] = g[at] BY <1>5, <2>1
  <2> HIDE DEF f, n
  <2> QED BY <1>2, <2>2
<1>7. f = [pos \in 1..n |-> BodiesFrom(f, text, pos)]
  <2> DEFINE h == [pos \in 1..n |-> BodiesFrom(f, text, pos)]
  <2>1. \A pos \in 1..n : f[pos] = h[pos] BY <1>6
  <2> QED BY <2>1
<1> QED BY <1>7

LEMMA BodiesAt ==
  ASSUME NEW text, Len(text) \in Nat, NEW pos \in 1..(Len(text) + 1)
  PROVE  RefBodies(text)[pos] =
            [c \in RefContexts |->
                RefBodyOf([at \in (pos + 1)..(Len(text) + 1) |-> RefBodies(text)[at]],
                          text, pos, c)]
<1> DEFINE Is(f) == f = [at \in 1..(Len(text) + 1) |-> BodiesFrom(f, text, at)]
<1>1. \E f : Is(f) BY BodiesSteps
<1>2. RefBodies(text) = CHOOSE f : Is(f) BY DEF RefBodies, BodiesFrom
<1> HIDE DEF Is
<1>3. Is(RefBodies(text)) BY <1>1, <1>2
<1>4. RefBodies(text)[pos] = BodiesFrom(RefBodies(text), text, pos) BY <1>3 DEF Is
<1> QED BY <1>4 DEF BodiesFrom

LEMMA BodiesAre ==
  ASSUME NEW text, Len(text) \in Nat, NEW pos \in 1..(Len(text) + 1),
         NEW c \in RefContexts
  PROVE  RefBody(text, pos, c) =
            RefBodyOf([at \in (pos + 1)..(Len(text) + 1) |-> RefBodies(text)[at]],
                      text, pos, c)
  BY BodiesAt DEF RefBody

LEMMA BodyIn ==
  ASSUME NEW text, NEW pos, NEW c PROVE RefBody(text, pos, c) = RefBodies(text)[pos][c]
  BY DEF RefBody

--------------------
(* The rules of a token, tried one after another *)

LEMMA LeastNumber ==
  ASSUME NEW S \in SUBSET Nat, S # {} PROVE \E x \in S : \A y \in S : x <= y
<1>1. PICK x \in S : \A y \in S : ~ (<<y, x>> \in OpToRel(<, Nat)) BY WFMin, NatLessThanWellFounded
<1>2. \A y \in S : ~ (y < x) BY <1>1 DEF OpToRel
<1> QED BY <1>2

LEMMA TopExists ==
  ASSUME NEW m \in Nat, NEW tops \in [1..m -> Nat], NEW k \in 0..m, NEW depth \in Nat
  PROVE  \E top \in Nat : IsTop(top, tops, k, depth)
<1> DEFINE S == {j \in Nat : j <= m => \E top \in Nat : IsTop(top, tops, j, depth)}
<1>1. 0 \in S
  <2>1. 1..0 = {} OBVIOUS
  <2>2. IsTop(depth, tops, 0, depth) BY <2>1 DEF IsTop
  <2> QED BY <2>2
<1>2. ASSUME NEW j \in S PROVE j + 1 \in S
  <2> SUFFICES ASSUME j + 1 <= m PROVE \E top \in Nat : IsTop(top, tops, j + 1, depth) OBVIOUS
  <2>1. PICK top \in Nat : IsTop(top, tops, j, depth) OBVIOUS
  <2>2. tops[j + 1] \in Nat /\ j + 1 \in 1..(j + 1) OBVIOUS
  <2>3. \A i \in 1..j : i \in 1..(j + 1) /\ tops[i] \in Nat OBVIOUS
  <2>4. \A i \in 1..(j + 1) : i \in 1..j \/ i = j + 1 OBVIOUS
  <2>5. CASE top >= tops[j + 1]
    <3>1. IsTop(top, tops, j + 1, depth) BY <2>1, <2>3, <2>4, <2>5 DEF IsTop
    <3> QED BY <3>1
  <2>6. CASE tops[j + 1] > top
    <3>1. \A i \in 1..j : tops[j + 1] >= tops[i] BY <2>1, <2>2, <2>3, <2>6 DEF IsTop
    <3>2. tops[j + 1] >= depth BY <2>1, <2>2, <2>6 DEF IsTop
    <3>3. IsTop(tops[j + 1], tops, j + 1, depth) BY <2>2, <2>4, <3>1, <3>2 DEF IsTop
    <3> QED BY <2>2, <3>3
  <2> QED BY <2>2, <2>5, <2>6
<1>3. S = Nat
  <2>1. ASSUME Nat \ S # {} PROVE FALSE
    <3>1. PICK x \in Nat \ S : \A y \in Nat \ S : x <= y
      <4> HIDE DEF S
      <4>1. Nat \ S \in SUBSET Nat OBVIOUS
      <4> QED BY ONLY <2>1, <4>1, LeastNumber
    <3> HIDE DEF S
    <3>2. x # 0 BY <1>1
    <3>3. x - 1 \in Nat /\ x - 1 < x /\ (x - 1) + 1 = x BY <3>2
    <3>4. x - 1 \in S BY <3>1, <3>3
    <3> QED BY <1>2, <3>3, <3>4
  <2> QED BY <2>1
<1>4. k \in S /\ k <= m
  <2> HIDE DEF S
  <2> QED BY <1>3
<1> QED BY <1>4

LEMMA TopOfTries ==
  ASSUME NEW F, NEW m \in Nat, TopsOf(F, m) \in [1..m -> Nat],
         NEW k \in 0..m, NEW depth \in Nat
  PROVE  /\ RefTopOf(TriesOf(F, k), depth) \in Nat
         /\ IsTop(RefTopOf(TriesOf(F, k), depth), TopsOf(F, m), k, depth)
<1> DEFINE T == TriesOf(F, k)
           Is(top) == \A t \in T : top >= t.of.top /\ top >= depth
           V == {depth} \cup {t.of.top : t \in T}
<1>1. \A i \in 1..k : F[i].top = TopsOf(F, m)[i] /\ TopsOf(F, m)[i] \in Nat BY DEF TopsOf
<1>2. PICK best \in Nat : IsTop(best, TopsOf(F, m), k, depth) BY TopExists
<1>3. \A t \in T : \E i \in 1..k : t.of.top = F[i].top BY DEF TriesOf
<1>4. \A i \in 1..k : \E t \in T : t.of.top = F[i].top
  <2> TAKE i \in 1..k
  <2>1. [turn |-> i, of |-> F[i]] \in T BY DEF TriesOf
  <2> QED BY <2>1
<1> HIDE DEF T
<1>5. best \in V /\ Is(best)
  <2>1. best \in V
    <3>1. CASE best = depth BY <3>1
    <3>2. CASE \E i \in 1..k : best = TopsOf(F, m)[i]
      <4>1. PICK i \in 1..k : best = F[i].top BY <1>1, <3>2
      <4>2. PICK t \in T : t.of.top = F[i].top BY <1>4
      <4> QED BY <4>1, <4>2
    <3> QED BY <1>2, <3>1, <3>2 DEF IsTop
  <2>2. ASSUME NEW t \in T PROVE best >= t.of.top /\ best >= depth
    <3>1. PICK i \in 1..k : t.of.top = F[i].top BY <1>3
    <3>2. t.of.top = TopsOf(F, m)[i] BY <1>1, <3>1
    <3> QED BY <1>2, <3>2 DEF IsTop
  <2> QED BY <2>1, <2>2
<1>6. RefTopOf(T, depth) = CHOOSE top \in V : Is(top) BY DEF RefTopOf
<1> HIDE DEF V, Is
<1>7. RefTopOf(T, depth) \in V /\ Is(RefTopOf(T, depth)) BY <1>5, <1>6
<1>8. \A i \in 1..k : RefTopOf(T, depth) >= TopsOf(F, m)[i] BY <1>1, <1>4, <1>7 DEF Is
<1>9. RefTopOf(T, depth) = depth \/ \E i \in 1..k : RefTopOf(T, depth) = TopsOf(F, m)[i]
  BY <1>1, <1>3, <1>7 DEF V
<1>10. RefTopOf(T, depth) \in Nat BY <1>1, <1>9
<1>11. RefTopOf(T, depth) >= depth
  <2>1. CASE k = 0
    <3>1. 1..k = {} BY <2>1
    <3> QED BY <1>9, <3>1
  <2>2. CASE k # 0
    <3>1. 1 \in 1..k BY <2>2
    <3>2. PICK t \in T : TRUE BY <1>4, <3>1
    <3> QED BY <1>7, <3>2 DEF Is
  <2> QED BY <2>1, <2>2
<1> QED BY <1>8, <1>9, <1>10, <1>11 DEF IsTop, T

\* The first try that succeeds is taken, if none before it did.
LEMMA TakenWon ==
  ASSUME NEW F, NEW m \in Nat, TopsOf(F, m) \in [1..m -> Nat],
         NEW text, NEW pos, NEW c, c.depth \in Nat,
         NEW k \in 1..m, RefWon(F[k]), \A j \in 1..(k - 1) : ~RefWon(F[j])
  PROVE  \E top \in Nat :
            /\ IsTop(top, TopsOf(F, m), k, c.depth)
            /\ RefTaken(TriesOf(F, m), text, pos, c) = [F[k] EXCEPT !.top = top]
<1> DEFINE T == TriesOf(F, m)
           won == {t \in T : RefWon(t.of)}
           first == [turn |-> k, of |-> F[k]]
<1>1. first \in won BY DEF TriesOf
<1>2. ASSUME NEW t \in won PROVE t.turn \in k..m /\ t = [turn |-> t.turn, of |-> F[t.turn]]
  <2>1. PICK i \in 1..m : t = [turn |-> i, of |-> F[i]] BY DEF TriesOf
  <2>2. t.turn = i /\ RefWon(F[i]) BY <2>1
  <2>3. i \notin 1..(k - 1) BY <2>2
  <2> QED BY <2>1, <2>2, <2>3
<1> HIDE DEF won
<1>3. RefEarliest(won) = first
  <2> DEFINE Is(t) == \A u \in won : t.turn <= u.turn
  <2>1. Is(first) BY <1>2
  <2>2. \A t \in won : Is(t) => t = first
    <3> SUFFICES ASSUME NEW t \in won, Is(t) PROVE t = first OBVIOUS
    <3>1. t.turn <= k BY <1>1
    <3>2. t.turn = k BY <1>2, <3>1
    <3> QED BY <1>2, <3>2
  <2>3. RefEarliest(won) = CHOOSE t \in won : Is(t) BY DEF RefEarliest
  <2> HIDE DEF Is, first
  <2> QED BY <1>1, <2>1, <2>2, <2>3
<1>4. {t \in T : t.turn <= k} = TriesOf(F, k)
  <2>1. ASSUME NEW t \in T, t.turn <= k PROVE t \in TriesOf(F, k)
    <3>1. PICK i \in 1..m : t = [turn |-> i, of |-> F[i]] BY DEF TriesOf
    <3>2. i \in 1..k BY <2>1, <3>1
    <3> QED BY <3>1, <3>2 DEF TriesOf
  <2>2. ASSUME NEW t \in TriesOf(F, k) PROVE t \in T /\ t.turn <= k
    <3>1. PICK i \in 1..k : t = [turn |-> i, of |-> F[i]] BY DEF TriesOf
    <3>2. i \in 1..m OBVIOUS
    <3> QED BY <3>1, <3>2 DEF TriesOf
  <2> QED BY <2>1, <2>2
<1> DEFINE top == RefTopOf(TriesOf(F, k), c.depth)
<1>5. top \in Nat /\ IsTop(top, TopsOf(F, m), k, c.depth)
  <2>1. k \in 0..m OBVIOUS
  <2> QED BY <2>1, TopOfTries
<1>6. RefTaken(T, text, pos, c) = [F[k] EXCEPT !.top = top]
  <2>1. won # {} BY <1>1
  <2>2. RefEarliest(won).of = F[k] /\ RefEarliest(won).turn = k BY <1>3
  <2>3. RefTaken(T, text, pos, c) =
          [RefEarliest(won).of EXCEPT
              !.top = RefTopOf({t \in T : t.turn <= RefEarliest(won).turn}, c.depth)]
    BY <2>1 DEF RefTaken, won
  <2> HIDE DEF won, T
  <2> QED BY <1>4, <2>2, <2>3
<1> QED BY <1>5, <1>6

LEMMA TakenLost ==
  ASSUME NEW F, NEW m \in Nat, TopsOf(F, m) \in [1..m -> Nat],
         NEW text, NEW pos, NEW c, c.depth \in Nat,
         \A j \in 1..m : ~RefWon(F[j])
  PROVE  \E top \in Nat :
            /\ IsTop(top, TopsOf(F, m), m, c.depth)
            /\ RefTaken(TriesOf(F, m), text, pos, c) =
                  LostAt(text, pos, ErrorsOf(F, m), LastError(F, m), top)
<1> DEFINE T == TriesOf(F, m)
           top == RefTopOf(T, c.depth)
<1>1. top \in Nat /\ IsTop(top, TopsOf(F, m), m, c.depth)
  <2>1. m \in 0..m OBVIOUS
  <2> QED BY <2>1, TopOfTries
<1>2. {t \in T : RefWon(t.of)} = {}
  <2> SUFFICES ASSUME NEW t \in T, RefWon(t.of) PROVE FALSE OBVIOUS
  <2>1. PICK i \in 1..m : t = [turn |-> i, of |-> F[i]] BY DEF TriesOf
  <2> QED BY <2>1
<1>3. {t.of.error : t \in T} = ErrorsOf(F, m)
  <2>1. ASSUME NEW i \in 1..m PROVE F[i].error \in {t.of.error : t \in T}
    <3>1. [turn |-> i, of |-> F[i]] \in T BY DEF TriesOf
    <3> QED BY <3>1
  <2>2. ASSUME NEW t \in T PROVE t.of.error \in ErrorsOf(F, m)
    <3>1. PICK i \in 1..m : t = [turn |-> i, of |-> F[i]] BY DEF TriesOf
    <3> QED BY <3>1 DEF ErrorsOf
  <2> QED BY <2>1, <2>2 DEF ErrorsOf
<1>4. T # {} <=> m # 0
  <2>1. CASE m = 0
    <3>1. 1..m = {} BY <2>1
    <3> QED BY <2>1, <3>1 DEF TriesOf
  <2>2. CASE m # 0
    <3>1. [turn |-> m, of |-> F[m]] \in T BY <2>2 DEF TriesOf
    <3> QED BY <2>2, <3>1
  <2> QED BY <2>1, <2>2
<1>5. m # 0 => RefLatest(T).of.error = F[m].error
  <2> SUFFICES ASSUME m # 0 PROVE RefLatest(T).of.error = F[m].error OBVIOUS
  <2> DEFINE Is(t) == \A u \in T : t.turn >= u.turn
             last == [turn |-> m, of |-> F[m]]
  <2>1. last \in T /\ Is(last) BY DEF TriesOf
  <2>2. ASSUME NEW t \in T, Is(t) PROVE t = last
    <3>1. PICK i \in 1..m : t = [turn |-> i, of |-> F[i]] BY DEF TriesOf
    <3>2. i >= m BY <2>1, <2>2, <3>1
    <3> QED BY <3>1, <3>2
  <2>3. RefLatest(T) = CHOOSE t \in T : Is(t) BY DEF RefLatest
  <2> HIDE DEF T, Is
  <2>4. RefLatest(T) = last BY <2>1, <2>2, <2>3
  <2> QED BY <2>4
<1>6. RefTaken(T, text, pos, c) =
          LostAt(text, pos, ErrorsOf(F, m), LastError(F, m), top)
  <2>1. RefTaken(T, text, pos, c) =
          IF RefToken(text, pos) = "end" THEN RefErr("end", top)
          ELSE IF T # {} /\ RefLatest(T).of.error = "depth" THEN RefErr("depth", top)
          ELSE RefOk(pos + 1, <<Node("text", Page, pos)>>, {t.of.error : t \in T}, << >>, top)
    BY <1>2 DEF RefTaken
  <2>2. (T # {} /\ RefLatest(T).of.error = "depth") <=> LastError(F, m) = "depth"
    BY <1>4, <1>5 DEF LastError
  <2> HIDE DEF T, top
  <2> QED BY <1>3, <2>1, <2>2 DEF LostAt
<1> QED BY <1>1, <1>6

--------------------
(* Types of what the reference answers *)

LEMMA OkFields ==
  ASSUME NEW to, NEW nodes, NEW errors, NEW registered, NEW top
  PROVE  LET o == RefOk(to, nodes, errors, registered, top)
         IN  /\ RefWon(o) /\ o.error = "none" /\ o.to = to /\ o.nodes = nodes
             /\ o.errors = errors /\ o.notes = registered /\ o.top = top
  BY DEF RefOk, RefWon

LEMMA ErrFields ==
  ASSUME NEW error, NEW top
  PROVE  LET o == RefErr(error, top)
         IN  /\ o.error = error /\ o.to = 0 /\ o.nodes = << >>
             /\ o.errors = {} /\ o.notes = << >> /\ o.top = top
             /\ error \in ErrorKind => ~RefWon(o)
  BY DEF RefOk, RefErr, RefWon, ErrorKind

LEMMA OkTyped ==
  ASSUME NEW c, NEW from \in Nat, NEW to \in Nat, NEW at \in from..to, NEW nodes \in Nodes,
         NEW errors \in SUBSET ErrorKind, NEW registered \in Seq(Note), NEW top \in Nat,
         top >= c.depth, "depth" \in errors => top > c.limit
  PROVE  Typed(RefOk(at, nodes, errors, registered, top), c, from, to)
<1>1. at \in Nat OBVIOUS
<1> QED BY <1>1 DEF Typed, RefOk, RefOutcome, RefWon, ErrorKind

LEMMA ErrTyped ==
  ASSUME NEW c, NEW from, NEW to, NEW error \in ErrorKind, NEW top \in Nat,
         top >= c.depth, error = "depth" => top > c.limit
  PROVE  Typed(RefErr(error, top), c, from, to)
<1>1. << >> \in Nodes /\ << >> \in Seq(Note) BY DEF Nodes
<1>2. RefErr(error, top) \in RefOutcome BY <1>1 DEF RefOk, RefErr, RefOutcome
<1> QED BY <1>2, ErrFields DEF Typed

LEMMA OkForm ==
  ASSUME NEW o \in RefOutcome, RefWon(o) PROVE o = RefOk(o.to, o.nodes, o.errors, o.notes, o.top)
<1>2. o = [error |-> o.error, to |-> o.to, nodes |-> o.nodes,
           errors |-> o.errors, notes |-> o.notes, top |-> o.top]
  BY DEF RefOutcome
<1> QED BY <1>2 DEF RefOk, RefWon

LEMMA TopChanged ==
  ASSUME NEW o \in RefOutcome, RefWon(o), NEW top
  PROVE  [o EXCEPT !.top = top] = RefOk(o.to, o.nodes, o.errors, o.notes, top)
<1>1. \A to, ns, es, rs, at :
        [RefOk(to, ns, es, rs, at) EXCEPT !.top = top] = RefOk(to, ns, es, rs, top)
  BY DEF RefOk
<1>2. o = RefOk(o.to, o.nodes, o.errors, o.notes, o.top) BY OkForm
<1> DEFINE to == o.to
           ns == o.nodes
           es == o.errors
           rs == o.notes
           at == o.top
<1>3. o = RefOk(to, ns, es, rs, at) BY <1>2
<1> HIDE DEF to, ns, es, rs, at
<1>4. [o EXCEPT !.top = top] = RefOk(to, ns, es, rs, top) BY ONLY <1>1, <1>3
<1> QED BY <1>4 DEF to, ns, es, rs, at

LEMMA InsideContext ==
  ASSUME NEW c, Within(c), NEW r \in Rule
  PROVE  /\ Within(RefInside(r, c)) /\ RefInside(r, c).depth = c.depth
         /\ RefInside(r, c).limit = c.limit /\ RefInside(r, c).rule = r
  BY DEF Within, RefContexts, RefInside

LEMMA DeeperContext ==
  ASSUME NEW c, Within(c), c.depth < c.limit
  PROVE  LET d == [c EXCEPT !.depth = @ + 1]
         IN  /\ Within(d) /\ d.depth = c.depth + 1 /\ d.limit = c.limit
             /\ d.rule = c.rule /\ d.accepts = c.accepts /\ d.zone = c.zone
  BY DEF Within, RefContexts

LEMMA NodeType ==
  ASSUME NEW part \in {"text", "leaf", "open", "close", "note"}, NEW r \in Rule, NEW at \in Pos
  PROVE  Node(part, r, at) \in [part : {"text", "leaf", "open", "close", "note"},
                                rule : Rule, at : Pos]
         /\ <<Node(part, r, at)>> \in Nodes
  BY DEF Node, Nodes

LEMMA ClosedTyped ==
  ASSUME NEW c, Within(c), NEW r \in Rule, NEW pos \in Pos, NEW from \in Nat, NEW to \in Nat,
         pos < from, NEW body, Typed(body, RefInside(r, c), from, to)
  PROVE  Typed(RefClosed(body, r, pos, c), c, from, to)
<1>1. RefInside(r, c).depth = c.depth /\ RefInside(r, c).limit = c.limit BY InsideContext
<1>2. CASE ~RefWon(body) BY <1>1, <1>2 DEF RefClosed, Typed
<1>3. CASE RefWon(body)
  <2>1. /\ body \in RefOutcome /\ body.top >= c.depth /\ body.to \in from..to
        /\ "depth" \in body.errors => body.top > c.limit
    BY <1>1, <1>3 DEF Typed
  <2>2. body.top \in Nat /\ body.nodes \in Nodes /\ body.notes \in Seq(Note)
        /\ body.to \in Nat /\ body.to - 1 \in Pos
    BY <2>1 DEF RefOutcome, Pos
  <2>7. body.errors \in SUBSET ErrorKind BY <2>1 DEF RefOutcome
  <2>3. CASE Shape[r] = "item" /\ c.accepts # "item"
    <3>1. RefClosed(body, r, pos, c) = RefErr("partial", body.top) BY <1>3, <2>3 DEF RefClosed
    <3>2. "partial" \in ErrorKind /\ "partial" # "depth" BY DEF ErrorKind
    <3> QED BY <2>1, <2>2, <3>1, <3>2, ErrTyped
  <2>4. CASE ~(Shape[r] = "item" /\ c.accepts # "item") /\ Shape[r] = "note"
    <3> DEFINE ns == <<Node("note", r, pos)>>
               rs == Append(body.notes, [at |-> pos, nodes |-> body.nodes])
    <3>1. RefClosed(body, r, pos, c) = RefOk(body.to, ns, body.errors, rs, body.top)
      BY <1>3, <2>4 DEF RefClosed
    <3>2. ns \in Nodes /\ rs \in Seq(Note)
      <4>1. ns \in Nodes BY NodeType
      <4>2. [at |-> pos, nodes |-> body.nodes] \in Note BY <2>2 DEF Note
      <4> QED BY <2>2, <4>1, <4>2
    <3> HIDE DEF ns, rs
    <3> QED BY <2>1, <2>2, <2>7, <3>1, <3>2, OkTyped
  <2>5. CASE ~(Shape[r] = "item" /\ c.accepts # "item") /\ Shape[r] # "note"
    <3> DEFINE ns == <<Node("open", r, pos)>> \o body.nodes \o <<Node("close", r, body.to - 1)>>
    <3>1. RefClosed(body, r, pos, c) = RefOk(body.to, ns, body.errors, body.notes, body.top)
      BY <1>3, <2>5 DEF RefClosed
    <3>2. ns \in Nodes
      <4>1. <<Node("open", r, pos)>> \in Nodes /\ <<Node("close", r, body.to - 1)>> \in Nodes
        BY <2>2, NodeType
      <4> QED BY <2>2, <4>1 DEF Nodes
    <3> HIDE DEF ns
    <3> QED BY <2>1, <2>2, <2>7, <3>1, <3>2, OkTyped
  <2> QED BY <2>3, <2>4, <2>5
<1> QED BY <1>2, <1>3

LEMMA AttemptTyped ==
  ASSUME NEW c, Within(c), NEW r \in Rule, NEW pos \in Pos, NEW to \in Nat,
         pos + 1 <= to, NEW body, Typed(body, RefInside(r, c), pos + 1, to)
  PROVE  Typed(RefAttemptOf(body, r, pos, c), c, pos + 1, to)
<1>1. c.depth \in Nat /\ c.depth <= c.limit /\ pos \in Nat /\ pos + 1 \in Nat
      /\ pos < pos + 1
  BY DEF Within, RefContexts, Pos
<1>2. CASE ~RefBodiless(r, c)
  <2> DEFINE from == pos + 1
  <2>1. from \in Nat /\ pos < from /\ Typed(body, RefInside(r, c), from, to) BY <1>1
  <2> HIDE DEF from
  <2>2. Typed(RefClosed(body, r, pos, c), c, from, to) BY <2>1, ClosedTyped
  <2>3. RefAttemptOf(body, r, pos, c) = RefClosed(body, r, pos, c) BY <1>2 DEF RefAttemptOf
  <2> QED BY <2>2, <2>3 DEF from
<1>3. CASE RefBodiless(r, c) /\ Shape[r] = "leaf"
  <2>1. RefAttemptOf(body, r, pos, c) =
          RefOk(pos + 1, <<Node("leaf", r, pos)>>, {}, << >>, c.depth)
    BY <1>3 DEF RefAttemptOf
  <2> DEFINE at == pos + 1
             ns == <<Node("leaf", r, pos)>>
             es == {}
             rs == << >>
             top == c.depth
  <2>2. /\ at \in Nat /\ at \in at..to /\ ns \in Nodes /\ es \in SUBSET ErrorKind
        /\ rs \in Seq(Note) /\ top \in Nat /\ top >= c.depth
        /\ "depth" \in es => top > c.limit
    BY <1>1, NodeType
  <2> HIDE DEF at, ns, es, rs, top
  <2>3. Typed(RefOk(at, ns, es, rs, top), c, at, to) BY <2>2, OkTyped
  <2> QED BY <2>1, <2>3 DEF at, ns, es, rs, top
<1>4. CASE RefBodiless(r, c) /\ Shape[r] # "leaf"
  <2>1. RefAttemptOf(body, r, pos, c) = RefErr("failed", c.depth) BY <1>4 DEF RefAttemptOf
  <2>2. "failed" \in ErrorKind BY DEF ErrorKind
  <2> QED BY <1>1, <2>1, <2>2, ErrTyped
<1> QED BY <1>2, <1>3, <1>4

--------------------
(* Bodies *)

LEMMA TokenFacts ==
  ASSUME NEW text \in Seq(Token), NEW pos \in 1..(Len(text) + 1)
  PROVE  /\ RefToken(text, pos) \in Token \cup {"end"}
         /\ RefToken(text, pos) # "end" <=> pos \in 1..Len(text)
         /\ Turns(text, pos) \in Seq(Rule) /\ Count(text, pos) \in Nat
         /\ \A i \in 1..Count(text, pos) :
               /\ Turns(text, pos)[i] \in Rule /\ Turns(text, pos)[i] # Page
               /\ pos \in 1..Len(text)
<1>1. Len(text) \in Nat OBVIOUS
<1>2. CASE pos \in 1..Len(text)
  <2>1. text[pos] \in Token /\ RefToken(text, pos) = text[pos] BY <1>1, <1>2 DEF RefToken
  <2>2. text[pos] # "end" BY <2>1, RuleEngineAssumption
  <2>3. Turns(text, pos) = RulesOf[text[pos]] BY <2>1, <2>2 DEF Turns, Rules
  <2>4. RulesOf[text[pos]] \in Seq(Rule) BY <2>1, RuleEngineAssumption
  <2>5. \A i \in DOMAIN RulesOf[text[pos]] : RulesOf[text[pos]][i] # Page
    BY <2>1, RuleEngineAssumption
  <2> DEFINE q == RulesOf[text[pos]]
  <2>6. q \in Seq(Rule) /\ \A i \in DOMAIN q : q[i] # Page BY <2>4, <2>5
  <2> HIDE DEF q
  <2>7. Len(q) \in Nat /\ \A i \in 1..Len(q) : q[i] \in Rule /\ q[i] # Page BY <2>6
  <2>8. Turns(text, pos) = q /\ Count(text, pos) = Len(q) BY <2>3 DEF Count, q
  <2> QED BY <1>2, <2>1, <2>2, <2>6, <2>7, <2>8
<1>3. CASE pos \notin 1..Len(text)
  <2>1. RefToken(text, pos) = "end" BY <1>1, <1>3 DEF RefToken
  <2>2. Turns(text, pos) = << >> /\ Count(text, pos) = 0 BY <2>1 DEF Turns, Rules, Count
  <2>3. 1..0 = {} OBVIOUS
  <2> QED BY <1>3, <2>1, <2>2, <2>3
<1> QED BY <1>2, <1>3

LEMMA BodyCases ==
  ASSUME NEW text \in Seq(Token), NEW pos \in 1..(Len(text) + 1), NEW c, Within(c)
  PROVE  LET tok  == RefToken(text, pos)
             body == RefBody(text, pos, c)
             rest == [at \in (pos + 1)..(Len(text) + 1) |-> RefBodies(text)[at]]
         IN  /\ RefCloses(c, tok) => body = RefOk(pos + 1, << >>, {}, << >>, c.depth)
             /\ ~RefCloses(c, tok) /\ RefCut(c, tok) => body = RefErr("failed", c.depth)
             /\ ~RefCloses(c, tok) /\ ~RefCut(c, tok) /\ RefSteps(c, tok) =>
                   body = RefBody(text, pos + 1, c) /\ pos + 1 \in 1..(Len(text) + 1)
             /\ ~RefCloses(c, tok) /\ ~RefCut(c, tok) /\ ~RefSteps(c, tok)
                /\ RefRunsOut(c, tok) =>
                   body = IF c.rule = Page THEN RefOk(pos, << >>, {}, << >>, c.depth)
                                           ELSE RefErr("end", c.depth)
             /\ Goes(text, pos, c) /\ c.depth >= c.limit =>
                   body = RefErr("depth", c.limit + 1)
             /\ Goes(text, pos, c) /\ c.depth < c.limit =>
                   body = RefThen(RefConsume(text, pos, Deeper(c)), rest, c)
<1> DEFINE tok  == RefToken(text, pos)
           rest == [at \in (pos + 1)..(Len(text) + 1) |-> RefBodies(text)[at]]
           body == RefBody(text, pos, c)
<1>1. c \in RefContexts /\ c.depth \in Nat /\ c.limit \in Nat BY DEF Within, RefContexts
<1>2. body = RefBodyOf(rest, text, pos, c) BY <1>1, BodiesAre
<1>3. \A at \in (pos + 1)..(Len(text) + 1) : \A d : rest[at][d] = RefBody(text, at, d)
  BY DEF RefBody
<1>4. tok # "end" => pos + 1 \in (pos + 1)..(Len(text) + 1) /\ pos + 1 \in 1..(Len(text) + 1)
  BY TokenFacts
<1>5. RefTries(rest, text, pos, Deeper(c)) =
        TriesOf(Answers(text, pos, Deeper(c)), Count(text, pos))
  <2> DEFINE q == Turns(text, pos)
             d == Deeper(c)
             N == Count(text, pos)
             F == Answers(text, pos, d)
             X(i) == RefAttemptOf(rest[pos + 1][RefInside(q[i], d)], q[i], pos, d)
  <2>1. N \in Nat /\ q \in Seq(Rule) /\ DOMAIN q = 1..N BY TokenFacts DEF Count
  <2>2. \A i \in 1..N : pos + 1 \in (pos + 1)..(Len(text) + 1) BY TokenFacts
  <2>3. ASSUME NEW i \in 1..N PROVE X(i) = F[i]
    <3>1. rest[pos + 1][RefInside(q[i], d)] = RefBody(text, pos + 1, RefInside(q[i], d))
      BY <1>3, <2>2
    <3>2. F[i] = RefAttempt(text, q[i], pos, d) BY DEF Answers
    <3> HIDE DEF rest, F, q, d
    <3> QED BY <3>1, <3>2 DEF RefAttempt
  <2>4. RefTries(rest, text, pos, d) = {[turn |-> i, of |-> X(i)] : i \in 1..N}
    BY <2>1 DEF RefTries, Turns
  <2>5. TriesOf(F, N) = {[turn |-> i, of |-> F[i]] : i \in 1..N} BY DEF TriesOf
  <2> HIDE DEF rest, F, q, d, N, X
  <2>6. {[turn |-> i, of |-> X(i)] : i \in 1..N} = {[turn |-> i, of |-> F[i]] : i \in 1..N} BY <2>3
  <2>7. RefTries(rest, text, pos, d) = TriesOf(F, N) BY <2>4, <2>5, <2>6
  <2> QED BY <2>7 DEF F, N, d
<1>6. ASSUME RefSteps(c, tok) PROVE tok # "end" BY <1>6, RuleEngineAssumption DEF RefSteps
<1>7. RefBodyOf(rest, text, pos, c) =
        IF RefCloses(c, tok) THEN RefOk(pos + 1, << >>, {}, << >>, c.depth)
        ELSE IF RefCut(c, tok) THEN RefErr("failed", c.depth)
        ELSE IF RefSteps(c, tok) THEN rest[pos + 1][c]
        ELSE IF RefRunsOut(c, tok)
          THEN IF c.rule = Page THEN RefOk(pos, << >>, {}, << >>, c.depth)
                                ELSE RefErr("end", c.depth)
        ELSE IF c.depth >= c.limit THEN RefErr("depth", c.limit + 1)
        ELSE RefThen(RefConsume(text, pos, Deeper(c)), rest, c)
  BY <1>5 DEF RefBodyOf, RefConsume, Deeper
<1> HIDE DEF rest, tok, body
<1>8. RefSteps(c, tok) => rest[pos + 1][c] = RefBody(text, pos + 1, c) BY <1>3, <1>4, <1>6
<1>9. c.depth < c.limit => ~(c.depth >= c.limit) BY <1>1
<1>10. /\ RefCloses(c, tok) => body = RefOk(pos + 1, << >>, {}, << >>, c.depth)
       /\ ~RefCloses(c, tok) /\ RefCut(c, tok) => body = RefErr("failed", c.depth)
       /\ ~RefCloses(c, tok) /\ ~RefCut(c, tok) /\ RefSteps(c, tok) =>
             body = RefBody(text, pos + 1, c) /\ pos + 1 \in 1..(Len(text) + 1)
       /\ ~RefCloses(c, tok) /\ ~RefCut(c, tok) /\ ~RefSteps(c, tok)
          /\ RefRunsOut(c, tok) =>
             body = IF c.rule = Page THEN RefOk(pos, << >>, {}, << >>, c.depth)
                                     ELSE RefErr("end", c.depth)
  BY <1>2, <1>4, <1>6, <1>7, <1>8
<1>11. /\ Goes(text, pos, c) /\ c.depth >= c.limit => body = RefErr("depth", c.limit + 1)
       /\ Goes(text, pos, c) /\ c.depth < c.limit =>
             body = RefThen(RefConsume(text, pos, Deeper(c)), rest, c)
  BY <1>2, <1>7, <1>9 DEF Goes, tok
<1> QED BY <1>10, <1>11 DEF rest, tok, body

--------------------
(* What consume answers, from what the rules answer *)

LEMMA WinnerExists ==
  ASSUME NEW F, NEW m \in Nat
  PROVE  (\E k \in 1..m : FirstWon(F, k)) \/ \A j \in 1..m : ~RefWon(F[j])
<1> DEFINE S == {j \in 1..m : RefWon(F[j])}
<1>1. CASE S = {} BY <1>1
<1>2. CASE S # {}
  <2>1. S \in SUBSET Nat OBVIOUS
  <2> HIDE DEF S
  <2>2. PICK k \in S : \A y \in S : k <= y BY <1>2, <2>1, LeastNumber
  <2> USE DEF S
  <2>3. \A j \in 1..(k - 1) : j \in 1..m /\ j < k OBVIOUS
  <2>4. FirstWon(F, k) BY <2>2, <2>3 DEF FirstWon
  <2> QED BY <2>4
<1> QED BY <1>1, <1>2

LEMMA TopsTyped ==
  ASSUME NEW text \in Seq(Token), NEW pos \in 1..(Len(text) + 1), NEW c,
         AnswersTyped(text, pos, c)
  PROVE  TopsOf(Answers(text, pos, c), Count(text, pos)) \in [1..Count(text, pos) -> Nat]
<1>1. \A i \in 1..Count(text, pos) : Answers(text, pos, c)[i].top \in Nat
  BY DEF AnswersTyped, Typed, RefOutcome
<1> QED BY <1>1 DEF TopsOf

LEMMA LostTop ==
  ASSUME NEW text, NEW pos, NEW errors, NEW last, NEW top
  PROVE  LostAt(text, pos, errors, last, top).top = top
  BY OkFields, ErrFields DEF LostAt

LEMMA ConsumeWon ==
  ASSUME NEW text \in Seq(Token), NEW pos \in 1..(Len(text) + 1), NEW c, Within(c),
         AnswersTyped(text, pos, c),
         NEW k \in 1..Count(text, pos), FirstWon(Answers(text, pos, c), k)
  PROVE  WonAs(RefConsume(text, pos, c), Answers(text, pos, c)[k],
               Answers(text, pos, c), Count(text, pos), k, c.depth)
<1> DEFINE A == Answers(text, pos, c)
           N == Count(text, pos)
<1>1. N \in Nat /\ TopsOf(A, N) \in [1..N -> Nat] /\ c.depth \in Nat
  BY TokenFacts, TopsTyped DEF Within, RefContexts
<1>2. RefWon(A[k]) /\ \A j \in 1..(k - 1) : ~RefWon(A[j]) BY DEF FirstWon
<1>3. A[k] \in RefOutcome BY DEF AnswersTyped, Typed
<1>4. RefConsume(text, pos, c) = RefTaken(TriesOf(A, N), text, pos, c) BY DEF RefConsume
<1> HIDE DEF A, N
<1>5. k \in 1..N BY DEF N
<1>6. PICK top \in Nat :
         /\ IsTop(top, TopsOf(A, N), k, c.depth)
         /\ RefTaken(TriesOf(A, N), text, pos, c) = [A[k] EXCEPT !.top = top]
  BY <1>1, <1>2, <1>5, TakenWon
<1> DEFINE o == A[k]
<1>7. [o EXCEPT !.top = top] = RefOk(o.to, o.nodes, o.errors, o.notes, top)
  <2>1. o \in RefOutcome /\ RefWon(o) BY <1>2, <1>3
  <2> HIDE DEF o
  <2> QED BY <2>1, TopChanged
<1>8. RefConsume(text, pos, c) = RefOk(o.to, o.nodes, o.errors, o.notes, top) BY <1>4, <1>6, <1>7
<1>9. RefConsume(text, pos, c).top = top BY <1>8, OkFields
<1>10. WonAs(RefConsume(text, pos, c), o, A, N, k, c.depth) BY <1>6, <1>8, <1>9 DEF WonAs
<1> QED BY <1>10 DEF A, N

LEMMA ConsumeLost ==
  ASSUME NEW text \in Seq(Token), NEW pos \in 1..(Len(text) + 1), NEW c, Within(c),
         AnswersTyped(text, pos, c),
         \A j \in 1..Count(text, pos) : ~RefWon(Answers(text, pos, c)[j])
  PROVE  LostAs(RefConsume(text, pos, c), text, pos, Answers(text, pos, c),
                Count(text, pos), c.depth)
<1> DEFINE A == Answers(text, pos, c)
           N == Count(text, pos)
<1>1. N \in Nat /\ TopsOf(A, N) \in [1..N -> Nat] /\ c.depth \in Nat
  BY TokenFacts, TopsTyped DEF Within, RefContexts
<1>4. RefConsume(text, pos, c) = RefTaken(TriesOf(A, N), text, pos, c) BY DEF RefConsume
<1>5. \A j \in 1..N : ~RefWon(A[j]) OBVIOUS
<1> HIDE DEF A, N
<1>6. PICK top \in Nat :
         /\ IsTop(top, TopsOf(A, N), N, c.depth)
         /\ RefTaken(TriesOf(A, N), text, pos, c) =
               LostAt(text, pos, ErrorsOf(A, N), LastError(A, N), top)
  BY <1>1, <1>5, TakenLost
<1>7. RefConsume(text, pos, c).top = top BY <1>4, <1>6, LostTop
<1>8. LostAs(RefConsume(text, pos, c), text, pos, A, N, c.depth) BY <1>4, <1>6, <1>7 DEF LostAs
<1> QED BY <1>8 DEF A, N

LEMMA ConsumeTyped ==
  ASSUME NEW text \in Seq(Token), NEW pos \in 1..(Len(text) + 1), NEW c, Within(c),
         AnswersTyped(text, pos, c)
  PROVE  Typed(RefConsume(text, pos, c), c, pos + 1, Len(text) + 1)
<1> DEFINE A == Answers(text, pos, c)
           N == Count(text, pos)
           one == RefConsume(text, pos, c)
           from == pos + 1
           to == Len(text) + 1
<1>1. /\ N \in Nat /\ c.depth \in Nat /\ from \in Nat /\ to \in Nat /\ pos \in Pos
      /\ pos \in 1..Len(text) => from \in from..to
  BY TokenFacts DEF Within, RefContexts, Pos
<1>2. \A i \in 1..N : Typed(A[i], c, from, to) BY DEF AnswersTyped
<1>3. TopsOf(A, N) \in [1..N -> Nat] BY TopsTyped
<1>4. \A i \in 1..N : TopsOf(A, N)[i] = A[i].top BY DEF TopsOf
<1>5. ASSUME NEW k \in 1..N, FirstWon(A, k) PROVE Typed(one, c, from, to)
  <2>1. WonAs(one, A[k], A, N, k, c.depth) BY <1>5, ConsumeWon
  <2> DEFINE o == A[k]
             top == one.top
             to1 == o.to
             ns == o.nodes
             es == o.errors
             rs == o.notes
  <2>2. /\ o \in RefOutcome /\ o.to \in from..to
        /\ "depth" \in o.errors => o.top > c.limit
    BY <1>2, <1>5 DEF FirstWon, Typed
  <2>3. /\ one = RefOk(to1, ns, es, rs, top) /\ top \in Nat
        /\ IsTop(top, TopsOf(A, N), k, c.depth)
    BY <2>1 DEF WonAs
  <2>4. ns \in Nodes /\ es \in SUBSET ErrorKind /\ rs \in Seq(Note) /\ to1 \in from..to
        /\ o.top \in Nat
    BY <2>2 DEF RefOutcome
  <2>5. top >= c.depth /\ top >= o.top
    <3>1. k \in 1..k /\ k \in 1..N BY <1>1
    <3> QED BY <1>4, <2>3, <3>1 DEF IsTop
  <2>6. "depth" \in es => top > c.limit
    <3>1. SUFFICES ASSUME "depth" \in es PROVE top > c.limit OBVIOUS
    <3>2. o.top > c.limit BY <2>2, <3>1
    <3>3. c.limit \in Nat BY DEF Within, RefContexts
    <3> HIDE DEF o, top
    <3> QED BY <2>3, <2>4, <2>5, <3>2, <3>3
  <2> HIDE DEF o, top, to1, ns, es, rs, one, from, to
  <2>7. Typed(RefOk(to1, ns, es, rs, top), c, from, to) BY <1>1, <2>3, <2>4, <2>5, <2>6, OkTyped
  <2> QED BY <2>3, <2>7
<1>6. ASSUME \A j \in 1..N : ~RefWon(A[j]) PROVE Typed(one, c, from, to)
  <2>1. LostAs(one, text, pos, A, N, c.depth) BY <1>6, ConsumeLost
  <2> DEFINE top == one.top
             es == ErrorsOf(A, N)
  <2>2. /\ one = LostAt(text, pos, es, LastError(A, N), top) /\ top \in Nat
        /\ IsTop(top, TopsOf(A, N), N, c.depth)
    BY <2>1 DEF LostAs
  <2>3. \A i \in 1..N : /\ A[i].error \in ErrorKind /\ A[i].top \in Nat
                        /\ A[i].error = "depth" => A[i].top > c.limit
    BY <1>2, <1>6 DEF Typed, RefOutcome
  <2>4. top >= c.depth /\ \A i \in 1..N : top >= A[i].top BY <1>4, <2>2 DEF IsTop
  <2>5. es \in SUBSET ErrorKind BY <2>3 DEF ErrorsOf
  <2>6. ASSUME NEW i \in 1..N, A[i].error = "depth" PROVE top > c.limit
    <3>1. A[i].top > c.limit /\ top >= A[i].top /\ A[i].top \in Nat /\ top \in Nat
          /\ c.limit \in Nat
      BY <2>2, <2>3, <2>4, <2>6 DEF Within, RefContexts
    <3> QED BY <3>1
  <2>7. "depth" \in es => top > c.limit BY <2>6 DEF ErrorsOf
  <2>8. LastError(A, N) = "depth" => top > c.limit
    <3>1. N # 0 => N \in 1..N BY <1>1
    <3> QED BY <2>6, <3>1 DEF LastError
  <2>9. CASE RefToken(text, pos) = "end"
    <3>1. one = RefErr("end", top) BY <2>2, <2>9 DEF LostAt
    <3>2. "end" \in ErrorKind BY DEF ErrorKind
    <3> HIDE DEF top
    <3>3. Typed(RefErr("end", top), c, from, to) BY <2>2, <2>4, <3>2, ErrTyped
    <3> QED BY <3>1, <3>3
  <2>10. CASE RefToken(text, pos) # "end" /\ LastError(A, N) = "depth"
    <3>1. one = RefErr("depth", top) BY <2>2, <2>10 DEF LostAt
    <3>2. "depth" \in ErrorKind BY DEF ErrorKind
    <3>4. top > c.limit BY <2>8, <2>10
    <3> HIDE DEF top, A, N
    <3>3. Typed(RefErr("depth", top), c, from, to) BY <2>2, <2>4, <3>2, <3>4, ErrTyped
    <3> QED BY <3>1, <3>3
  <2>11. CASE RefToken(text, pos) # "end" /\ LastError(A, N) # "depth"
    <3> DEFINE ns == <<Node("text", Page, pos)>>
               rs == << >>
    <3>1. one = RefOk(from, ns, es, rs, top) BY <2>2, <2>11 DEF LostAt
    <3>2. from \in from..to BY <1>1, <2>11, TokenFacts
    <3>3. ns \in Nodes /\ rs \in Seq(Note)
      <4>1. Page \in Rule BY RuleEngineAssumption
      <4> QED BY <1>1, <4>1, NodeType
    <3> HIDE DEF ns, rs, es, top, from, to
    <3>4. Typed(RefOk(from, ns, es, rs, top), c, from, to)
      BY <1>1, <2>2, <2>4, <2>5, <2>7, <3>2, <3>3, OkTyped
    <3> QED BY <3>1, <3>4
  <2> QED BY <2>9, <2>10, <2>11
<1>7. (\E k \in 1..N : FirstWon(A, k)) \/ \A j \in 1..N : ~RefWon(A[j]) BY <1>1, WinnerExists
<1>8. Typed(one, c, from, to) BY <1>5, <1>6, <1>7
<1> QED BY <1>8

LEMMA TypedFrom ==
  ASSUME NEW text \in Seq(Token), NEW pos \in 1..(Len(text) + 1), NEW c, Within(c),
         pos \in 1..Len(text) => BodiesTyped(text, pos + 1)
  PROVE  AnswersTyped(text, pos, c)
<1> SUFFICES ASSUME NEW i \in 1..Count(text, pos)
             PROVE  Typed(Answers(text, pos, c)[i], c, pos + 1, Len(text) + 1)
  BY DEF AnswersTyped
<1> DEFINE r == Turns(text, pos)[i]
           body == RefBody(text, pos + 1, RefInside(r, c))
           to == Len(text) + 1
<1>1. r \in Rule /\ pos \in 1..Len(text) /\ pos \in Pos BY TokenFacts DEF Pos
<1>2. Within(RefInside(r, c)) BY <1>1, InsideContext
<1>3. Typed(body, RefInside(r, c), pos + 1, to) BY <1>1, <1>2 DEF BodiesTyped
<1>4. to \in Nat /\ pos + 1 <= to BY <1>1
<1>5. Answers(text, pos, c)[i] = RefAttemptOf(body, r, pos, c) BY DEF Answers, RefAttempt
<1> HIDE DEF r, body, to
<1>6. Typed(RefAttemptOf(body, r, pos, c), c, pos + 1, to) BY <1>1, <1>2, <1>3, <1>4, AttemptTyped
<1> QED BY <1>5, <1>6 DEF to

LEMMA FollowTyped ==
  ASSUME NEW c, NEW from \in Nat, NEW mid \in Nat, NEW to \in Nat, from <= mid,
         NEW one, one \in RefOutcome, RefWon(one),
         c.depth \in Nat, c.limit \in Nat,
         "depth" \in one.errors => one.top > c.limit,
         NEW after, Typed(after, c, mid, to)
  PROVE  Typed(RefFollow(one, after), c, from, to)
<1> DEFINE top == Larger(one.top, after.top)
<1>1. /\ one.top \in Nat /\ one.nodes \in Nodes /\ one.notes \in Seq(Note)
      /\ one.errors \in SUBSET ErrorKind
  BY DEF RefOutcome
<1>2. /\ after.top \in Nat /\ after.nodes \in Nodes /\ after.notes \in Seq(Note)
      /\ after.errors \in SUBSET ErrorKind /\ after.top >= c.depth
      /\ RefWon(after) => after.to \in mid..to
      /\ ~RefWon(after) => after.error \in ErrorKind
      /\ after.error = "depth" \/ "depth" \in after.errors => after.top > c.limit
  BY DEF Typed, RefOutcome
<1>3. top \in Nat /\ top >= one.top /\ top >= after.top BY <1>1, <1>2 DEF Larger
<1>4. CASE ~RefWon(after)
  <2>1. RefFollow(one, after) = RefErr(after.error, top) BY <1>4 DEF RefFollow
  <2> DEFINE error == after.error
  <2>2. error \in ErrorKind /\ top >= c.depth /\ (error = "depth" => top > c.limit)
    BY <1>2, <1>3, <1>4
  <2> HIDE DEF top, error
  <2>3. Typed(RefErr(error, top), c, from, to) BY <1>3, <2>2, ErrTyped
  <2> QED BY <2>1, <2>3 DEF error
<1>5. CASE RefWon(after)
  <2> DEFINE at == after.to
             ns == one.nodes \o after.nodes
             es == one.errors \cup after.errors
             rs == one.notes \o after.notes
  <2>1. RefFollow(one, after) = RefOk(at, ns, es, rs, top) BY <1>5 DEF RefFollow
  <2>2. at \in from..to /\ top >= c.depth BY <1>2, <1>3, <1>5
  <2>3. ns \in Nodes /\ rs \in Seq(Note) /\ es \in SUBSET ErrorKind BY <1>1, <1>2 DEF Nodes
  <2>4. "depth" \in es => top > c.limit
    <3> HIDE DEF top
    <3>1. CASE "depth" \in one.errors BY <1>1, <1>3, <3>1
    <3>2. CASE "depth" \in after.errors BY <1>2, <1>3, <3>2
    <3> QED BY <3>1, <3>2
  <2> HIDE DEF top, at, ns, es, rs
  <2>5. Typed(RefOk(at, ns, es, rs, top), c, from, to) BY <1>3, <2>2, <2>3, <2>4, OkTyped
  <2> QED BY <2>1, <2>5
<1> QED BY <1>4, <1>5

\* What RefThen makes of consume, in terms of RefBody.
LEMMA ThenIs ==
  ASSUME NEW text \in Seq(Token), NEW pos \in 1..(Len(text) + 1), NEW c, NEW one, NEW d,
         Typed(one, d, pos + 1, Len(text) + 1)
  PROVE  RefThen(one, [at \in (pos + 1)..(Len(text) + 1) |-> RefBodies(text)[at]], c) =
            Then(text, one, c)
<1> DEFINE rest == [at \in (pos + 1)..(Len(text) + 1) |-> RefBodies(text)[at]]
<1>1. RefWon(one) => one.to \in (pos + 1)..(Len(text) + 1) BY DEF Typed
<1>2. RefWon(one) => rest[one.to][c] = RefBody(text, one.to, c) BY <1>1 DEF RefBody
<1> HIDE DEF rest
<1>3. RefThen(one, rest, c) = Then(text, one, c) BY <1>2 DEF RefThen, Then
<1> QED BY <1>3 DEF rest

LEMMA ThenTyped ==
  ASSUME NEW text \in Seq(Token), NEW pos \in 1..(Len(text) + 1), NEW c, Within(c),
         NEW d, d.limit = c.limit, d.depth = c.depth + 1,
         NEW one, Typed(one, d, pos + 1, Len(text) + 1),
         \A at \in (pos + 1)..(Len(text) + 1) : BodiesTyped(text, at)
  PROVE  Typed(Then(text, one, c), c, pos, Len(text) + 1)
<1> DEFINE to == Len(text) + 1
<1>1. c.depth \in Nat /\ c.limit \in Nat /\ to \in Nat /\ pos \in Nat BY DEF Within, RefContexts
<1>2. /\ one \in RefOutcome /\ one.top >= d.depth
      /\ one.error = "depth" \/ "depth" \in one.errors => one.top > c.limit
  BY DEF Typed
<1>3. one.top \in Nat BY <1>2 DEF RefOutcome
<1>4. CASE RefWon(one)
  <2> DEFINE mid == one.to
             after == RefBody(text, mid, c)
  <2>1. mid \in (pos + 1)..to BY <1>4 DEF Typed
  <2>2. mid \in Nat /\ pos <= mid /\ Typed(after, c, mid, to) BY <1>1, <2>1 DEF BodiesTyped
  <2>3. Then(text, one, c) = RefFollow(one, after) BY <1>4 DEF Then
  <2> HIDE DEF mid, after, to
  <2>4. Typed(RefFollow(one, after), c, pos, to) BY <1>1, <1>2, <1>4, <2>2, FollowTyped
  <2> QED BY <2>3, <2>4 DEF to
<1>5. CASE ~RefWon(one)
  <2> DEFINE error == one.error
             top == Larger(c.depth, one.top)
  <2>1. Then(text, one, c) = RefErr(error, top) BY <1>5 DEF Then
  <2>2. error \in ErrorKind BY <1>5 DEF Typed
  <2>3. top \in Nat /\ top >= c.depth /\ top >= one.top BY <1>1, <1>3 DEF Larger
  <2> HIDE DEF top
  <2>4. error = "depth" => top > c.limit BY <1>1, <1>2, <1>3, <2>3
  <2> HIDE DEF error, to
  <2>5. Typed(RefErr(error, top), c, pos, to) BY <2>2, <2>3, <2>4, ErrTyped
  <2> QED BY <2>1, <2>5 DEF to
<1> QED BY <1>4, <1>5

LEMMA BodyStepTyped ==
  ASSUME NEW text \in Seq(Token), NEW pos \in 1..(Len(text) + 1),
         \A at \in (pos + 1)..(Len(text) + 1) : BodiesTyped(text, at)
  PROVE  BodiesTyped(text, pos)
<1> SUFFICES ASSUME NEW c, Within(c) PROVE Typed(RefBody(text, pos, c), c, pos, Len(text) + 1)
  BY DEF BodiesTyped
<1> DEFINE tok == RefToken(text, pos)
           body == RefBody(text, pos, c)
           from == pos + 1
           to == Len(text) + 1
           rest == [at \in (pos + 1)..(Len(text) + 1) |-> RefBodies(text)[at]]
           depth == c.depth
           limit == c.limit
           ns == << >>
           es == {}
           rs == << >>
           up == limit + 1
           d == Deeper(c)
<1>1. /\ depth \in Nat /\ limit \in Nat /\ depth <= limit /\ c.rule \in Rule
      /\ pos \in Nat /\ from \in Nat /\ to \in Nat /\ pos \in pos..to
      /\ pos \in 1..Len(text) => from \in pos..to /\ from \in from..to
      /\ up \in Nat /\ up > limit /\ up >= depth
      /\ ns \in Nodes /\ es \in SUBSET ErrorKind /\ rs \in Seq(Note)
      /\ "depth" \notin es /\ "failed" \in ErrorKind /\ "end" \in ErrorKind
      /\ "depth" \in ErrorKind
  BY DEF Within, RefContexts, Nodes, ErrorKind
<1>2. /\ RefCloses(c, tok) => body = RefOk(from, ns, es, rs, depth)
      /\ ~RefCloses(c, tok) /\ RefCut(c, tok) => body = RefErr("failed", depth)
      /\ ~RefCloses(c, tok) /\ ~RefCut(c, tok) /\ RefSteps(c, tok) =>
            body = RefBody(text, from, c) /\ from \in 1..to
      /\ ~RefCloses(c, tok) /\ ~RefCut(c, tok) /\ ~RefSteps(c, tok) /\ RefRunsOut(c, tok) =>
            body = IF c.rule = Page THEN RefOk(pos, ns, es, rs, depth) ELSE RefErr("end", depth)
      /\ Goes(text, pos, c) /\ depth >= limit => body = RefErr("depth", up)
      /\ Goes(text, pos, c) /\ depth < limit =>
            body = RefThen(RefConsume(text, pos, d), rest, c)
  BY BodyCases
<1>3. RefCloses(c, tok) => pos \in 1..Len(text)
  <2>1. RefCloses(c, tok) => tok # "end" BY <1>1, RuleEngineAssumption DEF RefCloses
  <2> QED BY <2>1, TokenFacts
<1>4. CASE RefCloses(c, tok)
  <2>1. from \in pos..to /\ depth >= depth BY <1>1, <1>3, <1>4
  <2> HIDE DEF from, to, ns, es, rs, depth
  <2>2. Typed(RefOk(from, ns, es, rs, depth), c, pos, to) BY <1>1, <2>1, OkTyped DEF depth
  <2> QED BY <1>2, <1>4, <2>2 DEF to
<1>5. CASE ~RefCloses(c, tok) /\ RefCut(c, tok)
  <2> HIDE DEF depth, to
  <2>1. Typed(RefErr("failed", depth), c, pos, to) BY <1>1, ErrTyped DEF depth
  <2> QED BY <1>2, <1>5, <2>1 DEF to
<1>6. CASE ~RefCloses(c, tok) /\ ~RefCut(c, tok) /\ RefSteps(c, tok)
  <2>1. from \in (pos + 1)..(Len(text) + 1) BY <1>1, <1>2, <1>6
  <2>2. Typed(RefBody(text, from, c), c, from, to) BY <2>1 DEF BodiesTyped
  <2>3. \A at \in from..to : at \in pos..to BY <1>1
  <2>4. Typed(RefBody(text, from, c), c, pos, to) BY <2>2, <2>3 DEF Typed
  <2> QED BY <1>2, <1>6, <2>4
<1>7. CASE ~RefCloses(c, tok) /\ ~RefCut(c, tok) /\ ~RefSteps(c, tok) /\ RefRunsOut(c, tok)
  <2> HIDE DEF depth, to, ns, es, rs, from
  <2>1. CASE c.rule = Page
    <3>1. Typed(RefOk(pos, ns, es, rs, depth), c, pos, to) BY <1>1, OkTyped DEF depth
    <3> QED BY <1>2, <1>7, <2>1, <3>1 DEF to
  <2>2. CASE c.rule # Page
    <3>1. Typed(RefErr("end", depth), c, pos, to) BY <1>1, ErrTyped DEF depth
    <3> QED BY <1>2, <1>7, <2>2, <3>1 DEF to
  <2> QED BY <2>1, <2>2
<1>8. CASE Goes(text, pos, c) /\ depth >= limit
  <2> HIDE DEF up, to
  <2>1. Typed(RefErr("depth", up), c, pos, to) BY <1>1, ErrTyped DEF depth, limit
  <2> QED BY <1>2, <1>8, <2>1 DEF to
<1>9. CASE Goes(text, pos, c) /\ depth < limit
  <2>1. Within(d) /\ d.depth = c.depth + 1 /\ d.limit = c.limit BY <1>9, DeeperContext DEF Deeper
  <2>2. AnswersTyped(text, pos, d)
    <3>1. pos \in 1..Len(text) => pos + 1 \in (pos + 1)..(Len(text) + 1) OBVIOUS
    <3> HIDE DEF d
    <3> QED BY <2>1, <3>1, TypedFrom
  <2> DEFINE one == RefConsume(text, pos, d)
  <2>3. Typed(one, d, pos + 1, Len(text) + 1) BY <2>1, <2>2, ConsumeTyped
  <2>4. body = RefThen(one, rest, c) BY <1>2, <1>9
  <2> HIDE DEF one, d
  <2>5. RefThen(one, rest, c) = Then(text, one, c) BY <2>3, ThenIs
  <2>6. Typed(Then(text, one, c), c, pos, Len(text) + 1) BY <2>1, <2>3, ThenTyped
  <2> QED BY <2>4, <2>5, <2>6
<1> QED BY <1>1, <1>4, <1>5, <1>6, <1>7, <1>8, <1>9 DEF Goes

\* A body and a rule answer with positions of the page, and with a top above the limit
\* where they met it.
LEMMA BodyTyped ==
  ASSUME NEW text \in Seq(Token), NEW pos \in 1..(Len(text) + 1) PROVE BodiesTyped(text, pos)
<1> DEFINE n == Len(text) + 1
           S == {p \in 1..n : BodiesTyped(text, p)}
<1>1. n \in Nat /\ pos \in 1..n OBVIOUS
<1>2. ASSUME NEW p \in 1..n, \A q \in (p + 1)..n : q \in S PROVE p \in S
  <2>1. \A q \in (p + 1)..n : BodiesTyped(text, q) BY <1>2
  <2>2. BodiesTyped(text, p) BY <2>1, BodyStepTyped
  <2> QED BY <2>2
<1>3. S \in SUBSET (1..n) OBVIOUS
<1> HIDE DEF n
<1>4. S = 1..n BY <1>1, <1>2, <1>3, FromTheEnd
<1> QED BY <1>1, <1>4

\* The body at pos, with consume as what the rules of the token make of it.
LEMMA BodyIs ==
  ASSUME NEW text \in Seq(Token), NEW pos \in 1..(Len(text) + 1), NEW c, Within(c)
  PROVE  LET tok  == RefToken(text, pos)
             body == RefBody(text, pos, c)
         IN  /\ RefCloses(c, tok) => body = RefOk(pos + 1, << >>, {}, << >>, c.depth)
             /\ ~RefCloses(c, tok) /\ RefCut(c, tok) => body = RefErr("failed", c.depth)
             /\ ~RefCloses(c, tok) /\ ~RefCut(c, tok) /\ RefSteps(c, tok) =>
                   body = RefBody(text, pos + 1, c) /\ pos + 1 \in 1..(Len(text) + 1)
             /\ ~RefCloses(c, tok) /\ ~RefCut(c, tok) /\ ~RefSteps(c, tok)
                /\ RefRunsOut(c, tok) =>
                   body = IF c.rule = Page THEN RefOk(pos, << >>, {}, << >>, c.depth)
                                           ELSE RefErr("end", c.depth)
             /\ Goes(text, pos, c) /\ c.depth >= c.limit =>
                   body = RefErr("depth", c.limit + 1)
             /\ Goes(text, pos, c) /\ c.depth < c.limit =>
                   body = Then(text, RefConsume(text, pos, Deeper(c)), c)
<1> DEFINE rest == [at \in (pos + 1)..(Len(text) + 1) |-> RefBodies(text)[at]]
           d == Deeper(c)
           one == RefConsume(text, pos, d)
<1>1. ASSUME c.depth < c.limit PROVE RefThen(one, rest, c) = Then(text, one, c)
  <2>1. Within(d) BY <1>1, DeeperContext DEF Deeper
  <2>2. AnswersTyped(text, pos, d)
    <3>1. pos \in 1..Len(text) => pos + 1 \in 1..(Len(text) + 1) OBVIOUS
    <3>2. pos \in 1..Len(text) => BodiesTyped(text, pos + 1)
      <4> DEFINE at == pos + 1
      <4> HIDE DEF at
      <4>1. at \in 1..(Len(text) + 1) => BodiesTyped(text, at) BY BodyTyped
      <4> QED BY <3>1, <4>1 DEF at
    <3> HIDE DEF d
    <3> QED BY <2>1, <3>2, TypedFrom
  <2>3. Typed(one, d, pos + 1, Len(text) + 1) BY <2>1, <2>2, ConsumeTyped
  <2> HIDE DEF one, d
  <2> QED BY <2>3, ThenIs
<1>2. /\ RefCloses(c, RefToken(text, pos)) =>
            RefBody(text, pos, c) = RefOk(pos + 1, << >>, {}, << >>, c.depth)
      /\ ~RefCloses(c, RefToken(text, pos)) /\ RefCut(c, RefToken(text, pos)) =>
            RefBody(text, pos, c) = RefErr("failed", c.depth)
      /\ ~RefCloses(c, RefToken(text, pos)) /\ ~RefCut(c, RefToken(text, pos))
         /\ RefSteps(c, RefToken(text, pos)) =>
            RefBody(text, pos, c) = RefBody(text, pos + 1, c) /\ pos + 1 \in 1..(Len(text) + 1)
      /\ ~RefCloses(c, RefToken(text, pos)) /\ ~RefCut(c, RefToken(text, pos))
         /\ ~RefSteps(c, RefToken(text, pos)) /\ RefRunsOut(c, RefToken(text, pos)) =>
            RefBody(text, pos, c) = IF c.rule = Page THEN RefOk(pos, << >>, {}, << >>, c.depth)
                                    ELSE RefErr("end", c.depth)
      /\ Goes(text, pos, c) /\ c.depth >= c.limit =>
            RefBody(text, pos, c) = RefErr("depth", c.limit + 1)
      /\ Goes(text, pos, c) /\ c.depth < c.limit =>
            RefBody(text, pos, c) = RefThen(one, rest, c)
  BY BodyCases
<1> HIDE DEF rest, d, one
<1>3. Goes(text, pos, c) /\ c.depth < c.limit => RefBody(text, pos, c) = Then(text, one, c)
  BY <1>1, <1>2
<1> QED BY <1>2, <1>3 DEF one, d

\* The answers of the rules are typed.
LEMMA RulesTyped ==
  ASSUME NEW text \in Seq(Token), NEW pos \in 1..(Len(text) + 1), NEW c, Within(c)
  PROVE  AnswersTyped(text, pos, c)
<1> DEFINE at == pos + 1
<1>1. pos \in 1..Len(text) => at \in 1..(Len(text) + 1) OBVIOUS
<1> HIDE DEF at
<1>2. pos \in 1..Len(text) => BodiesTyped(text, at) BY <1>1, BodyTyped
<1>3. pos \in 1..Len(text) => BodiesTyped(text, pos + 1) BY <1>2 DEF at
<1> QED BY <1>3, TypedFrom

LEMMA RuleTyped ==
  ASSUME NEW text \in Seq(Token), NEW pos \in 1..Len(text), NEW c, Within(c), NEW r \in Rule
  PROVE  Typed(RefAttempt(text, r, pos, c), c, pos + 1, Len(text) + 1)
<1> DEFINE at == pos + 1
           to == Len(text) + 1
           body == RefBody(text, at, RefInside(r, c))
<1>1. at \in 1..(Len(text) + 1) /\ to \in Nat /\ at <= to /\ pos \in Pos /\ at \in Nat BY DEF Pos
<1>2. Within(RefInside(r, c)) BY InsideContext
<1>3. BodiesTyped(text, at) BY <1>1, BodyTyped
<1>4. Typed(body, RefInside(r, c), pos + 1, to) BY <1>2, <1>3 DEF BodiesTyped
<1>5. RefAttempt(text, r, pos, c) = RefAttemptOf(body, r, pos, c) BY DEF RefAttempt
<1>6. pos + 1 <= to BY <1>1
<1> HIDE DEF body, to
<1>7. Typed(RefAttemptOf(body, r, pos, c), c, pos + 1, to) BY <1>1, <1>2, <1>4, <1>6, AttemptTyped
<1> QED BY <1>5, <1>7 DEF to

--------------------
(* The same attempt at another depth *)

LEMMA OkMoved ==
  ASSUME NEW to, NEW nodes, NEW errors, NEW registered, NEW t \in Nat, NEW u \in Nat,
         NEW d \in Nat, NEW e \in Nat, u + d = t + e
  PROVE  Moved(RefOk(to, nodes, errors, registered, t),
               RefOk(to, nodes, errors, registered, u), d, e)
  BY OkFields DEF Moved

LEMMA ErrMoved ==
  ASSUME NEW error, NEW t \in Nat, NEW u \in Nat,
         NEW d \in Nat, NEW e \in Nat, u + d = t + e
  PROVE  Moved(RefErr(error, t), RefErr(error, u), d, e)
<1>1. \A top : /\ RefErr(error, top).error = error /\ RefErr(error, top).to = 0
               /\ RefErr(error, top).nodes = << >> /\ RefErr(error, top).errors = {}
               /\ RefErr(error, top).notes = << >> /\ RefErr(error, top).top = top
  BY ErrFields
<1> QED BY <1>1 DEF Moved

LEMMA ClosedTop ==
  ASSUME NEW body, NEW r, NEW pos, NEW c PROVE RefClosed(body, r, pos, c).top = body.top
  BY OkFields, ErrFields DEF RefClosed

LEMMA ClosedMoved ==
  ASSUME NEW o \in RefOutcome, NEW p \in RefOutcome, NEW d \in Nat, NEW e \in Nat,
         Moved(o, p, d, e),
         NEW r, NEW pos, NEW b, NEW c, b.accepts = c.accepts
  PROVE  Moved(RefClosed(o, r, pos, b), RefClosed(p, r, pos, c), d, e)
<1>1. o.top \in Nat /\ p.top \in Nat /\ p.top + d = o.top + e /\ (RefWon(o) <=> RefWon(p))
      /\ p.to = o.to /\ p.nodes = o.nodes /\ p.errors = o.errors /\ p.notes = o.notes
  BY DEF Moved, RefWon, RefOutcome
<1>2. CASE ~RefWon(o) BY <1>1, <1>2 DEF RefClosed
<1>3. CASE RefWon(o) /\ Shape[r] = "item" /\ c.accepts # "item"
  <2>1. RefClosed(o, r, pos, b) = RefErr("partial", o.top)
        /\ RefClosed(p, r, pos, c) = RefErr("partial", p.top)
    BY <1>1, <1>3 DEF RefClosed
  <2> QED BY <1>1, <2>1, ErrMoved
<1>4. CASE RefWon(o) /\ ~(Shape[r] = "item" /\ c.accepts # "item") /\ Shape[r] = "note"
  <2> DEFINE to == o.to
             ns == <<Node("note", r, pos)>>
             es == o.errors
             rs == Append(o.notes, [at |-> pos, nodes |-> o.nodes])
  <2>1. RefClosed(o, r, pos, b) = RefOk(to, ns, es, rs, o.top)
        /\ RefClosed(p, r, pos, c) = RefOk(to, ns, es, rs, p.top)
    BY <1>1, <1>4 DEF RefClosed
  <2> HIDE DEF to, ns, es, rs
  <2> QED BY <1>1, <2>1, OkMoved
<1>5. CASE RefWon(o) /\ ~(Shape[r] = "item" /\ c.accepts # "item") /\ Shape[r] # "note"
  <2> DEFINE to == o.to
             ns == <<Node("open", r, pos)>> \o o.nodes \o <<Node("close", r, o.to - 1)>>
             es == o.errors
             rs == o.notes
  <2>1. RefClosed(o, r, pos, b) = RefOk(to, ns, es, rs, o.top)
        /\ RefClosed(p, r, pos, c) = RefOk(to, ns, es, rs, p.top)
    BY <1>1, <1>5 DEF RefClosed
  <2> HIDE DEF to, ns, es, rs
  <2> QED BY <1>1, <2>1, OkMoved
<1> QED BY <1>2, <1>3, <1>4, <1>5

LEMMA InsideFields ==
  ASSUME NEW r, NEW c \in RefContexts
  PROVE  /\ RefInside(r, c).rule = r
         /\ RefInside(r, c).accepts = (IF Shape[r] = "group" THEN "item" ELSE c.accepts)
         /\ RefInside(r, c).zone = (IF Shape[r] = "note" THEN "note" ELSE c.zone)
         /\ RefInside(r, c).depth = c.depth /\ RefInside(r, c).limit = c.limit
<1> DEFINE a == IF Shape[r] = "group" THEN "item" ELSE c.accepts
           z == IF Shape[r] = "note" THEN "note" ELSE c.zone
<1>1. RefInside(r, c) = [c EXCEPT !.rule = r, !.accepts = a, !.zone = z] BY DEF RefInside
<1> HIDE DEF a, z
<1>2. /\ RefInside(r, c).rule = r /\ RefInside(r, c).accepts = a
      /\ RefInside(r, c).zone = z
      /\ RefInside(r, c).depth = c.depth /\ RefInside(r, c).limit = c.limit
  BY <1>1 DEF RefContexts
<1> QED BY <1>2 DEF a, z

LEMMA AttemptMoved ==
  ASSUME NEW text \in Seq(Token), NEW pos \in 1..Len(text), BodiesMove(text, pos + 1),
         NEW r \in Rule, NEW c, Within(c), NEW e, Within(e),
         c.accepts = e.accepts, c.zone = e.zone,
         Room(RefAttempt(text, r, pos, c), c, e)
  PROVE  Moved(RefAttempt(text, r, pos, c), RefAttempt(text, r, pos, e), c.depth, e.depth)
<1> DEFINE a == RefInside(r, c)
           b == RefInside(r, e)
           at == pos + 1
           o == RefBody(text, at, a)
           p == RefBody(text, at, b)
<1>1. c.depth \in Nat /\ e.depth \in Nat /\ c \in RefContexts /\ e \in RefContexts
  BY DEF Within, RefContexts
<1>2. /\ Within(a) /\ Within(b) /\ a.depth = c.depth /\ b.depth = e.depth
      /\ a.limit = c.limit /\ b.limit = e.limit
  BY InsideContext
<1>3. Alike(a, b)
  <2> QED BY <1>1, InsideFields DEF Alike
<1>4. RefBodiless(r, c) <=> RefBodiless(r, e) BY DEF RefBodiless
<1>5. /\ RefAttempt(text, r, pos, c) = RefAttemptOf(o, r, pos, c)
      /\ RefAttempt(text, r, pos, e) = RefAttemptOf(p, r, pos, e)
  BY DEF RefAttempt
<1>6. CASE ~RefBodiless(r, c)
  <2>1. /\ RefAttempt(text, r, pos, c) = RefClosed(o, r, pos, c)
        /\ RefAttempt(text, r, pos, e) = RefClosed(p, r, pos, e)
    BY <1>4, <1>5, <1>6 DEF RefAttemptOf
  <2>2. Room(o, a, b)
    <3>1. RefClosed(o, r, pos, c).top = o.top BY ClosedTop
    <3> HIDE DEF o, a, b
    <3> QED BY <1>2, <2>1, <3>1 DEF Room
  <2>3. Moved(o, p, c.depth, e.depth)
    <3>1. Moved(o, p, a.depth, b.depth) BY <1>2, <1>3, <2>2 DEF BodiesMove
    <3> HIDE DEF o, p, a, b
    <3> QED BY <1>2, <3>1
  <2>4. o \in RefOutcome /\ p \in RefOutcome
    <3>1. at \in 1..(Len(text) + 1) OBVIOUS
    <3> HIDE DEF at, a, b
    <3>2. BodiesTyped(text, at) BY <3>1, BodyTyped
    <3> QED BY <1>2, <3>2 DEF BodiesTyped, Typed
  <2> HIDE DEF o, p
  <2>5. Moved(RefClosed(o, r, pos, c), RefClosed(p, r, pos, e), c.depth, e.depth)
    BY <1>1, <2>3, <2>4, ClosedMoved
  <2> QED BY <2>1, <2>5
<1> HIDE DEF o, p
<1>7. CASE RefBodiless(r, c) /\ Shape[r] = "leaf"
  <2> DEFINE ns == <<Node("leaf", r, pos)>>
             es == {}
             rs == << >>
  <2>1. /\ RefAttempt(text, r, pos, c) = RefOk(at, ns, es, rs, c.depth)
        /\ RefAttempt(text, r, pos, e) = RefOk(at, ns, es, rs, e.depth)
    BY <1>4, <1>5, <1>7 DEF RefAttemptOf
  <2>2. e.depth + c.depth = c.depth + e.depth BY <1>1
  <2> HIDE DEF ns, es, rs, at
  <2> QED BY <1>1, <2>1, <2>2, OkMoved
<1>8. CASE RefBodiless(r, c) /\ Shape[r] # "leaf"
  <2>1. /\ RefAttempt(text, r, pos, c) = RefErr("failed", c.depth)
        /\ RefAttempt(text, r, pos, e) = RefErr("failed", e.depth)
    BY <1>4, <1>5, <1>8 DEF RefAttemptOf
  <2>2. e.depth + c.depth = c.depth + e.depth BY <1>1
  <2> QED BY <1>1, <2>1, <2>2, ErrMoved
<1> QED BY <1>6, <1>7, <1>8

LEMMA TopMoved ==
  ASSUME NEW t, NEW u, NEW k, NEW d \in Nat, NEW e \in Nat, NEW x \in Nat, NEW y \in Nat,
         IsTop(x, t, k, d), IsTop(y, u, k, e), TopsMoved(t, u, k, d, e)
  PROVE  y + d = x + e
<1>1. \A i \in 1..k : t[i] \in Nat /\ u[i] \in Nat /\ u[i] + d = t[i] + e
                      /\ x >= t[i] /\ y >= u[i]
  BY DEF IsTop, TopsMoved
<1>2. x >= d /\ y >= e BY DEF IsTop
<1>3. y + d <= x + e
  <2>1. CASE y = e BY <1>2, <2>1
  <2>2. CASE \E i \in 1..k : y = u[i] BY <1>1, <2>2
  <2> QED BY <2>1, <2>2 DEF IsTop
<1>4. x + e <= y + d
  <2>1. CASE x = d BY <1>2, <2>1
  <2>2. CASE \E i \in 1..k : x = t[i] BY <1>1, <2>2
  <2> QED BY <2>1, <2>2 DEF IsTop
<1> QED BY <1>3, <1>4

LEMMA LowerRoom ==
  ASSUME NEW o, NEW p, NEW c, Within(c), NEW e, Within(e), o.top \in Nat, p.top \in Nat,
         o.top <= p.top, Room(p, c, e)
  PROVE  Room(o, c, e)
<1>1. c.depth \in Nat /\ c.limit \in Nat /\ e.depth \in Nat /\ e.limit \in Nat
  BY DEF Within, RefContexts
<1>2. p.top <= c.limit /\ p.top + e.depth <= e.limit + c.depth BY DEF Room
<1>3. o.top <= c.limit /\ o.top + e.depth <= e.limit + c.depth BY <1>1, <1>2
<1> QED BY <1>3 DEF Room

LEMMA ConsumeMoved ==
  ASSUME NEW text \in Seq(Token), NEW pos \in 1..(Len(text) + 1),
         pos \in 1..Len(text) => BodiesMove(text, pos + 1),
         NEW c, Within(c), NEW e, Within(e), Alike(c, e),
         Room(RefConsume(text, pos, c), c, e)
  PROVE  Moved(RefConsume(text, pos, c), RefConsume(text, pos, e), c.depth, e.depth)
<1> DEFINE A == Answers(text, pos, c)
           B == Answers(text, pos, e)
           N == Count(text, pos)
           one == RefConsume(text, pos, c)
           two == RefConsume(text, pos, e)
<1>1. N \in Nat /\ c.depth \in Nat /\ e.depth \in Nat BY TokenFacts DEF Within, RefContexts
<1>2. AnswersTyped(text, pos, c) /\ AnswersTyped(text, pos, e) BY RulesTyped
<1>3. /\ TopsOf(A, N) \in [1..N -> Nat] /\ TopsOf(B, N) \in [1..N -> Nat]
      /\ \A i \in 1..N : /\ TopsOf(A, N)[i] = A[i].top /\ TopsOf(B, N)[i] = B[i].top
                         /\ A[i].top \in Nat /\ B[i].top \in Nat
  <2>1. /\ TopsOf(A, N) \in [1..N -> Nat] /\ TopsOf(B, N) \in [1..N -> Nat] BY <1>2, TopsTyped
  <2>2. \A i \in 1..N : TopsOf(A, N)[i] = A[i].top /\ TopsOf(B, N)[i] = B[i].top BY DEF TopsOf
  <2> HIDE DEF A, B, N
  <2>3. \A i \in 1..N : TopsOf(A, N)[i] \in Nat /\ TopsOf(B, N)[i] \in Nat BY <2>1
  <2> QED BY <2>1, <2>2, <2>3
<1>4. ASSUME NEW i \in 1..N, one.top \in Nat, A[i].top <= one.top
      PROVE  Moved(A[i], B[i], c.depth, e.depth)
  <2> DEFINE r == Turns(text, pos)[i]
  <2>1. r \in Rule /\ pos \in 1..Len(text) BY TokenFacts
  <2>2. A[i] = RefAttempt(text, r, pos, c) /\ B[i] = RefAttempt(text, r, pos, e) BY DEF Answers
  <2>3. A[i].top \in Nat BY <1>3
  <2> HIDE DEF A, B, one, r
  <2>4. Room(one, c, e) BY DEF one
  <2>5. Room(A[i], c, e)
    <3> DEFINE o == A[i]
    <3>1. o.top \in Nat /\ o.top <= one.top BY <1>4, <2>3
    <3> HIDE DEF o
    <3>2. Room(o, c, e) BY <1>4, <2>4, <3>1, LowerRoom
    <3> QED BY <3>2 DEF o
  <2>6. Moved(RefAttempt(text, r, pos, c), RefAttempt(text, r, pos, e), c.depth, e.depth)
    <3>1. c.accepts = e.accepts /\ c.zone = e.zone BY DEF Alike
    <3> QED BY <2>1, <2>2, <2>5, <3>1, AttemptMoved
  <2> QED BY <2>2, <2>6
<1>5. ASSUME NEW k \in 1..N, FirstWon(A, k) PROVE Moved(one, two, c.depth, e.depth)
  <2>1. WonAs(one, A[k], A, N, k, c.depth) BY <1>2, <1>5, ConsumeWon
  <2>2. one.top \in Nat /\ IsTop(one.top, TopsOf(A, N), k, c.depth) BY <2>1 DEF WonAs
  <2>3. \A i \in 1..k : i \in 1..N /\ A[i].top <= one.top
    <3>1. \A i \in 1..k : i \in 1..N BY <1>1
    <3>2. \A i \in 1..k : TopsOf(A, N)[i] <= one.top BY <1>3, <2>2, <3>1 DEF IsTop
    <3> QED BY <1>3, <3>1, <3>2
  <2>4. \A i \in 1..k : Moved(A[i], B[i], c.depth, e.depth) BY <1>4, <2>2, <2>3
  <2>5. \A i \in 1..k : (RefWon(A[i]) <=> RefWon(B[i])) BY <2>4 DEF Moved, RefWon
  <2>6. FirstWon(B, k)
    <3>1. k \in 1..k /\ \A j \in 1..(k - 1) : j \in 1..k BY <1>1
    <3> QED BY <1>5, <2>5, <3>1 DEF FirstWon
  <2>7. WonAs(two, B[k], B, N, k, e.depth) BY <1>2, <2>6, ConsumeWon
  <2>8. two.top \in Nat /\ IsTop(two.top, TopsOf(B, N), k, e.depth) BY <2>7 DEF WonAs
  <2>9. \A i \in 1..k : TopsOf(B, N)[i] + c.depth = TopsOf(A, N)[i] + e.depth
    BY <1>3, <2>3, <2>4 DEF Moved
  <2> DEFINE t == TopsOf(A, N)
             u == TopsOf(B, N)
             x == one.top
             y == two.top
             d1 == c.depth
             d2 == e.depth
  <2>10. y + d1 = x + d2
    <3>1. x \in Nat /\ y \in Nat /\ d1 \in Nat /\ d2 \in Nat
          /\ IsTop(x, t, k, d1) /\ IsTop(y, u, k, d2)
      BY <1>1, <2>2, <2>8
    <3>2. TopsMoved(t, u, k, d1, d2)
      <4>1. \A i \in 1..k : i \in 1..N BY <1>1
      <4>2. \A i \in 1..N : t[i] \in Nat /\ u[i] \in Nat BY <1>3
      <4> HIDE DEF N
      <4> QED BY <2>9, <4>1, <4>2 DEF TopsMoved
    <3> HIDE DEF t, u, x, y, d1, d2, N
    <3> QED BY <3>1, <3>2, TopMoved
  <2> DEFINE a == A[k]
             b == B[k]
  <2>11. b.to = a.to /\ b.nodes = a.nodes /\ b.errors = a.errors /\ b.notes = a.notes
    <3>1. k \in 1..k BY <1>1
    <3> QED BY <2>4, <3>1 DEF Moved
  <2>12. one = RefOk(a.to, a.nodes, a.errors, a.notes, x)
         /\ two = RefOk(b.to, b.nodes, b.errors, b.notes, y)
    BY <2>1, <2>7 DEF WonAs
  <2> DEFINE to == a.to
             ns == a.nodes
             es == a.errors
             rs == a.notes
  <2>13. one = RefOk(to, ns, es, rs, x) /\ two = RefOk(to, ns, es, rs, y) BY <2>11, <2>12
  <2>14. x \in Nat /\ y \in Nat BY <2>2, <2>8
  <2> HIDE DEF to, ns, es, rs, x, y, one, two
  <2> QED BY <1>1, <2>10, <2>13, <2>14, OkMoved
<1>6. ASSUME \A j \in 1..N : ~RefWon(A[j]) PROVE Moved(one, two, c.depth, e.depth)
  <2>1. LostAs(one, text, pos, A, N, c.depth) BY <1>2, <1>6, ConsumeLost
  <2>2. one.top \in Nat /\ IsTop(one.top, TopsOf(A, N), N, c.depth) BY <2>1 DEF LostAs
  <2>3. \A i \in 1..N : A[i].top <= one.top
    <3>2. \A i \in 1..N : TopsOf(A, N)[i] <= one.top BY <1>3, <2>2 DEF IsTop
    <3> QED BY <1>3, <3>2
  <2>4. \A i \in 1..N : Moved(A[i], B[i], c.depth, e.depth) BY <1>4, <2>2, <2>3
  <2>5. \A i \in 1..N : ~RefWon(B[i]) BY <1>6, <2>4 DEF Moved, RefWon
  <2>7. LostAs(two, text, pos, B, N, e.depth) BY <1>2, <2>5, ConsumeLost
  <2>8. two.top \in Nat /\ IsTop(two.top, TopsOf(B, N), N, e.depth) BY <2>7 DEF LostAs
  <2>9. \A i \in 1..N : TopsOf(B, N)[i] + c.depth = TopsOf(A, N)[i] + e.depth
    BY <1>3, <2>4 DEF Moved
  <2> DEFINE t == TopsOf(A, N)
             u == TopsOf(B, N)
             x == one.top
             y == two.top
             d1 == c.depth
             d2 == e.depth
  <2>10. y + d1 = x + d2
    <3>1. x \in Nat /\ y \in Nat /\ d1 \in Nat /\ d2 \in Nat
          /\ IsTop(x, t, N, d1) /\ IsTop(y, u, N, d2)
      BY <1>1, <2>2, <2>8
    <3>2. TopsMoved(t, u, N, d1, d2)
      <4>1. \A i \in 1..N : i \in 1..N BY <1>1
      <4>2. \A i \in 1..N : t[i] \in Nat /\ u[i] \in Nat BY <1>3
      <4> HIDE DEF N
      <4> QED BY <2>9, <4>1, <4>2 DEF TopsMoved
    <3> HIDE DEF t, u, x, y, d1, d2, N
    <3> QED BY <3>1, <3>2, TopMoved
  <2>11. \A i \in 1..N : B[i].error = A[i].error BY <2>4 DEF Moved
  <2>12. ErrorsOf(B, N) = ErrorsOf(A, N) /\ LastError(B, N) = LastError(A, N)
    <3>1. N # 0 => N \in 1..N BY <1>1
    <3> HIDE DEF A, B, N
    <3>2. LastError(B, N) = LastError(A, N) BY <2>11, <3>1 DEF LastError
    <3>3. {B[i].error : i \in 1..N} = {A[i].error : i \in 1..N} BY <2>11
    <3> QED BY <3>2, <3>3 DEF ErrorsOf
  <2> DEFINE es == ErrorsOf(A, N)
             last == LastError(A, N)
             ns == <<Node("text", Page, pos)>>
             rs == << >>
             to == pos + 1
  <2>13. one = LostAt(text, pos, es, last, x) /\ two = LostAt(text, pos, es, last, y)
    BY <2>1, <2>7, <2>12 DEF LostAs
  <2>14. x \in Nat /\ y \in Nat BY <2>2, <2>8
  <2>15. \A z : LostAt(text, pos, es, last, z) =
                 IF RefToken(text, pos) = "end" THEN RefErr("end", z)
                 ELSE IF last = "depth" THEN RefErr("depth", z)
                 ELSE RefOk(to, ns, es, rs, z)
    BY DEF LostAt
  <2> HIDE DEF es, last, ns, rs, to, x, y, one, two
  <2>16. CASE RefToken(text, pos) = "end" BY <1>1, <2>10, <2>13, <2>14, <2>15, <2>16, ErrMoved
  <2>17. CASE RefToken(text, pos) # "end" /\ last = "depth"
    BY <1>1, <2>10, <2>13, <2>14, <2>15, <2>17, ErrMoved
  <2>18. CASE RefToken(text, pos) # "end" /\ last # "depth"
    BY <1>1, <2>10, <2>13, <2>14, <2>15, <2>18, OkMoved
  <2> QED BY <2>16, <2>17, <2>18
<1>7. (\E k \in 1..N : FirstWon(A, k)) \/ \A j \in 1..N : ~RefWon(A[j]) BY <1>1, WinnerExists
<1>8. Moved(one, two, c.depth, e.depth) BY <1>5, <1>6, <1>7
<1> QED BY <1>8

LEMMA FollowMoved ==
  ASSUME NEW o \in RefOutcome, NEW p \in RefOutcome,
         NEW u \in RefOutcome, NEW v \in RefOutcome,
         NEW d \in Nat, NEW e \in Nat,
         Moved(o, p, d, e), Moved(u, v, d, e)
  PROVE  Moved(RefFollow(o, u), RefFollow(p, v), d, e)
<1> DEFINE s == Larger(o.top, u.top)
           t == Larger(p.top, v.top)
<1>1. /\ o.top \in Nat /\ p.top \in Nat /\ u.top \in Nat /\ v.top \in Nat
      /\ p.top + d = o.top + e /\ v.top + d = u.top + e
  BY DEF Moved, RefOutcome
<1>2. s \in Nat /\ t \in Nat /\ t + d = s + e
  <2>1. s \in Nat /\ t \in Nat BY <1>1 DEF Larger
  <2> DEFINE a == o.top
             b == u.top
             x == p.top
             y == v.top
  <2>2. a \in Nat /\ b \in Nat /\ x \in Nat /\ y \in Nat /\ x + d = a + e /\ y + d = b + e BY <1>1
  <2> HIDE DEF a, b, x, y
  <2>3. Larger(x, y) + d = Larger(a, b) + e BY ONLY <2>2 DEF Larger
  <2> QED BY <2>1, <2>3 DEF a, b, x, y
<1>3. /\ p.nodes = o.nodes /\ p.errors = o.errors /\ p.notes = o.notes
      /\ v.error = u.error /\ v.to = u.to /\ v.nodes = u.nodes /\ v.errors = u.errors
      /\ v.notes = u.notes /\ (RefWon(v) <=> RefWon(u))
  BY DEF Moved, RefWon
<1> DEFINE to == u.to
           ns == o.nodes \o u.nodes
           es == o.errors \cup u.errors
           rs == o.notes \o u.notes
           error == u.error
<1>4. CASE RefWon(u)
  <2>1. RefFollow(o, u) = RefOk(to, ns, es, rs, s) /\ RefFollow(p, v) = RefOk(to, ns, es, rs, t)
    BY <1>3, <1>4 DEF RefFollow
  <2> HIDE DEF to, ns, es, rs, s, t
  <2> QED BY <1>2, <2>1, OkMoved
<1>5. CASE ~RefWon(u)
  <2>1. RefFollow(o, u) = RefErr(error, s) /\ RefFollow(p, v) = RefErr(error, t)
    BY <1>3, <1>5 DEF RefFollow
  <2> HIDE DEF error, s, t
  <2> QED BY <1>2, <2>1, ErrMoved
<1> QED BY <1>4, <1>5

\* What follows does not go deeper than both.
LEMMA FollowTop ==
  ASSUME NEW o, NEW u
  PROVE  /\ RefFollow(o, u).top = Larger(o.top, u.top)
         /\ RefFollow(o, u).error = u.error
         /\ RefWon(u) <=> RefWon(RefFollow(o, u))
<1> DEFINE top == Larger(o.top, u.top)
<1>1. CASE RefWon(u) BY <1>1, OkFields DEF RefFollow, RefWon
<1>2. CASE ~RefWon(u)
  <2>1. RefFollow(o, u) = RefErr(u.error, top) BY <1>2 DEF RefFollow
  <2>2. RefErr(u.error, top).top = top /\ RefErr(u.error, top).error = u.error BY ErrFields
  <2> QED BY <2>1, <2>2 DEF RefWon
<1> QED BY <1>1, <1>2

LEMMA ThenMoved ==
  ASSUME NEW text \in Seq(Token), NEW pos \in 1..(Len(text) + 1),
         \A at \in (pos + 1)..(Len(text) + 1) : BodiesMove(text, at),
         NEW c, Within(c), NEW e, Within(e), Alike(c, e),
         NEW a, NEW b, a.depth = c.depth + 1, b.depth = e.depth + 1, a.limit = c.limit,
         NEW o, Typed(o, a, pos + 1, Len(text) + 1),
         NEW p, Typed(p, b, pos + 1, Len(text) + 1),
         Moved(o, p, a.depth, b.depth),
         Room(Then(text, o, c), c, e)
  PROVE  Moved(Then(text, o, c), Then(text, p, e), c.depth, e.depth)
<1>1. c.depth \in Nat /\ e.depth \in Nat /\ c.limit \in Nat /\ e.limit \in Nat
  BY DEF Within, RefContexts
<1>2. o \in RefOutcome /\ p \in RefOutcome /\ o.top \in Nat /\ p.top \in Nat
      /\ o.top >= c.depth + 1 /\ p.top >= e.depth + 1
  BY DEF Typed, RefOutcome
<1>3. Moved(o, p, c.depth, e.depth)
  <2>1. p.top + (c.depth + 1) = o.top + (e.depth + 1) BY DEF Moved
  <2>2. p.top + c.depth = o.top + e.depth
    <3> DEFINE w == p.top
               x == o.top
               y == c.depth
               z == e.depth
    <3>1. w \in Nat /\ x \in Nat /\ y \in Nat /\ z \in Nat /\ w + (y + 1) = x + (z + 1)
      BY <1>1, <1>2, <2>1
    <3> HIDE DEF w, x, y, z
    <3>2. w + y = x + z BY ONLY <3>1
    <3> QED BY <3>2 DEF w, x, y, z
  <2> QED BY <2>2 DEF Moved
<1>4. (RefWon(o) <=> RefWon(p)) /\ p.error = o.error /\ p.to = o.to
      /\ p.top + c.depth = o.top + e.depth
  BY <1>3 DEF Moved, RefWon
<1>5. CASE ~RefWon(o)
  <2> DEFINE s == Larger(c.depth, o.top)
             t == Larger(e.depth, p.top)
             error == o.error
  <2>1. Then(text, o, c) = RefErr(error, s) /\ Then(text, p, e) = RefErr(error, t)
    BY <1>4, <1>5 DEF Then
  <2>2. s = o.top /\ t = p.top BY <1>1, <1>2 DEF Larger
  <2>3. s \in Nat /\ t \in Nat /\ t + c.depth = s + e.depth BY <1>2, <1>4, <2>2
  <2> HIDE DEF s, t, error
  <2> QED BY <1>1, <2>1, <2>3, ErrMoved
<1>6. CASE RefWon(o)
  <2> DEFINE at == o.to
             u == RefBody(text, at, c)
             v == RefBody(text, at, e)
  <2>1. Then(text, o, c) = RefFollow(o, u) /\ Then(text, p, e) = RefFollow(p, v)
    BY <1>4, <1>6 DEF Then
  <2>2. at \in (pos + 1)..(Len(text) + 1) /\ at \in 1..(Len(text) + 1) BY <1>6 DEF Typed
  <2>3. u \in RefOutcome /\ v \in RefOutcome /\ u.top \in Nat
    <3> HIDE DEF at
    <3>1. BodiesTyped(text, at) BY <2>2, BodyTyped
    <3> QED BY <3>1 DEF BodiesTyped, Typed, RefOutcome
  <2>4. Room(u, c, e)
    <3> DEFINE f == RefFollow(o, u)
    <3>1. f.top = Larger(o.top, u.top) BY FollowTop
    <3>2. f.top \in Nat /\ u.top <= f.top BY <1>2, <2>3, <3>1 DEF Larger
    <3>3. Room(f, c, e) BY <2>1
    <3> HIDE DEF f, u
    <3> QED BY <2>3, <3>2, <3>3, LowerRoom
  <2>5. Moved(u, v, c.depth, e.depth)
    <3> HIDE DEF at
    <3>1. BodiesMove(text, at) BY <2>2
    <3> QED BY <2>4, <3>1 DEF BodiesMove
  <2> HIDE DEF u, v
  <2> QED BY <1>1, <1>2, <1>3, <2>1, <2>3, <2>5, FollowMoved
<1> QED BY <1>5, <1>6

LEMMA BodyStepMoved ==
  ASSUME NEW text \in Seq(Token), NEW pos \in 1..(Len(text) + 1),
         \A at \in (pos + 1)..(Len(text) + 1) : BodiesMove(text, at)
  PROVE  BodiesMove(text, pos)
<1> SUFFICES ASSUME NEW c, NEW e, Within(c), Within(e), Alike(c, e),
                    Room(RefBody(text, pos, c), c, e)
             PROVE  Moved(RefBody(text, pos, c), RefBody(text, pos, e), c.depth, e.depth)
  BY DEF BodiesMove
<1> DEFINE tok == RefToken(text, pos)
           from == pos + 1
           ns == << >>
           es == {}
           rs == << >>
           d1 == c.depth
           d2 == e.depth
           o == RefBody(text, pos, c)
           p == RefBody(text, pos, e)
           a == Deeper(c)
           b == Deeper(e)
<1>1. d1 \in Nat /\ c.limit \in Nat /\ d1 <= c.limit /\ d2 \in Nat /\ e.limit \in Nat
      /\ d2 <= e.limit /\ d2 + d1 = d1 + d2
  BY DEF Within, RefContexts
<1>2. /\ RefCloses(c, tok) <=> RefCloses(e, tok)
      /\ RefCut(c, tok) <=> RefCut(e, tok)
      /\ RefSteps(c, tok) <=> RefSteps(e, tok)
      /\ RefRunsOut(c, tok) <=> RefRunsOut(e, tok)
      /\ Goes(text, pos, c) <=> Goes(text, pos, e)
      /\ c.rule = e.rule
  BY DEF Alike, RefCloses, RefCut, RefSteps, RefRunsOut, Goes
<1>3. \A x \in {c, e} :
      /\ RefCloses(x, tok) => RefBody(text, pos, x) = RefOk(from, ns, es, rs, x.depth)
      /\ ~RefCloses(x, tok) /\ RefCut(x, tok) => RefBody(text, pos, x) = RefErr("failed", x.depth)
      /\ ~RefCloses(x, tok) /\ ~RefCut(x, tok) /\ RefSteps(x, tok) =>
            RefBody(text, pos, x) = RefBody(text, from, x) /\ from \in 1..(Len(text) + 1)
      /\ ~RefCloses(x, tok) /\ ~RefCut(x, tok) /\ ~RefSteps(x, tok) /\ RefRunsOut(x, tok) =>
            RefBody(text, pos, x) =
              IF x.rule = Page THEN RefOk(pos, ns, es, rs, x.depth) ELSE RefErr("end", x.depth)
      /\ Goes(text, pos, x) /\ x.depth >= x.limit =>
            RefBody(text, pos, x) = RefErr("depth", x.limit + 1)
      /\ Goes(text, pos, x) /\ x.depth < x.limit =>
            RefBody(text, pos, x) = Then(text, RefConsume(text, pos, Deeper(x)), x)
  <2>1. \A x \in {c, e} : Within(x) OBVIOUS
  <2> QED BY <2>1, BodyIs
<1>4. CASE RefCloses(c, tok)
  <2>1. o = RefOk(from, ns, es, rs, d1) /\ p = RefOk(from, ns, es, rs, d2) BY <1>2, <1>3, <1>4
  <2> HIDE DEF from, ns, es, rs, d1, d2, o, p
  <2>2. Moved(o, p, d1, d2) BY <1>1, <2>1, OkMoved
  <2> QED BY <2>2 DEF o, p, d1, d2
<1>5. CASE ~RefCloses(c, tok) /\ RefCut(c, tok)
  <2>1. o = RefErr("failed", d1) /\ p = RefErr("failed", d2) BY <1>2, <1>3, <1>5
  <2> HIDE DEF d1, d2, o, p
  <2>2. Moved(o, p, d1, d2) BY <1>1, <2>1, ErrMoved
  <2> QED BY <2>2 DEF o, p, d1, d2
<1>6. CASE ~RefCloses(c, tok) /\ ~RefCut(c, tok) /\ RefSteps(c, tok)
  <2>1. o = RefBody(text, from, c) /\ p = RefBody(text, from, e)
        /\ from \in (pos + 1)..(Len(text) + 1)
    BY <1>2, <1>3, <1>6
  <2>2. BodiesMove(text, from) BY <2>1
  <2> HIDE DEF from
  <2> QED BY <2>1, <2>2 DEF BodiesMove
<1>7. CASE ~RefCloses(c, tok) /\ ~RefCut(c, tok) /\ ~RefSteps(c, tok) /\ RefRunsOut(c, tok)
  <2>1. CASE c.rule = Page
    <3>1. o = RefOk(pos, ns, es, rs, d1) /\ p = RefOk(pos, ns, es, rs, d2) BY <1>2, <1>3, <1>7, <2>1
    <3> HIDE DEF ns, es, rs, d1, d2, o, p
    <3>2. Moved(o, p, d1, d2) BY <1>1, <3>1, OkMoved
    <3> QED BY <3>2 DEF o, p, d1, d2
  <2>2. CASE c.rule # Page
    <3>1. o = RefErr("end", d1) /\ p = RefErr("end", d2) BY <1>2, <1>3, <1>7, <2>2
    <3> HIDE DEF d1, d2, o, p
    <3>2. Moved(o, p, d1, d2) BY <1>1, <3>1, ErrMoved
    <3> QED BY <3>2 DEF o, p, d1, d2
  <2> QED BY <2>1, <2>2
<1>8. CASE Goes(text, pos, c) /\ d1 >= c.limit
  <2>1. o = RefErr("depth", c.limit + 1) BY <1>3, <1>8
  <2>2. o.top = c.limit + 1 BY <2>1, ErrFields
  <2>3. o.top <= c.limit BY DEF Room
  <2> QED BY <1>1, <2>2, <2>3
<1>9. CASE Goes(text, pos, c) /\ d1 < c.limit
  <2> DEFINE x == RefConsume(text, pos, a)
             y == RefConsume(text, pos, b)
             n == Len(text) + 1
  <2>1. /\ Within(a) /\ a.depth = c.depth + 1 /\ a.limit = c.limit
        /\ a.rule = c.rule /\ a.accepts = c.accepts /\ a.zone = c.zone
    BY <1>9, DeeperContext DEF Deeper
  <2>2. o = Then(text, x, c) BY <1>3, <1>9
  <2>3. AnswersTyped(text, pos, a) BY <2>1, RulesTyped
  <2>4. Typed(x, a, pos + 1, n) BY <2>1, <2>3, ConsumeTyped
  <2> HIDE DEF x, n, a
  <2>5. x.top \in Nat /\ x.top >= d1 + 1 /\ x \in RefOutcome BY <2>1, <2>4 DEF Typed, RefOutcome
  <2>6. o.top \in Nat /\ x.top <= o.top
    <3>1. RefWon(x) => RefBody(text, x.to, c).top \in Nat
      <4> DEFINE at == x.to
      <4>1. RefWon(x) => at \in 1..(Len(text) + 1) BY <2>4 DEF Typed, n
      <4> HIDE DEF at
      <4>2. RefWon(x) => BodiesTyped(text, at) BY <4>1, BodyTyped
      <4>3. RefWon(x) => RefBody(text, at, c).top \in Nat BY <4>2 DEF BodiesTyped, Typed, RefOutcome
      <4> QED BY <4>3 DEF at
    <3>2. o.top = IF RefWon(x) THEN Larger(x.top, RefBody(text, x.to, c).top)
                             ELSE Larger(d1, x.top)
      <4>1. CASE RefWon(x)
        <5> DEFINE u == RefBody(text, x.to, c)
        <5>1. o = RefFollow(x, u) BY <2>2, <4>1 DEF Then
        <5> HIDE DEF u
        <5>2. o.top = Larger(x.top, u.top) BY <5>1, FollowTop
        <5> QED BY <4>1, <5>2 DEF u
      <4>2. CASE ~RefWon(x)
        <5> DEFINE s == Larger(d1, x.top)
        <5>1. o = RefErr(x.error, s) BY <2>2, <4>2 DEF Then
        <5>2. o.top = s BY <5>1, ErrFields
        <5> QED BY <4>2, <5>2
      <4> QED BY <4>1, <4>2
    <3> HIDE DEF o
    <3> QED BY <1>1, <2>5, <3>1, <3>2 DEF Larger
  <2>7. x.top <= c.limit /\ x.top + d2 <= e.limit + d1
    <3>1. o.top <= c.limit /\ o.top + d2 <= e.limit + d1 BY DEF Room
    <3> HIDE DEF o, d1, d2
    <3> QED BY <1>1, <2>5, <2>6, <3>1
  <2>8. d2 < e.limit BY <1>1, <2>5, <2>7
  <2>9. /\ Within(b) /\ b.depth = e.depth + 1 /\ b.limit = e.limit
        /\ b.rule = e.rule /\ b.accepts = e.accepts /\ b.zone = e.zone
    BY <2>8, DeeperContext DEF Deeper
  <2>10. p = Then(text, y, e) BY <1>2, <1>3, <1>9, <2>8
  <2>11. AnswersTyped(text, pos, b) BY <2>9, RulesTyped
  <2>12. Typed(y, b, pos + 1, n) BY <2>9, <2>11, ConsumeTyped DEF n
  <2>13. Alike(a, b) BY <2>1, <2>9 DEF Alike
  <2>14. Room(x, a, b)
    <3>1. x.top <= a.limit BY <2>1, <2>7
    <3>2. x.top + (d2 + 1) <= e.limit + (d1 + 1) BY <1>1, <2>5, <2>7
    <3>3. x.top + b.depth <= b.limit + a.depth BY <2>1, <2>9, <3>2
    <3> QED BY <3>1, <3>3 DEF Room
  <2> HIDE DEF b
  <2>15. Moved(x, y, a.depth, b.depth)
    <3>1. pos \in 1..Len(text) => BodiesMove(text, pos + 1)
      <4>1. pos \in 1..Len(text) => pos + 1 \in (pos + 1)..(Len(text) + 1) OBVIOUS
      <4> QED BY <4>1
    <3>2. Room(RefConsume(text, pos, a), a, b) BY <2>14 DEF x
    <3>3. Moved(RefConsume(text, pos, a), RefConsume(text, pos, b), a.depth, b.depth)
      BY <2>1, <2>9, <2>13, <3>1, <3>2, ConsumeMoved
    <3> QED BY <3>3 DEF x
  <2>16. Room(Then(text, x, c), c, e) BY <2>2
  <2> HIDE DEF y
  <2>17. Typed(x, a, pos + 1, Len(text) + 1) /\ Typed(y, b, pos + 1, Len(text) + 1)
    BY <2>4, <2>12 DEF n
  <2>18. Moved(Then(text, x, c), Then(text, y, e), c.depth, e.depth)
    BY <2>1, <2>9, <2>15, <2>16, <2>17, ThenMoved
  <2> QED BY <2>2, <2>10, <2>18
<1> QED BY <1>1, <1>4, <1>5, <1>6, <1>7, <1>8, <1>9 DEF Goes

LEMMA BodyMoved ==
  ASSUME NEW text \in Seq(Token), NEW pos \in 1..(Len(text) + 1) PROVE BodiesMove(text, pos)
<1> DEFINE n == Len(text) + 1
           S == {p \in 1..n : BodiesMove(text, p)}
<1>1. n \in Nat /\ pos \in 1..n OBVIOUS
<1>2. ASSUME NEW p \in 1..n, \A q \in (p + 1)..n : q \in S PROVE p \in S
  <2>1. \A q \in (p + 1)..n : BodiesMove(text, q) BY <1>2
  <2>2. BodiesMove(text, p) BY <2>1, BodyStepMoved
  <2> QED BY <2>2
<1>3. S \in SUBSET (1..n) OBVIOUS
<1> HIDE DEF n
<1>4. S = 1..n BY <1>1, <1>2, <1>3, FromTheEnd
<1> QED BY <1>1, <1>4

\* An attempt answers the same wherever it has the room it needs.
LEMMA RuleMoved ==
  ASSUME NEW text \in Seq(Token), NEW pos \in 1..Len(text), NEW r \in Rule,
         NEW c, Within(c), NEW e, Within(e), c.accepts = e.accepts, c.zone = e.zone,
         Room(RefAttempt(text, r, pos, c), c, e)
  PROVE  Moved(RefAttempt(text, r, pos, c), RefAttempt(text, r, pos, e), c.depth, e.depth)
<1> DEFINE at == pos + 1
<1>1. at \in 1..(Len(text) + 1) OBVIOUS
<1>2. BodiesMove(text, at) BY <1>1, BodyMoved
<1> QED BY <1>2, AttemptMoved

--------------------
(* A body, part of which has been walked *)

LEMMA BodyOutcome ==
  ASSUME NEW text \in Seq(Token), NEW pos \in 1..(Len(text) + 1), NEW c, Within(c)
  PROVE  /\ RefBody(text, pos, c) \in RefOutcome /\ RefBody(text, pos, c).top \in Nat
         /\ RefBody(text, pos, c).top >= c.depth
         /\ Typed(RefBody(text, pos, c), c, pos, Len(text) + 1)
<1>1. BodiesTyped(text, pos) BY BodyTyped
<1> QED BY <1>1 DEF BodiesTyped, Typed, RefOutcome

LEMMA FollowUnit ==
  ASSUME NEW to, NEW c, c.depth \in Nat, NEW from, NEW upto, NEW o, Typed(o, c, from, upto)
  PROVE  RefFollow(RefOk(to, << >>, {}, << >>, c.depth), o) = o
<1> DEFINE unit == RefOk(to, << >>, {}, << >>, c.depth)
<1>1. unit.top = c.depth /\ unit.nodes = << >> /\ unit.errors = {} /\ unit.notes = << >> BY OkFields
<1>2. o \in RefOutcome /\ o.top >= c.depth /\ o.top \in Nat /\ o.nodes \in Nodes
      /\ o.notes \in Seq(Note)
  BY DEF Typed, RefOutcome
<1> HIDE DEF unit
<1>3. Larger(unit.top, o.top) = o.top BY <1>1, <1>2 DEF Larger
<1>4. CASE ~RefWon(o)
  <2>1. RefFollow(unit, o) = RefErr(o.error, o.top) BY <1>3, <1>4 DEF RefFollow
  <2> QED BY <1>4, <2>1 DEF Typed, unit
<1>5. CASE RefWon(o)
  <2>1. << >> \o o.nodes = o.nodes /\ << >> \o o.notes = o.notes /\ {} \cup o.errors = o.errors
    BY <1>2 DEF Nodes
  <2>2. RefFollow(unit, o) = RefOk(o.to, o.nodes, o.errors, o.notes, o.top)
    BY <1>1, <1>3, <1>5, <2>1 DEF RefFollow
  <2> QED BY <1>2, <1>5, <2>2, OkForm DEF unit
<1> QED BY <1>4, <1>5

LEMMA ConcatAssociates ==
  ASSUME NEW S, NEW x \in Seq(S), NEW y \in Seq(S), NEW z \in Seq(S)
  PROVE  x \o (y \o z) = (x \o y) \o z
<1> DEFINE l == x \o (y \o z)
           r == (x \o y) \o z
<1>1. l \in Seq(S) /\ r \in Seq(S) /\ x \o y \in Seq(S) /\ y \o z \in Seq(S) OBVIOUS
<1>2. Len(l) = Len(x) + (Len(y) + Len(z)) /\ Len(r) = (Len(x) + Len(y)) + Len(z) BY <1>1
<1>3. Len(x) \in Nat /\ Len(y) \in Nat /\ Len(z) \in Nat OBVIOUS
<1>4. Len(l) = Len(r) BY <1>2, <1>3
<1>5. ASSUME NEW i \in 1..Len(l) PROVE l[i] = r[i]
  <2>1. CASE i <= Len(x) BY <1>2, <1>3, <2>1
  <2>2. CASE i > Len(x) /\ i <= Len(x) + Len(y) BY <1>2, <1>3, <2>2
  <2>3. CASE i > Len(x) + Len(y) BY <1>2, <1>3, <2>3
  <2> QED BY <1>3, <2>1, <2>2, <2>3
<1> HIDE DEF l, r
<1>6. l = r BY <1>1, <1>4, <1>5
<1> QED BY <1>6 DEF l, r

LEMMA NodesAssociate ==
  ASSUME NEW x \in Nodes, NEW y \in Nodes, NEW z \in Nodes PROVE x \o (y \o z) = (x \o y) \o z
  BY ConcatAssociates DEF Nodes

LEMMA NotesAssociate ==
  ASSUME NEW x \in Seq(Note), NEW y \in Seq(Note), NEW z \in Seq(Note)
  PROVE  x \o (y \o z) = (x \o y) \o z
  BY ConcatAssociates

LEMMA FollowFollows ==
  ASSUME NEW a \in RefOutcome, NEW b \in RefOutcome, RefWon(b), NEW o \in RefOutcome,
         NEW to
  PROVE  RefFollow(a, RefFollow(b, o)) =
            RefFollow(RefOk(to, a.nodes \o b.nodes, a.errors \cup b.errors,
                            a.notes \o b.notes, Larger(a.top, b.top)), o)
<1> DEFINE ab == RefOk(to, a.nodes \o b.nodes, a.errors \cup b.errors,
                       a.notes \o b.notes, Larger(a.top, b.top))
           bo == RefFollow(b, o)
<1>1. a.top \in Nat /\ b.top \in Nat /\ o.top \in Nat
      /\ a.nodes \in Nodes /\ b.nodes \in Nodes /\ o.nodes \in Nodes
      /\ a.notes \in Seq(Note) /\ b.notes \in Seq(Note) /\ o.notes \in Seq(Note)
  BY DEF RefOutcome
<1>2. /\ ab.nodes = a.nodes \o b.nodes /\ ab.errors = a.errors \cup b.errors
      /\ ab.notes = a.notes \o b.notes /\ ab.top = Larger(a.top, b.top)
  <2> DEFINE ns == a.nodes \o b.nodes
             es == a.errors \cup b.errors
             rs == a.notes \o b.notes
             t == Larger(a.top, b.top)
  <2> HIDE DEF ns, es, rs, t
  <2>1. LET x == RefOk(to, ns, es, rs, t)
        IN  x.nodes = ns /\ x.errors = es /\ x.notes = rs /\ x.top = t
    BY OkFields
  <2> QED BY <2>1 DEF ns, es, rs, t
<1> HIDE DEF ab
<1>3. Larger(ab.top, o.top) = Larger(a.top, Larger(b.top, o.top))
  <2> DEFINE x == a.top
             y == b.top
             z == o.top
  <2>1. x \in Nat /\ y \in Nat /\ z \in Nat /\ ab.top = Larger(x, y) BY <1>1, <1>2
  <2> HIDE DEF x, y, z
  <2>2. Larger(ab.top, z) = Larger(x, Larger(y, z)) BY <2>1 DEF Larger
  <2> QED BY <2>2 DEF x, y, z
<1>4. CASE ~RefWon(o)
  <2>1. bo = RefErr(o.error, Larger(b.top, o.top)) BY <1>4 DEF RefFollow
  <2>2. bo.error = o.error /\ bo.top = Larger(b.top, o.top) BY <2>1, ErrFields
  <2> HIDE DEF bo
  <2>3. RefFollow(a, bo) = RefErr(o.error, Larger(a.top, Larger(b.top, o.top)))
    BY <1>4, <2>2 DEF RefFollow, RefWon
  <2>4. RefFollow(ab, o) = RefErr(o.error, Larger(ab.top, o.top)) BY <1>4 DEF RefFollow
  <2> QED BY <1>3, <2>3, <2>4 DEF ab, bo
<1>5. CASE RefWon(o)
  <2>1. bo = RefOk(o.to, b.nodes \o o.nodes, b.errors \cup o.errors, b.notes \o o.notes,
                   Larger(b.top, o.top))
    BY <1>5 DEF RefFollow
  <2>2. /\ RefWon(bo) /\ bo.to = o.to /\ bo.nodes = b.nodes \o o.nodes
        /\ bo.errors = b.errors \cup o.errors /\ bo.notes = b.notes \o o.notes
        /\ bo.top = Larger(b.top, o.top)
    <3> DEFINE at == o.to
               ns == b.nodes \o o.nodes
               es == b.errors \cup o.errors
               rs == b.notes \o o.notes
               t == Larger(b.top, o.top)
    <3>1. bo = RefOk(at, ns, es, rs, t) BY <2>1
    <3> HIDE DEF at, ns, es, rs, t, bo
    <3>2. /\ RefWon(bo) /\ bo.to = at /\ bo.nodes = ns /\ bo.errors = es /\ bo.notes = rs
          /\ bo.top = t
      BY <3>1, OkFields
    <3> QED BY <3>2 DEF at, ns, es, rs, t
  <2> HIDE DEF bo
  <2>3. RefFollow(a, bo) = RefOk(o.to, a.nodes \o (b.nodes \o o.nodes),
                                 a.errors \cup (b.errors \cup o.errors),
                                 a.notes \o (b.notes \o o.notes),
                                 Larger(a.top, Larger(b.top, o.top)))
    BY <2>2 DEF RefFollow
  <2>4. RefFollow(ab, o) = RefOk(o.to, (a.nodes \o b.nodes) \o o.nodes,
                                 (a.errors \cup b.errors) \cup o.errors,
                                 (a.notes \o b.notes) \o o.notes, Larger(ab.top, o.top))
    BY <1>2, <1>5 DEF RefFollow
  <2>5. a.nodes \o (b.nodes \o o.nodes) = (a.nodes \o b.nodes) \o o.nodes
    <3> DEFINE x == a.nodes
               y == b.nodes
               z == o.nodes
    <3>1. x \in Nodes /\ y \in Nodes /\ z \in Nodes BY <1>1
    <3> HIDE DEF x, y, z
    <3>2. x \o (y \o z) = (x \o y) \o z BY <3>1, NodesAssociate
    <3> QED BY <3>2 DEF x, y, z
  <2>6. a.notes \o (b.notes \o o.notes) = (a.notes \o b.notes) \o o.notes
    <3> DEFINE x == a.notes
               y == b.notes
               z == o.notes
    <3>1. x \in Seq(Note) /\ y \in Seq(Note) /\ z \in Seq(Note) BY <1>1
    <3> HIDE DEF x, y, z
    <3>2. x \o (y \o z) = (x \o y) \o z BY <3>1, NotesAssociate
    <3> QED BY <3>2 DEF x, y, z
  <2>7. a.errors \cup (b.errors \cup o.errors) = (a.errors \cup b.errors) \cup o.errors OBVIOUS
  <2> QED BY <1>3, <2>3, <2>4, <2>5, <2>6, <2>7 DEF ab, bo
<1> QED BY <1>4, <1>5

LEMMA WalkStarts ==
  ASSUME NEW text \in Seq(Token), NEW pos \in 1..(Len(text) + 1), NEW c, Within(c),
         NEW exact, NEW before \in Seq(Note), NEW top, c.depth <= top
  PROVE  Walked(exact, text, pos, pos, c, << >>, {}, before, before, top)
<1>1. Typed(RefBody(text, pos, c), c, pos, Len(text) + 1) BY BodyOutcome
<1>2. c.depth \in Nat BY DEF Within, RefContexts
<1>3. RefBody(text, pos, c) =
        RefFollow(RefOk(pos, << >>, {}, << >>, c.depth), RefBody(text, pos, c))
  BY <1>1, <1>2, FollowUnit
<1>4. before = before \o << >> /\ << >> \in Seq(Note) /\ {} \in SUBSET ErrorKind OBVIOUS
<1> DEFINE own == << >>
           errs == {}
           t == c.depth
<1>5. /\ own \in Seq(Note) /\ errs \in SUBSET ErrorKind /\ t \in Nat
      /\ RefBody(text, pos, c) =
            RefFollow(RefOk(pos, << >>, errs, own, t), RefBody(text, pos, c))
      /\ before = before \o own /\ t >= c.depth /\ errs = {} /\ t <= top
  BY <1>2, <1>3, <1>4
<1> HIDE DEF own, errs, t
<1> QED BY <1>5 DEF Walked

\* Where a walk got to plays no part in what follows.
LEMMA FollowTo ==
  ASSUME NEW to, NEW at, NEW ns, NEW es, NEW rs, NEW t, NEW o
  PROVE  RefFollow(RefOk(to, ns, es, rs, t), o) = RefFollow(RefOk(at, ns, es, rs, t), o)
<1>1. \A p : LET x == RefOk(p, ns, es, rs, t)
             IN  x.nodes = ns /\ x.errors = es /\ x.notes = rs /\ x.top = t
  BY OkFields
<1> DEFINE x == RefOk(to, ns, es, rs, t)
           y == RefOk(at, ns, es, rs, t)
<1>2. x.nodes = y.nodes /\ x.errors = y.errors /\ x.notes = y.notes /\ x.top = y.top BY <1>1
<1> HIDE DEF x, y
<1>3. RefFollow(x, o) = RefFollow(y, o) BY <1>2 DEF RefFollow
<1> QED BY <1>3 DEF x, y

LEMMA WalkSteps ==
  ASSUME NEW text, NEW first, NEW to, NEW at, NEW c,
         RefBody(text, to, c) = RefBody(text, at, c),
         NEW exact, NEW nodes, NEW errors, NEW before, NEW now, NEW top,
         Walked(exact, text, first, to, c, nodes, errors, before, now, top)
  PROVE  Walked(exact, text, first, at, c, nodes, errors, before, now, top)
<1>1. PICK errs \in SUBSET ErrorKind, own \in Seq(Note), t \in Nat :
        /\ RefBody(text, first, c) =
              RefFollow(RefOk(to, nodes, errs, own, t), RefBody(text, to, c))
        /\ now = before \o own
        /\ t >= c.depth
        /\ exact => errs = errors /\ t <= top
  BY DEF Walked
<1>2. RefFollow(RefOk(to, nodes, errs, own, t), RefBody(text, to, c)) =
        RefFollow(RefOk(at, nodes, errs, own, t), RefBody(text, at, c))
  BY FollowTo
<1> QED BY <1>1, <1>2 DEF Walked

LEMMA WalkHigher ==
  ASSUME NEW text, NEW first, NEW to, NEW c,
         NEW exact, NEW nodes, NEW errors, NEW before, NEW now,
         NEW top \in Nat, NEW up \in Nat, top <= up,
         Walked(exact, text, first, to, c, nodes, errors, before, now, top)
  PROVE  Walked(exact, text, first, to, c, nodes, errors, before, now, up)
<1>1. PICK errs \in SUBSET ErrorKind, own \in Seq(Note), t \in Nat :
        /\ RefBody(text, first, c) =
              RefFollow(RefOk(to, nodes, errs, own, t), RefBody(text, to, c))
        /\ now = before \o own
        /\ t >= c.depth
        /\ exact => errs = errors /\ t <= top
  BY DEF Walked
<1>2. exact => errs = errors /\ t <= up BY <1>1
<1> QED BY <1>1, <1>2 DEF Walked

\* The walk goes on with o, what consume made of the token.
LEMMA WalkGoesOn ==
  ASSUME NEW text \in Seq(Token), NEW first, NEW to \in Nat, NEW c, Within(c),
         NEW exact, NEW nodes \in Nodes, NEW errors, NEW before \in Seq(Note),
         NEW now, NEW top \in Nat,
         Walked(exact, text, first, to, c, nodes, errors, before, now, top),
         NEW o \in RefOutcome, RefWon(o), o.to \in 1..(Len(text) + 1),
         RefBody(text, to, c) = RefFollow(o, RefBody(text, o.to, c)),
         NEW more, NEW up \in Nat, top <= up, exact => more = o.errors /\ o.top <= up
  PROVE  Walked(exact, text, first, o.to, c, nodes \o o.nodes, errors \cup more,
                before, now \o o.notes, up)
<1>1. PICK errs \in SUBSET ErrorKind, own \in Seq(Note), t \in Nat :
        /\ RefBody(text, first, c) =
              RefFollow(RefOk(to, nodes, errs, own, t), RefBody(text, to, c))
        /\ now = before \o own
        /\ t >= c.depth
        /\ exact => errs = errors /\ t <= top
  BY DEF Walked
<1> DEFINE a == RefOk(to, nodes, errs, own, t)
           u == RefBody(text, o.to, c)
           at == o.to
           both == Larger(t, o.top)
           ns == nodes \o o.nodes
           es == errs \cup o.errors
           rs == own \o o.notes
<1>2. a.nodes = nodes /\ a.errors = errs /\ a.notes = own /\ a.top = t BY OkFields
<1>3. u \in RefOutcome
  <2> HIDE DEF at
  <2>1. at \in 1..(Len(text) + 1) BY DEF at
  <2>2. RefBody(text, at, c) \in RefOutcome BY <2>1, BodyOutcome
  <2> QED BY <2>2 DEF at
<1>4. o.top \in Nat /\ o.errors \in SUBSET ErrorKind /\ o.notes \in Seq(Note) BY DEF RefOutcome
<1>5. c.depth \in Nat BY DEF Within, RefContexts
<1>6. a \in RefOutcome BY DEF RefOk, RefOutcome
<1>7. RefBody(text, first, c) = RefFollow(RefOk(at, ns, es, rs, both), u)
  <2>1. RefBody(text, first, c) = RefFollow(a, RefFollow(o, u)) BY <1>1
  <2>2. RefFollow(a, RefFollow(o, u)) =
          RefFollow(RefOk(at, a.nodes \o o.nodes, a.errors \cup o.errors,
                          a.notes \o o.notes, Larger(a.top, o.top)), u)
    <3> HIDE DEF a, u, at
    <3>1. \A w : RefFollow(a, RefFollow(o, u)) =
                 RefFollow(RefOk(w, a.nodes \o o.nodes, a.errors \cup o.errors,
                                 a.notes \o o.notes, Larger(a.top, o.top)), u)
      BY <1>3, <1>6, FollowFollows
    <3> QED BY <3>1
  <2> QED BY <1>2, <2>1, <2>2
<1>8. both \in Nat /\ both >= c.depth /\ es \in SUBSET ErrorKind /\ rs \in Seq(Note)
  <2>1. both \in Nat /\ both >= t BY <1>4 DEF Larger
  <2> HIDE DEF both
  <2> QED BY <1>1, <1>4, <1>5, <2>1
<1>9. now \o o.notes = before \o rs
  <2> DEFINE z == o.notes
  <2>1. z \in Seq(Note) BY <1>4
  <2> HIDE DEF z
  <2>2. (before \o own) \o z = before \o (own \o z) BY <2>1, NotesAssociate
  <2> QED BY <1>1, <2>2 DEF z
<1>10. exact => es = errors \cup more /\ both <= up BY <1>1, <1>4 DEF Larger
<1> HIDE DEF es, rs, both, at, ns, u
<1>11. Walked(exact, text, first, at, c, ns, errors \cup more, before, now \o o.notes, up)
  <2>1. u = RefBody(text, at, c) BY DEF u, at
  <2> QED BY <1>7, <1>8, <1>9, <1>10, <2>1 DEF Walked
<1> QED BY <1>11 DEF at, ns

--------------------
(* The same attempt, asked for twice *)

LEMMA MovedBack ==
  ASSUME NEW o, NEW p, NEW d, NEW e, Moved(p, o, e, d) PROVE Moved(o, p, d, e)
  BY DEF Moved

LEMMA RoomEither ==
  ASSUME NEW o, NEW p, o.top \in Nat, p.top \in Nat,
         NEW c, Within(c), NEW e, Within(e), c.limit = e.limit,
         Within2(o, p, c, e), c.depth # e.depth
  PROVE  Room(o, c, e) \/ Room(p, e, c)
<1> DEFINE x == o.top
           y == p.top
           d == c.depth
           b == e.depth
           l == c.limit
<1>1. d \in Nat /\ b \in Nat /\ l \in Nat /\ x \in Nat /\ y \in Nat /\ e.limit = l
  BY DEF Within, RefContexts
<1>2. \/ x <= l /\ y <= l
      \/ \E h \in Nat : x <= d + h /\ d + h <= l /\ b + h <= l
  BY DEF Within2
<1>3. Room(o, c, e) <=> x <= l /\ x + b <= l + d BY <1>1 DEF Room
<1>4. Room(p, e, c) <=> y <= l /\ y + d <= l + b BY <1>1 DEF Room
<1> HIDE DEF x, y, d, b, l
<1>5. CASE x <= l /\ y <= l
  <2>1. CASE b <= d BY <1>1, <1>3, <1>5, <2>1
  <2>2. CASE d <= b BY <1>1, <1>4, <1>5, <2>2
  <2> QED BY <1>1, <2>1, <2>2
<1>6. CASE \E h \in Nat : x <= d + h /\ d + h <= l /\ b + h <= l
  <2>1. PICK h \in Nat : x <= d + h /\ d + h <= l /\ b + h <= l BY <1>6
  <2>2. x <= l /\ x + b <= l + d BY <1>1, <2>1
  <2> QED BY <1>3, <2>2
<1> QED BY <1>2, <1>5, <1>6

LEMMA SameContext ==
  ASSUME NEW c, Within(c), NEW e, Within(e), Alike(c, e), c.depth = e.depth,
         c.limit = e.limit
  PROVE  c = e
<1>1. c \in RefContexts /\ e \in RefContexts BY DEF Within
<1>2. \A x \in RefContexts :
        x = [rule |-> x.rule, depth |-> x.depth, accepts |-> x.accepts, zone |-> x.zone,
             limit |-> x.limit]
  BY DEF RefContexts
<1> QED BY <1>1, <1>2 DEF Alike

\* The rule that encloses an attempt plays no part in it.
LEMMA RuleAnywhere ==
  ASSUME NEW text, NEW pos, NEW r \in Rule, NEW c, Within(c), NEW e, Within(e),
         c.depth = e.depth, c.limit = e.limit, c.accepts = e.accepts, c.zone = e.zone
  PROVE  RefAttempt(text, r, pos, c) = RefAttempt(text, r, pos, e)
<1>1. c \in RefContexts /\ e \in RefContexts BY DEF Within
<1>2. RefInside(r, c) = RefInside(r, e)
  <2>1. Within(RefInside(r, c)) /\ Within(RefInside(r, e)) BY InsideContext
  <2>2. Alike(RefInside(r, c), RefInside(r, e)) BY <1>1, InsideFields DEF Alike
  <2>3. /\ RefInside(r, c).depth = RefInside(r, e).depth
        /\ RefInside(r, c).limit = RefInside(r, e).limit
    BY <1>1, InsideFields
  <2> QED BY <2>1, <2>2, <2>3, SameContext
<1> DEFINE body == RefBody(text, pos + 1, RefInside(r, c))
<1>3. /\ RefAttempt(text, r, pos, c) = RefAttemptOf(body, r, pos, c)
      /\ RefAttempt(text, r, pos, e) = RefAttemptOf(body, r, pos, e)
  BY <1>2 DEF RefAttempt
<1> HIDE DEF body
<1>4. RefClosed(body, r, pos, c) = RefClosed(body, r, pos, e) BY DEF RefClosed
<1>5. RefBodiless(r, c) <=> RefBodiless(r, e) BY DEF RefBodiless
<1> QED BY <1>3, <1>4, <1>5 DEF RefAttemptOf

LEMMA SameRule ==
  ASSUME NEW text \in Seq(Token), NEW pos \in 1..Len(text), NEW r \in Rule,
         NEW c, Within(c), NEW e, Within(e),
         c.accepts = e.accepts, c.zone = e.zone, c.limit = e.limit,
         Within2(RefAttempt(text, r, pos, c), RefAttempt(text, r, pos, e), c, e)
  PROVE  Moved(RefAttempt(text, r, pos, c), RefAttempt(text, r, pos, e), c.depth, e.depth)
<1> DEFINE o == RefAttempt(text, r, pos, c)
           p == RefAttempt(text, r, pos, e)
<1>1. CASE c.depth = e.depth
  <2>1. o = p BY <1>1, RuleAnywhere
  <2> HIDE DEF o, p
  <2>2. Moved(o, p, c.depth, e.depth) BY <1>1, <2>1 DEF Moved
  <2> QED BY <2>2 DEF o, p
<1>2. CASE c.depth # e.depth
  <2>1. o.top \in Nat /\ p.top \in Nat BY RuleTyped DEF Typed, RefOutcome
  <2> HIDE DEF o, p
  <2>2. Within2(o, p, c, e) BY DEF o, p
  <2>3. Room(o, c, e) \/ Room(p, e, c) BY <1>2, <2>1, <2>2, RoomEither
  <2>4. CASE Room(o, c, e) BY <2>4, RuleMoved DEF o, p
  <2>5. CASE Room(p, e, c)
    <3>1. Moved(p, o, e.depth, c.depth) BY <2>5, RuleMoved DEF o, p
    <3>2. Moved(o, p, c.depth, e.depth) BY <3>1, MovedBack
    <3> QED BY <3>2 DEF o, p
  <2> QED BY <2>3, <2>4, <2>5
<1> QED BY <1>1, <1>2

LEMMA SameBody ==
  ASSUME NEW text \in Seq(Token), NEW pos \in 1..(Len(text) + 1),
         NEW c, Within(c), NEW e, Within(e), Alike(c, e), c.limit = e.limit,
         Within2(RefBody(text, pos, c), RefBody(text, pos, e), c, e)
  PROVE  Moved(RefBody(text, pos, c), RefBody(text, pos, e), c.depth, e.depth)
<1> DEFINE o == RefBody(text, pos, c)
           p == RefBody(text, pos, e)
<1>1. CASE c.depth = e.depth
  <2>3. c = e BY <1>1, SameContext
  <2>4. o = p BY <2>3
  <2> HIDE DEF o, p
  <2>5. Moved(o, p, c.depth, e.depth) BY <1>1, <2>4 DEF Moved
  <2> QED BY <2>5 DEF o, p
<1>2. CASE c.depth # e.depth
  <2>1. o.top \in Nat /\ p.top \in Nat BY BodyOutcome
  <2> HIDE DEF o, p
  <2>2. Within2(o, p, c, e) BY DEF o, p
  <2>3. Room(o, c, e) \/ Room(p, e, c) BY <1>2, <2>1, <2>2, RoomEither
  <2>4. BodiesMove(text, pos) BY BodyMoved
  <2>5. Alike(e, c) BY DEF Alike
  <2>6. CASE Room(o, c, e) BY <2>4, <2>6 DEF o, p, BodiesMove
  <2>7. CASE Room(p, e, c)
    <3>1. Moved(p, o, e.depth, c.depth) BY <2>4, <2>5, <2>7 DEF o, p, BodiesMove
    <3>2. Moved(o, p, c.depth, e.depth) BY <3>1, MovedBack
    <3> QED BY <3>2 DEF o, p
  <2> QED BY <2>3, <2>6, <2>7
<1> QED BY <1>1, <1>2

--------------------
(* How consume goes on, token by token *)

LEMMA InsideFacts ==
  ASSUME NEW text \in Seq(Token), NEW pos, NEW c, Inside(text, pos, c)
  PROVE  /\ Within(Deeper(c)) /\ Deeper(c).depth = c.depth + 1 /\ Deeper(c).limit = c.limit
         /\ c.depth \in Nat /\ Count(text, pos) \in Nat
         /\ AnswersTyped(text, pos, Deeper(c))
         /\ RefBody(text, pos, c) = Then(text, RefConsume(text, pos, Deeper(c)), c)
         /\ Typed(RefConsume(text, pos, Deeper(c)), Deeper(c), pos + 1, Len(text) + 1)
         /\ \A i \in 1..Count(text, pos) :
               /\ TopsOf(Answers(text, pos, Deeper(c)), Count(text, pos))[i] =
                     Answers(text, pos, Deeper(c))[i].top
               /\ Answers(text, pos, Deeper(c))[i].top \in Nat
               /\ Answers(text, pos, Deeper(c))[i] \in RefOutcome
<1> DEFINE d == Deeper(c)
           N == Count(text, pos)
<1>1. pos \in 1..(Len(text) + 1) /\ Within(c) /\ Goes(text, pos, c) /\ c.depth < c.limit
      /\ c.depth \in Nat
  BY DEF Inside, Within, RefContexts
<1>2. Within(d) /\ d.depth = c.depth + 1 /\ d.limit = c.limit BY <1>1, DeeperContext DEF Deeper
<1>3. N \in Nat BY <1>1, TokenFacts
<1>4. RefBody(text, pos, c) = Then(text, RefConsume(text, pos, Deeper(c)), c) BY <1>1, BodyIs
<1> HIDE DEF d
<1>5. AnswersTyped(text, pos, d) BY <1>1, <1>2, RulesTyped
<1>6. Typed(RefConsume(text, pos, d), d, pos + 1, Len(text) + 1) BY <1>1, <1>2, <1>5, ConsumeTyped
<1>7. \A i \in 1..N : /\ TopsOf(Answers(text, pos, d), N)[i] = Answers(text, pos, d)[i].top
                      /\ Answers(text, pos, d)[i] \in RefOutcome
                      /\ Answers(text, pos, d)[i].top \in Nat
  BY <1>5 DEF AnswersTyped, Typed, RefOutcome, TopsOf
<1> QED BY <1>1, <1>2, <1>3, <1>4, <1>5, <1>6, <1>7 DEF d

LEMMA ThenTop ==
  ASSUME NEW text \in Seq(Token), NEW pos \in 1..(Len(text) + 1), NEW c, Within(c),
         NEW d, NEW one, Typed(one, d, pos + 1, Len(text) + 1)
  PROVE  one.top <= Then(text, one, c).top
<1>1. one.top \in Nat /\ c.depth \in Nat BY DEF Typed, RefOutcome, Within, RefContexts
<1>2. CASE RefWon(one)
  <2> DEFINE at == one.to
             u == RefBody(text, at, c)
  <2>1. at \in 1..(Len(text) + 1) BY <1>2 DEF Typed
  <2>2. u.top \in Nat BY <2>1, BodyOutcome
  <2>3. Then(text, one, c) = RefFollow(one, u) BY <1>2 DEF Then
  <2> HIDE DEF u
  <2>4. Then(text, one, c).top = Larger(one.top, u.top) BY <2>3, FollowTop
  <2> QED BY <1>1, <2>2, <2>4 DEF Larger
<1>3. CASE ~RefWon(one)
  <2> DEFINE s == Larger(c.depth, one.top)
  <2>1. Then(text, one, c) = RefErr(one.error, s) BY <1>3 DEF Then
  <2>2. Then(text, one, c).top = s BY <2>1, ErrFields
  <2> QED BY <1>1, <2>2 DEF Larger
<1> QED BY <1>2, <1>3

\* A rule that is tried goes no deeper than the body it is tried for.
LEMMA TryTop ==
  ASSUME NEW text \in Seq(Token), NEW pos, NEW c, Inside(text, pos, c),
         NEW j \in 1..Count(text, pos),
         \A i \in 1..(j - 1) : ~RefWon(Answers(text, pos, Deeper(c))[i])
  PROVE  /\ Answers(text, pos, Deeper(c))[j].top <= RefBody(text, pos, c).top
         /\ Answers(text, pos, Deeper(c))[j].top \in Nat
         /\ RefBody(text, pos, c).top \in Nat
<1> DEFINE d == Deeper(c)
           A == Answers(text, pos, d)
           N == Count(text, pos)
           one == RefConsume(text, pos, d)
           o == RefBody(text, pos, c)
<1>1. /\ Within(d) /\ N \in Nat /\ AnswersTyped(text, pos, d)
      /\ o = Then(text, one, c) /\ Typed(one, d, pos + 1, Len(text) + 1)
      /\ \A i \in 1..N : TopsOf(A, N)[i] = A[i].top /\ A[i].top \in Nat
  BY InsideFacts
<1>2. pos \in 1..(Len(text) + 1) /\ Within(c) BY DEF Inside
<1>3. o.top \in Nat BY <1>2, BodyOutcome
<1> HIDE DEF d, o
<1>4. one.top <= o.top
  <2> HIDE DEF one
  <2>1. one.top <= Then(text, one, c).top BY <1>1, <1>2, ThenTop
  <2> QED BY <1>1, <2>1
<1>5. one.top \in Nat BY <1>1 DEF Typed, RefOutcome
<1>6. A[j].top <= one.top
  <2>1. ASSUME NEW k \in 1..N, FirstWon(A, k) PROVE A[j].top <= one.top
    <3>1. WonAs(one, A[k], A, N, k, d.depth) BY <1>1, <1>2, <2>1, ConsumeWon
    <3>2. j \in 1..k
      <4>1. k \notin 1..(j - 1) BY <2>1 DEF FirstWon, d
      <4> HIDE DEF N
      <4> QED BY <1>1, <4>1 DEF N
    <3>3. TopsOf(A, N)[j] <= one.top BY <3>1, <3>2, <1>1, <1>5 DEF WonAs, IsTop
    <3> QED BY <1>1, <3>3
  <2>2. ASSUME \A i \in 1..N : ~RefWon(A[i]) PROVE A[j].top <= one.top
    <3>1. LostAs(one, text, pos, A, N, d.depth) BY <1>1, <1>2, <2>2, ConsumeLost
    <3>2. TopsOf(A, N)[j] <= one.top BY <3>1, <1>1, <1>5 DEF LostAs, IsTop
    <3> QED BY <1>1, <3>2
  <2>3. (\E k \in 1..N : FirstWon(A, k)) \/ \A i \in 1..N : ~RefWon(A[i]) BY <1>1, WinnerExists
  <2> HIDE DEF A, N, one
  <2> QED BY <2>1, <2>2, <2>3
<1>7. A[j].top \in Nat BY <1>1
<1>8. A[j].top <= o.top
  <2> DEFINE x == A[j].top
             y == one.top
             z == o.top
  <2>1. x \in Nat /\ y \in Nat /\ z \in Nat /\ x <= y /\ y <= z BY <1>3, <1>4, <1>5, <1>6, <1>7
  <2> HIDE DEF x, y, z
  <2>2. x <= z BY <2>1
  <2> QED BY <2>2 DEF x, z
<1> QED BY <1>3, <1>7, <1>8 DEF d, o

LEMMA TopBelow ==
  ASSUME NEW F, NEW m \in Nat, NEW k \in 0..m, NEW depth, NEW top, NEW x,
         IsTop(x, TopsOf(F, m), k, depth), NoneAbove(F, k, depth, top)
  PROVE  x <= top
<1>1. \A i \in 1..k : TopsOf(F, m)[i] = F[i].top BY DEF TopsOf
<1> QED BY <1>1 DEF IsTop, NoneAbove

\* Rule j succeeds after the ones before it failed: the body goes on behind it.
LEMMA ConsumesRule ==
  ASSUME NEW text \in Seq(Token), NEW pos, NEW c, Inside(text, pos, c),
         NEW j \in 1..Count(text, pos), FirstWon(Answers(text, pos, Deeper(c)), j)
  PROVE  LET a == Answers(text, pos, Deeper(c))[j]
             o == RefConsume(text, pos, Deeper(c))
         IN  /\ o = RefOk(a.to, a.nodes, a.errors, a.notes, o.top)
             /\ o \in RefOutcome /\ RefWon(o) /\ o.to = a.to
             /\ o.to \in (pos + 1)..(Len(text) + 1)
             /\ o.nodes = a.nodes /\ o.errors = a.errors /\ o.notes = a.notes
             /\ RefBody(text, pos, c) = RefFollow(o, RefBody(text, o.to, c))
             /\ \A top : NoneAbove(Answers(text, pos, Deeper(c)), j, c.depth + 1, top) =>
                   o.top <= top
<1> DEFINE d == Deeper(c)
           A == Answers(text, pos, d)
           N == Count(text, pos)
           o == RefConsume(text, pos, d)
<1>1. /\ Within(d) /\ d.depth = c.depth + 1 /\ N \in Nat /\ AnswersTyped(text, pos, d)
      /\ RefBody(text, pos, c) = Then(text, o, c) /\ Typed(o, d, pos + 1, Len(text) + 1)
      /\ \A i \in 1..N : TopsOf(A, N)[i] = A[i].top /\ A[i].top \in Nat
  BY InsideFacts
<1>2. pos \in 1..(Len(text) + 1) /\ Within(c) BY DEF Inside
<1> HIDE DEF d
<1>3. WonAs(o, A[j], A, N, j, d.depth) BY <1>1, <1>2, ConsumeWon DEF d
<1>4. /\ o = RefOk(A[j].to, A[j].nodes, A[j].errors, A[j].notes, o.top)
      /\ IsTop(o.top, TopsOf(A, N), j, d.depth)
  BY <1>3 DEF WonAs
<1>5. /\ RefWon(o) /\ o.to = A[j].to /\ o.nodes = A[j].nodes /\ o.errors = A[j].errors
      /\ o.notes = A[j].notes
  <2> DEFINE to == A[j].to
             ns == A[j].nodes
             es == A[j].errors
             rs == A[j].notes
             t == o.top
  <2>1. o = RefOk(to, ns, es, rs, t) BY <1>4
  <2> HIDE DEF to, ns, es, rs, t, o
  <2>2. RefWon(o) /\ o.to = to /\ o.nodes = ns /\ o.errors = es /\ o.notes = rs BY <2>1, OkFields
  <2> QED BY <2>2 DEF to, ns, es, rs
<1>6. o \in RefOutcome /\ o.to \in (pos + 1)..(Len(text) + 1) BY <1>1, <1>5 DEF Typed
<1>7. RefBody(text, pos, c) = RefFollow(o, RefBody(text, o.to, c)) BY <1>1, <1>5 DEF Then
<1>8. ASSUME NEW top, NoneAbove(A, j, c.depth + 1, top) PROVE o.top <= top
  <2>1. NoneAbove(A, j, d.depth, top) /\ IsTop(o.top, TopsOf(A, N), j, d.depth) BY <1>1, <1>4, <1>8
  <2>2. j \in 0..N BY <1>1
  <2> HIDE DEF A, N, o
  <2> QED BY <1>1, <2>1, <2>2, TopBelow
<1> QED BY <1>4, <1>5, <1>6, <1>7, <1>8 DEF d

\* No rule succeeds.
LEMMA ConsumesNone ==
  ASSUME NEW text \in Seq(Token), NEW pos, NEW c, Inside(text, pos, c),
         \A i \in 1..Count(text, pos) : ~RefWon(Answers(text, pos, Deeper(c))[i])
  PROVE  LET A == Answers(text, pos, Deeper(c))
             N == Count(text, pos)
             o == RefConsume(text, pos, Deeper(c))
         IN  /\ o = LostAt(text, pos, ErrorsOf(A, N), LastError(A, N), o.top)
             /\ o \in RefOutcome
             /\ RefBody(text, pos, c) = Then(text, o, c)
             /\ \A top : NoneAbove(A, N, c.depth + 1, top) => o.top <= top
<1> DEFINE d == Deeper(c)
           A == Answers(text, pos, d)
           N == Count(text, pos)
           o == RefConsume(text, pos, d)
<1>1. /\ Within(d) /\ d.depth = c.depth + 1 /\ N \in Nat /\ AnswersTyped(text, pos, d)
      /\ RefBody(text, pos, c) = Then(text, o, c) /\ Typed(o, d, pos + 1, Len(text) + 1)
  BY InsideFacts
<1>2. pos \in 1..(Len(text) + 1) /\ Within(c) BY DEF Inside
<1> HIDE DEF d
<1>3. LostAs(o, text, pos, A, N, d.depth) BY <1>1, <1>2, ConsumeLost DEF d
<1>4. /\ o = LostAt(text, pos, ErrorsOf(A, N), LastError(A, N), o.top)
      /\ IsTop(o.top, TopsOf(A, N), N, d.depth)
  BY <1>3 DEF LostAs
<1>6. o \in RefOutcome BY <1>1 DEF Typed
<1>8. ASSUME NEW top, NoneAbove(A, N, c.depth + 1, top) PROVE o.top <= top
  <2>1. NoneAbove(A, N, d.depth, top) /\ IsTop(o.top, TopsOf(A, N), N, d.depth) BY <1>1, <1>4, <1>8
  <2>2. N \in 0..N BY <1>1
  <2> HIDE DEF A, N, o
  <2> QED BY <1>1, <2>1, <2>2, TopBelow
<1> QED BY <1>1, <1>4, <1>6, <1>8 DEF d

\* None succeeds and the token becomes text.
LEMMA ConsumesText ==
  ASSUME NEW text \in Seq(Token), NEW pos, NEW c, Inside(text, pos, c),
         \A i \in 1..Count(text, pos) : ~RefWon(Answers(text, pos, Deeper(c))[i]),
         RefToken(text, pos) # "end",
         LastError(Answers(text, pos, Deeper(c)), Count(text, pos)) # "depth"
  PROVE  LET A == Answers(text, pos, Deeper(c))
             N == Count(text, pos)
             o == RefConsume(text, pos, Deeper(c))
         IN  /\ o \in RefOutcome /\ RefWon(o) /\ o.to = pos + 1
             /\ pos + 1 \in 1..(Len(text) + 1)
             /\ o.nodes = <<Node("text", Page, pos)>> /\ o.errors = ErrorsOf(A, N)
             /\ o.notes = << >>
             /\ RefBody(text, pos, c) = RefFollow(o, RefBody(text, o.to, c))
             /\ \A top : NoneAbove(A, N, c.depth + 1, top) => o.top <= top
<1> DEFINE A == Answers(text, pos, Deeper(c))
           N == Count(text, pos)
           o == RefConsume(text, pos, Deeper(c))
<1>1. /\ o = LostAt(text, pos, ErrorsOf(A, N), LastError(A, N), o.top)
      /\ o \in RefOutcome
      /\ RefBody(text, pos, c) = Then(text, o, c)
      /\ \A top : NoneAbove(A, N, c.depth + 1, top) => o.top <= top
  BY ConsumesNone
<1>2. pos + 1 \in 1..(Len(text) + 1) BY TokenFacts DEF Inside
<1>3. LastError(A, N) # "depth" OBVIOUS
<1> HIDE DEF A, N, o
<1> DEFINE to == pos + 1
           ns == <<Node("text", Page, pos)>>
           es == ErrorsOf(A, N)
           rs == << >>
           t == o.top
<1>4. o = RefOk(to, ns, es, rs, t) BY <1>1, <1>3 DEF LostAt
<1> HIDE DEF to, ns, es, rs, t
<1>5. RefWon(o) /\ o.to = to /\ o.nodes = ns /\ o.errors = es /\ o.notes = rs BY <1>4, OkFields
<1>6. RefBody(text, pos, c) = RefFollow(o, RefBody(text, o.to, c)) BY <1>1, <1>5 DEF Then
<1> QED BY <1>1, <1>2, <1>5, <1>6 DEF A, N, o, to, ns, es, rs

\* None succeeds at the end of input, or the last one met the limit.
LEMMA ConsumesNothing ==
  ASSUME NEW text \in Seq(Token), NEW pos, NEW c, Inside(text, pos, c),
         \A i \in 1..Count(text, pos) : ~RefWon(Answers(text, pos, Deeper(c))[i]),
         NEW error,
         \/ RefToken(text, pos) = "end" /\ error = "end"
         \/ /\ RefToken(text, pos) # "end" /\ error = "depth"
            /\ LastError(Answers(text, pos, Deeper(c)), Count(text, pos)) = "depth"
  PROVE  LET A == Answers(text, pos, Deeper(c))
             N == Count(text, pos)
         IN  /\ RefBody(text, pos, c).error = error /\ ~RefWon(RefBody(text, pos, c))
             /\ \A top \in Nat : NoneAbove(A, N, c.depth + 1, top) =>
                   RefBody(text, pos, c).top <= top
<1> DEFINE A == Answers(text, pos, Deeper(c))
           N == Count(text, pos)
           o == RefConsume(text, pos, Deeper(c))
<1>1. /\ o = LostAt(text, pos, ErrorsOf(A, N), LastError(A, N), o.top)
      /\ o \in RefOutcome
      /\ RefBody(text, pos, c) = Then(text, o, c)
      /\ \A top : NoneAbove(A, N, c.depth + 1, top) => o.top <= top
  BY ConsumesNone
<1>2. \/ RefToken(text, pos) = "end" /\ error = "end"
      \/ RefToken(text, pos) # "end" /\ error = "depth" /\ LastError(A, N) = "depth"
  OBVIOUS
<1>3. c.depth \in Nat BY DEF Inside, Within, RefContexts
<1> HIDE DEF A, N, o
<1> DEFINE t == o.top
           s == Larger(c.depth, t)
<1>4. o = RefErr(error, t) BY <1>1, <1>2 DEF LostAt
<1>5. error \in ErrorKind BY <1>2 DEF ErrorKind
<1>6. o.error = error /\ ~RefWon(o) /\ t \in Nat
  <2>1. t \in Nat BY <1>1 DEF RefOutcome
  <2> HIDE DEF t
  <2> QED BY <1>4, <1>5, <2>1, ErrFields
<1>7. RefBody(text, pos, c) = RefErr(error, s) BY <1>1, <1>6 DEF Then
<1>8. RefBody(text, pos, c).error = error /\ RefBody(text, pos, c).top = s
      /\ ~RefWon(RefBody(text, pos, c))
  BY <1>5, <1>7, ErrFields
<1>9. ASSUME NEW top \in Nat, NoneAbove(A, N, c.depth + 1, top) PROVE s <= top
  <2>1. t <= top BY <1>1, <1>9
  <2>2. c.depth + 1 <= top BY <1>9 DEF NoneAbove
  <2> HIDE DEF t
  <2> QED BY <1>3, <1>6, <2>1, <2>2 DEF Larger
<1> QED BY <1>8, <1>9 DEF A, N

--------------------
(* Parsers and the bodies of the reference: contexts *)

LEMMA InContextIs ==
  ASSUME NEW f, f.rule \in Rule, f.accepts \in Accepts, f.zone \in Zones,
         NEW d \in 0..MaxDepth
  PROVE  /\ Within(InContext(f, d))
         /\ InContext(f, d).depth = d /\ InContext(f, d).limit = MaxDepth
         /\ InContext(f, d).rule = f.rule /\ InContext(f, d).accepts = f.accepts
         /\ InContext(f, d).zone = f.zone
BY RuleEngineAssumption DEF Within, InContext, RefContexts, Accepts, Zones

LEMMA DeeperIs ==
  ASSUME NEW f, NEW d PROVE Deeper(InContext(f, d)) = InContext(f, d + 1)
BY DEF Deeper, InContext

LEMMA PlaceContext ==
  ASSUME NEW f \in Frame, NEW k \in Nat \ {0}, k <= MaxDepth + 1
  PROVE  /\ Within(InContext(f, k - 1)) /\ InContext(f, k - 1).depth = k - 1
         /\ InContext(f, k - 1).limit = MaxDepth
         /\ Deeper(InContext(f, k - 1)) = InContext(f, k)
<1>1. k - 1 \in 0..MaxDepth BY RuleEngineAssumption
<1>2. f.rule \in Rule /\ f.accepts \in Accepts /\ f.zone \in Zones BY DEF Frame
<1>3. Deeper(InContext(f, k - 1)) = InContext(f, (k - 1) + 1) BY DeeperIs
<1>4. (k - 1) + 1 = k OBVIOUS
<1>5. Deeper(InContext(f, k - 1)) = InContext(f, k) BY <1>3, <1>4
<1> DEFINE d == k - 1
<1>6. Within(InContext(f, d)) /\ InContext(f, d).depth = d /\ InContext(f, d).limit = MaxDepth
  <2>1. d \in 0..MaxDepth BY <1>1
  <2> HIDE DEF d
  <2> QED BY <1>2, <2>1, InContextIs
<1> QED BY <1>5, <1>6

--------------------
(* How a walk ends *)

\* A body fails as it does from where it has been walked to.
LEMMA WalkFails ==
  ASSUME NEW exact, NEW text \in Seq(Token), NEW first, NEW to \in 1..(Len(text) + 1),
         NEW c, Within(c), NEW nodes, NEW errors, NEW before, NEW now, NEW top \in Nat,
         Walked(exact, text, first, to, c, nodes, errors, before, now, top),
         ~RefWon(RefBody(text, to, c)), exact => RefBody(text, to, c).top <= top
  PROVE  /\ ~RefWon(RefBody(text, first, c))
         /\ RefBody(text, first, c).error = RefBody(text, to, c).error
         /\ exact => RefBody(text, first, c).top <= top
<1>1. PICK errs \in SUBSET ErrorKind, own \in Seq(Note), t \in Nat :
        /\ RefBody(text, first, c) =
              RefFollow(RefOk(to, nodes, errs, own, t), RefBody(text, to, c))
        /\ exact => t <= top
  BY DEF Walked
<1> DEFINE u == RefBody(text, to, c)
           o == RefOk(to, nodes, errs, own, t)
<1>2. u.top \in Nat BY BodyOutcome
<1>3. o.top = t BY OkFields
<1> HIDE DEF u, o
<1>4. /\ RefFollow(o, u).top = Larger(o.top, u.top) /\ RefFollow(o, u).error = u.error
      /\ RefWon(u) <=> RefWon(RefFollow(o, u))
  BY FollowTop
<1>5. exact => Larger(t, u.top) <= top
  <2>1. exact => t <= top /\ u.top <= top BY <1>1, <1>2 DEF u
  <2> QED BY <2>1 DEF Larger
<1> QED BY <1>1, <1>3, <1>4, <1>5 DEF u, o

\* A body goes no deeper after a part of it than as a whole.
LEMMA PassedBelow ==
  ASSUME NEW text \in Seq(Token), NEW first \in 1..(Len(text) + 1), NEW v,
         NEW c, Within(c), Passed(text, first, v, c)
  PROVE  /\ v \in 1..(Len(text) + 1)
         /\ RefBody(text, v, c).top <= RefBody(text, first, c).top
         /\ RefBody(text, v, c).error = RefBody(text, first, c).error
         /\ RefWon(RefBody(text, v, c)) <=> RefWon(RefBody(text, first, c))
<1>1. v \in 1..(Len(text) + 1) BY DEF Passed
<1>2. PICK one \in RefOutcome :
        RefBody(text, first, c) = RefFollow(one, RefBody(text, v, c))
  BY DEF Passed
<1> DEFINE u == RefBody(text, v, c)
<1>3. u.top \in Nat /\ one.top \in Nat BY <1>1, BodyOutcome DEF RefOutcome
<1> HIDE DEF u
<1>4. /\ RefFollow(one, u).top = Larger(one.top, u.top) /\ RefFollow(one, u).error = u.error
      /\ RefWon(u) <=> RefWon(RefFollow(one, u))
  BY FollowTop
<1>5. u.top <= Larger(one.top, u.top) BY <1>3 DEF Larger
<1> QED BY <1>1, <1>2, <1>4, <1>5 DEF u

\* Where a walk has got to has been passed.
LEMMA WalkPasses ==
  ASSUME NEW exact, NEW text, NEW first, NEW to \in 1..(Len(text) + 1),
         NEW c, c.depth \in Nat, NEW nodes \in Nodes, NEW errors, NEW before, NEW now, NEW top,
         Walked(exact, text, first, to, c, nodes, errors, before, now, top)
  PROVE  Passed(text, first, to, c)
<1>1. PICK errs \in SUBSET ErrorKind, own \in Seq(Note), t \in Nat :
        RefBody(text, first, c) =
           RefFollow(RefOk(to, nodes, errs, own, t), RefBody(text, to, c))
  BY DEF Walked
<1>2. Len(text) \in Nat => to \in Nat OBVIOUS
<1>3. to \in Int OBVIOUS
<1>4. \A at \in Nat : RefOk(at, nodes, errs, own, t) \in RefOutcome BY DEF RefOk, RefOutcome
<1>5. RefFollow(RefOk(to, nodes, errs, own, t), RefBody(text, to, c)) =
      RefFollow(RefOk(1, nodes, errs, own, t), RefBody(text, to, c))
  BY FollowTo
<1> QED BY <1>1, <1>4, <1>5 DEF Passed

--------------------
(* What a parser does, and why it stays right *)

\* A clone, or the page's parser, that has not gathered anything.
LEMMA FrameStarts ==
  ASSUME NEW exact, NEW text \in Seq(Token), NEW f \in Frame, NEW k \in Nat \ {0},
         k <= MaxDepth + 1, NEW before \in Seq(Note), NEW top \in Nat, k - 1 <= top,
         f.pos = FirstPos(f), f.pos \in 1..(Len(text) + 1),
         f.nodes = << >>, f.errors = {}, f.visited = {}, f.phase = "body", f.tried = << >>
  PROVE  FrameRight(exact, text, f, k, before, before, top)
<1> DEFINE c == InContext(f, k - 1)
           pos == f.pos
<1>1. Within(c) /\ c.depth = k - 1 BY PlaceContext
<1>2. pos \in 1..(Len(text) + 1) /\ c.depth <= top BY <1>1
<1> HIDE DEF c, pos
<1>3. Walked(exact, text, pos, pos, c, << >>, {}, before, before, top) BY <1>1, <1>2, WalkStarts
<1> QED BY <1>3 DEF FrameRight, c, pos

LEMMA SameWalk ==
  ASSUME NEW f, NEW g, Resumes(g, f), NEW k
  PROVE  FirstPos(g) = FirstPos(f) /\ InContext(g, k) = InContext(f, k)
BY DEF Resumes, FirstPos, InContext

\* A break is stepped over.
LEMMA FrameSteps ==
  ASSUME NEW exact, NEW text \in Seq(Token), NEW f \in Frame, NEW k \in Nat \ {0},
         k <= MaxDepth + 1, NEW before, NEW now, NEW top,
         FrameRight(exact, text, f, k, before, now, top), f.phase = "body",
         ~RefCloses(InContext(f, k - 1), RefToken(text, f.pos)),
         ~RefCut(InContext(f, k - 1), RefToken(text, f.pos)),
         RefSteps(InContext(f, k - 1), RefToken(text, f.pos)),
         NEW g, g = [f EXCEPT !.pos = @ + 1]
  PROVE  FrameRight(exact, text, g, k, before, now, top)
<1> DEFINE c == InContext(f, k - 1)
           pos == f.pos
           first == FirstPos(f)
           nodes == f.nodes
           errors == f.errors
<1>1. Within(c) BY PlaceContext
<1>2. /\ pos \in 1..(Len(text) + 1) /\ first \in 1..(Len(text) + 1)
      /\ Walked(exact, text, first, pos, c, nodes, errors, before, now, top)
      /\ \A v \in f.visited : Passed(text, first, v, c)
      /\ f.tried = << >>
  BY DEF FrameRight
<1>3. /\ Resumes(g, f) /\ g.pos = pos + 1 /\ g.nodes = nodes /\ g.errors = errors
      /\ g.visited = f.visited /\ g.phase = f.phase /\ g.tried = f.tried
  BY DEF Frame, Resumes
<1>4. FirstPos(g) = first /\ InContext(g, k - 1) = c BY <1>3, SameWalk
<1>5. ~RefCloses(c, RefToken(text, pos)) /\ ~RefCut(c, RefToken(text, pos))
      /\ RefSteps(c, RefToken(text, pos))
  OBVIOUS
<1> HIDE DEF c, pos, first, nodes, errors
<1> DEFINE at == pos + 1
<1>6. RefBody(text, pos, c) = RefBody(text, at, c) /\ at \in 1..(Len(text) + 1)
  BY <1>1, <1>2, <1>5, BodyIs
<1> HIDE DEF at
<1>7. Walked(exact, text, first, at, c, nodes, errors, before, now, top) BY <1>2, <1>6, WalkSteps
<1> QED BY <1>2, <1>3, <1>4, <1>6, <1>7 DEF FrameRight, at

\* The rules tried so far went no deeper than the peak, which may only rise.
LEMMA TriedHigher ==
  ASSUME NEW exact, NEW text \in Seq(Token), NEW f \in Frame, NEW k \in Nat \ {0},
         k <= MaxDepth + 1, NEW top \in Nat, NEW up \in Nat, top <= up,
         TriedRight(exact, text, f, k, top)
  PROVE  /\ TriedRight(exact, text, f, k, up)
         /\ Count(text, f.pos) \in Nat /\ Len(f.tried) \in Nat
         /\ \A j \in 1..Len(f.tried) : j \in 1..Count(text, f.pos)
<1> DEFINE c == InContext(f, k - 1)
           A == Answers(text, f.pos, InContext(f, k))
<1>1. Inside(text, f.pos, c) /\ Deeper(c) = InContext(f, k) BY PlaceContext DEF TriedRight
<1> HIDE DEF c
<1>2. Count(text, f.pos) \in Nat /\ \A j \in 1..Count(text, f.pos) : A[j].top \in Nat
  <2>1. \A j \in 1..Count(text, f.pos) : Answers(text, f.pos, Deeper(c))[j].top \in Nat
    BY <1>1, InsideFacts
  <2>2. Count(text, f.pos) \in Nat BY <1>1, InsideFacts
  <2> QED BY <1>1, <2>1, <2>2
<1>3. Len(f.tried) \in Nat /\ Len(f.tried) <= Count(text, f.pos) BY DEF Frame, TriedRight
<1>4. \A j \in 1..Len(f.tried) : j \in 1..Count(text, f.pos) BY <1>2, <1>3
<1>5. \A j \in 1..Len(f.tried) : LostRight(exact, A[j], f.tried[j], top) BY DEF TriedRight
<1> HIDE DEF A
<1>6. ASSUME NEW j \in 1..Len(f.tried) PROVE LostRight(exact, A[j], f.tried[j], up)
  <2> DEFINE o == A[j]
  <2>1. LostRight(exact, o, f.tried[j], top) /\ o.top \in Nat BY <1>2, <1>4, <1>5
  <2> HIDE DEF o
  <2>2. LostRight(exact, o, f.tried[j], up) BY <2>1 DEF LostRight
  <2> QED BY <2>2 DEF o
<1>7. exact => k <= up BY DEF TriedRight
<1> QED BY <1>2, <1>3, <1>4, <1>6, <1>7 DEF TriedRight, A

\* A body enters consume.
LEMMA FrameEnters ==
  ASSUME NEW exact, NEW text \in Seq(Token), NEW f \in Frame, NEW k \in Nat \ {0},
         k <= MaxDepth, NEW before, NEW now, NEW top \in Nat, NEW up \in Nat,
         top <= up, k <= up,
         FrameRight(exact, text, f, k, before, now, top), f.phase = "body",
         Goes(text, f.pos, InContext(f, k - 1)),
         NEW g \in Frame, Resumes(g, f), g.pos = f.pos, g.nodes = f.nodes,
         g.errors = f.errors, g.tried = f.tried, g.phase = "rules",
         g.visited = f.visited \/ g.visited = f.visited \cup {f.pos}
  PROVE  FrameRight(exact, text, g, k, before, now, up)
<1> DEFINE c == InContext(f, k - 1)
           pos == f.pos
           first == FirstPos(f)
           nodes == f.nodes
           errors == f.errors
<1>1. Within(c) /\ c.depth = k - 1 /\ c.limit = MaxDepth /\ k <= MaxDepth + 1
  BY PlaceContext, RuleEngineAssumption
<1>2. /\ pos \in 1..(Len(text) + 1) /\ first \in 1..(Len(text) + 1)
      /\ Walked(exact, text, first, pos, c, nodes, errors, before, now, top)
      /\ \A v \in f.visited : Passed(text, first, v, c)
      /\ f.tried = << >>
  BY DEF FrameRight
<1>3. FirstPos(g) = first /\ InContext(g, k - 1) = c BY SameWalk
<1>4. Goes(text, pos, c) /\ nodes \in Nodes BY DEF Frame
<1>5. Inside(text, g.pos, c)
  <2>1. c.depth < c.limit BY <1>1, RuleEngineAssumption
  <2> QED BY <1>1, <1>2, <1>4, <2>1 DEF Inside
<1>6. TriedRight(exact, text, g, k, up)
  <2>1. Count(text, g.pos) \in Nat BY <1>5, InsideFacts
  <2>2. Len(g.tried) = 0 BY <1>2
  <2> QED BY <1>3, <1>5, <2>1, <2>2 DEF TriedRight
<1> HIDE DEF c, pos, first, nodes, errors
<1>7. Walked(exact, text, first, pos, c, nodes, errors, before, now, up) BY <1>2, WalkHigher
<1>8. Passed(text, first, pos, c)
  <2>1. c.depth \in Nat BY <1>1
  <2> QED BY <1>2, <1>4, <2>1, WalkPasses
<1>9. \A v \in g.visited : Passed(text, first, v, c) BY <1>2, <1>8 DEF pos
<1> QED BY <1>2, <1>3, <1>6, <1>7, <1>9 DEF FrameRight, pos, first, nodes, errors

\* The next rule fails.
LEMMA FrameTries ==
  ASSUME NEW exact, NEW text \in Seq(Token), NEW f \in Frame, NEW k \in Nat \ {0},
         k <= MaxDepth + 1, NEW before, NEW now, NEW top \in Nat, NEW up \in Nat,
         top <= up,
         FrameRight(exact, text, f, k, before, now, top), f.phase = "rules",
         Len(f.tried) < Count(text, f.pos),
         NEW error \in ErrorKind,
         LostRight(exact, Answers(text, f.pos, InContext(f, k))[Len(f.tried) + 1],
                   error, up)
  PROVE  FrameRight(exact, text, Failed(f, error), k, before, now, up)
<1> DEFINE g == Failed(f, error)
           c == InContext(f, k - 1)
           pos == f.pos
           first == FirstPos(f)
           nodes == f.nodes
           errors == f.errors
           m == Len(f.tried)
           A == Answers(text, f.pos, InContext(f, k))
<1>1. /\ pos \in 1..(Len(text) + 1) /\ first \in 1..(Len(text) + 1)
      /\ Walked(exact, text, first, pos, c, nodes, errors, before, now, top)
      /\ \A v \in f.visited : Passed(text, first, v, c)
      /\ TriedRight(exact, text, f, k, top)
  BY DEF FrameRight
<1>2. /\ Resumes(g, f) /\ g.pos = f.pos /\ g.nodes = nodes /\ g.errors = errors
      /\ g.visited = f.visited /\ g.phase = "rules" /\ g.tried = Append(f.tried, error)
  BY DEF Failed, Frame, Resumes
<1>3. FirstPos(g) = first /\ InContext(g, k - 1) = c /\ InContext(g, k) = InContext(f, k)
  BY <1>2, SameWalk
<1>4. TriedRight(exact, text, f, k, up) /\ Count(text, f.pos) \in Nat /\ m \in Nat
  BY <1>1, TriedHigher
<1>5. /\ Len(g.tried) = m + 1 /\ g.tried[m + 1] = error
      /\ \A j \in 1..m : g.tried[j] = f.tried[j]
  BY <1>2 DEF Frame
<1>6. ASSUME NEW j \in 1..(m + 1) PROVE LostRight(exact, A[j], g.tried[j], up)
  <2>1. CASE j = m + 1 BY <1>5, <2>1
  <2>2. CASE j \in 1..m BY <1>4, <1>5, <2>2 DEF TriedRight
  <2> QED BY <1>4, <2>1, <2>2
<1>7. TriedRight(exact, text, g, k, up)
  <2>1. Inside(text, g.pos, InContext(g, k - 1)) BY <1>2, <1>3, <1>4 DEF TriedRight
  <2>2. Len(g.tried) <= Count(text, g.pos) BY <1>2, <1>4, <1>5
  <2>3. \A j \in 1..Len(g.tried) :
          LostRight(exact, Answers(text, g.pos, InContext(g, k))[j], g.tried[j], up)
    BY <1>2, <1>3, <1>5, <1>6
  <2>4. exact => k <= up BY <1>4 DEF TriedRight
  <2> QED BY <2>1, <2>2, <2>3, <2>4 DEF TriedRight
<1> HIDE DEF c, pos, first, nodes, errors, g
<1>8. Walked(exact, text, first, pos, c, nodes, errors, before, now, up) BY <1>1, WalkHigher
<1>9. FrameRight(exact, text, g, k, before, now, up)
  BY <1>1, <1>2, <1>3, <1>7, <1>8 DEF FrameRight, pos
<1> QED BY <1>9 DEF g

LEMMA ConsumedFields ==
  ASSUME NEW f \in Frame, NEW to, NEW nodes, NEW errors
  PROVE  LET g == Consumed(f, to, nodes, errors)
         IN  /\ Resumes(g, f) /\ g.pos = to /\ g.nodes = f.nodes \o nodes
             /\ g.errors = f.errors \cup errors /\ g.visited = f.visited
             /\ g.phase = "body" /\ g.tried = << >>
             /\ g.noteCount = f.noteCount /\ g.enclosing = f.enclosing
BY DEF Consumed, Frame, Resumes

\* What consume has made of a token is gathered.
LEMMA FrameGathers ==
  ASSUME NEW exact, NEW text \in Seq(Token), NEW f \in Frame, NEW k \in Nat \ {0},
         k <= MaxDepth + 1, NEW before \in Seq(Note), NEW now, NEW top \in Nat,
         NEW up \in Nat, top <= up,
         FrameRight(exact, text, f, k, before, now, top),
         NEW o \in RefOutcome, RefWon(o), o.to \in 1..(Len(text) + 1),
         RefBody(text, f.pos, InContext(f, k - 1)) =
            RefFollow(o, RefBody(text, o.to, InContext(f, k - 1))),
         NEW more, exact => more = o.errors /\ o.top <= up
  PROVE  FrameRight(exact, text, Consumed(f, o.to, o.nodes, more), k, before,
                    now \o o.notes, up)
<1> DEFINE g == Consumed(f, o.to, o.nodes, more)
           c == InContext(f, k - 1)
           pos == f.pos
           first == FirstPos(f)
           nodes == f.nodes
           errors == f.errors
           at == o.to
           ns == nodes \o o.nodes
           es == errors \cup more
<1>1. /\ pos \in 1..(Len(text) + 1) /\ first \in 1..(Len(text) + 1)
      /\ Walked(exact, text, first, pos, c, nodes, errors, before, now, top)
      /\ \A v \in f.visited : Passed(text, first, v, c)
  BY DEF FrameRight
<1>2. /\ Resumes(g, f) /\ g.pos = at /\ g.nodes = ns /\ g.errors = es
      /\ g.visited = f.visited /\ g.phase = "body" /\ g.tried = << >>
  BY DEF Consumed, Frame, Resumes
<1>3. FirstPos(g) = first /\ InContext(g, k - 1) = c BY <1>2, SameWalk
<1>4. Within(c) BY PlaceContext
<1>5. nodes \in Nodes /\ pos \in Nat BY DEF Frame, Pos
<1>6. RefBody(text, pos, c) = RefFollow(o, RefBody(text, o.to, c)) OBVIOUS
<1> HIDE DEF c, pos, first, nodes, errors, g
<1>7. Walked(exact, text, first, o.to, c, nodes \o o.nodes, errors \cup more, before,
             now \o o.notes, up)
  BY <1>1, <1>4, <1>5, <1>6, WalkGoesOn
<1>8. FrameRight(exact, text, g, k, before, now \o o.notes, up)
  <2>1. at \in 1..(Len(text) + 1) OBVIOUS
  <2>2. Walked(exact, text, first, at, c, ns, es, before, now \o o.notes, up) BY <1>7
  <2> HIDE DEF at, ns, es
  <2> QED BY <1>1, <1>2, <1>3, <2>1, <2>2 DEF FrameRight
<1> QED BY <1>8 DEF g

\* A rule succeeds after those tried failed.
LEMMA FrameTakes ==
  ASSUME NEW exact, NEW text \in Seq(Token), NEW f \in Frame, NEW k \in Nat \ {0},
         k <= MaxDepth + 1, NEW before \in Seq(Note), NEW now, NEW top \in Nat,
         NEW up \in Nat, top <= up,
         FrameRight(exact, text, f, k, before, now, top), f.phase = "rules",
         Len(f.tried) < Count(text, f.pos),
         NEW a, a = Answers(text, f.pos, InContext(f, k))[Len(f.tried) + 1], RefWon(a),
         NEW more, exact => more = a.errors /\ a.top <= up
  PROVE  FrameRight(exact, text, Consumed(f, a.to, a.nodes, more), k, before,
                    now \o a.notes, up)
<1> DEFINE c == InContext(f, k - 1)
           A == Answers(text, f.pos, InContext(f, k))
           N == Count(text, f.pos)
           m == Len(f.tried)
           j == m + 1
           pos == f.pos
           o == RefConsume(text, pos, Deeper(c))
<1>1. TriedRight(exact, text, f, k, top) /\ TriedRight(exact, text, f, k, up)
      /\ N \in Nat /\ m \in Nat
  BY TriedHigher DEF FrameRight
<1>2. Inside(text, pos, c) /\ Deeper(c) = InContext(f, k) /\ c.depth = k - 1
      /\ A = Answers(text, pos, Deeper(c)) /\ N = Count(text, pos)
  BY <1>1, PlaceContext DEF TriedRight
<1>3. j \in 1..N /\ a = A[j] BY <1>1
<1>4. \A i \in 1..m : ~RefWon(A[i]) BY <1>1 DEF TriedRight, LostRight
<1>5. FirstWon(A, j)
  <2>1. \A i \in 1..(j - 1) : i \in 1..m BY <1>1
  <2> QED BY <1>3, <1>4, <2>1 DEF FirstWon
<1> HIDE DEF c, A, N, j, o
<1>6. /\ o \in RefOutcome /\ RefWon(o) /\ o.to = a.to
      /\ o.to \in (pos + 1)..(Len(text) + 1)
      /\ o.nodes = a.nodes /\ o.errors = a.errors /\ o.notes = a.notes
      /\ RefBody(text, pos, c) = RefFollow(o, RefBody(text, o.to, c))
      /\ \A x : NoneAbove(A, j, c.depth + 1, x) => o.top <= x
  <2> DEFINE B == Answers(text, pos, Deeper(c))
  <2>1. j \in 1..Count(text, pos) /\ FirstWon(B, j) /\ a = B[j] BY <1>2, <1>3, <1>5
  <2> HIDE DEF pos
  <2>2. LET b == Answers(text, pos, Deeper(c))[j]
            w == RefConsume(text, pos, Deeper(c))
        IN  /\ w = RefOk(b.to, b.nodes, b.errors, b.notes, w.top)
            /\ w \in RefOutcome /\ RefWon(w) /\ w.to = b.to
            /\ w.to \in (pos + 1)..(Len(text) + 1)
            /\ w.nodes = b.nodes /\ w.errors = b.errors /\ w.notes = b.notes
            /\ RefBody(text, pos, c) = RefFollow(w, RefBody(text, w.to, c))
            /\ \A x : NoneAbove(Answers(text, pos, Deeper(c)), j, c.depth + 1, x) =>
                  w.top <= x
    BY <1>2, <2>1, ConsumesRule
  <2> QED BY <1>2, <2>1, <2>2 DEF o
<1>7. exact => more = o.errors /\ o.top <= up
  <2> SUFFICES ASSUME exact PROVE more = o.errors /\ o.top <= up OBVIOUS
  <2>1. more = o.errors /\ a.top <= up BY <1>6
  <2>2. k <= up /\ \A i \in 1..m : A[i].top <= up BY <1>1 DEF TriedRight, LostRight, A
  <2>3. \A i \in 1..j : i = j \/ i \in 1..m BY <1>1 DEF j
  <2>4. \A i \in 1..j : A[i].top <= up BY <1>3, <2>1, <2>2, <2>3
  <2>5. c.depth + 1 = k BY <1>2
  <2>6. NoneAbove(A, j, c.depth + 1, up) BY <2>2, <2>4, <2>5 DEF NoneAbove
  <2> QED BY <1>6, <2>1, <2>6
<1>8. o.to \in 1..(Len(text) + 1)
  <2>1. pos \in Nat BY DEF Frame, Pos
  <2> HIDE DEF pos
  <2>2. Len(text) \in Nat OBVIOUS
  <2> QED BY <1>6, <2>1, <2>2
<1>9. FrameRight(exact, text, Consumed(f, o.to, o.nodes, more), k, before,
                 now \o o.notes, up)
  BY <1>6, <1>7, <1>8, FrameGathers DEF c, pos
<1> QED BY <1>6, <1>9

\* The errors of rules that are rightly taken for failures.
LEMMA ErrorsTried ==
  ASSUME NEW text \in Seq(Token), NEW f \in Frame, NEW k \in Nat \ {0},
         NEW top, TriedRight(TRUE, text, f, k, top), Len(f.tried) = Count(text, f.pos)
  PROVE  ErrorsOf(Answers(text, f.pos, InContext(f, k)), Count(text, f.pos)) = ToSet(f.tried)
<1> DEFINE A == Answers(text, f.pos, InContext(f, k))
<1>1. f.tried \in Seq(ErrorKind) BY DEF Frame
<1>2. \A j \in 1..Len(f.tried) : A[j].error = f.tried[j] BY DEF TriedRight, LostRight
<1>3. ToSet(f.tried) = {f.tried[j] : j \in 1..Len(f.tried)} BY <1>1 DEF ToSet
<1> HIDE DEF A
<1> QED BY <1>2, <1>3 DEF ErrorsOf, A

\* No rule is left.
LEMMA NoneLeft ==
  ASSUME NEW exact, NEW text \in Seq(Token), NEW f \in Frame, NEW k \in Nat \ {0},
         k <= MaxDepth + 1, NEW top \in Nat, TriedRight(exact, text, f, k, top),
         Len(f.tried) >= Count(text, f.pos)
  PROVE  /\ Len(f.tried) = Count(text, f.pos)
         /\ \A i \in 1..Count(text, f.pos) :
               ~RefWon(Answers(text, f.pos, InContext(f, k))[i])
         /\ exact => NoneAbove(Answers(text, f.pos, InContext(f, k)),
                               Count(text, f.pos), k, top)
         /\ f.tried # << >> =>
               LostRight(exact, Answers(text, f.pos, InContext(f, k))[Count(text, f.pos)],
                         Last(f.tried), top)
         /\ f.tried = << >> <=> Count(text, f.pos) = 0
<1>1. Count(text, f.pos) \in Nat /\ Len(f.tried) \in Nat BY TriedHigher
<1>2. Len(f.tried) = Count(text, f.pos) BY <1>1 DEF TriedRight
<1>3. f.tried \in Seq(ErrorKind) BY DEF Frame
<1>4. f.tried # << >> => Last(f.tried) = f.tried[Len(f.tried)] /\ Len(f.tried) \in 1..Len(f.tried)
  BY <1>3 DEF Last
<1>5. f.tried = << >> <=> Len(f.tried) = 0 BY <1>3
<1> QED BY <1>1, <1>2, <1>4, <1>5 DEF TriedRight, LostRight, NoneAbove

\* Within the limit no rule that is tried meets it.
LEMMA TriesWithin ==
  ASSUME NEW text \in Seq(Token), NEW pos, NEW c, Inside(text, pos, c),
         NEW j \in 1..Count(text, pos),
         \A i \in 1..(j - 1) : ~RefWon(Answers(text, pos, Deeper(c))[i]),
         RefBody(text, pos, c).top <= c.limit
  PROVE  /\ Answers(text, pos, Deeper(c))[j].top <= c.limit
         /\ Answers(text, pos, Deeper(c))[j].error # "depth"
<1> DEFINE a == Answers(text, pos, Deeper(c))[j]
<1>1. a.top <= RefBody(text, pos, c).top /\ a.top \in Nat /\ RefBody(text, pos, c).top \in Nat
  BY TryTop
<1>2. AnswersTyped(text, pos, Deeper(c)) /\ Deeper(c).limit = c.limit BY InsideFacts
<1>3. Typed(a, Deeper(c), pos + 1, Len(text) + 1) BY <1>2 DEF AnswersTyped
<1>4. c.limit \in Nat BY DEF Inside, Within, RefContexts
<1> HIDE DEF a
<1>5. a.top <= c.limit BY <1>1, <1>4
<1>6. a.error # "depth" BY <1>1, <1>2, <1>3, <1>4, <1>5 DEF Typed
<1> QED BY <1>5, <1>6 DEF a

\* The token becomes text.
LEMMA FrameText ==
  ASSUME NEW exact, NEW text \in Seq(Token), NEW f \in Frame, NEW k \in Nat \ {0},
         k <= MaxDepth + 1, NEW before \in Seq(Note), NEW now \in Seq(Note),
         NEW top \in Nat,
         FrameRight(exact, text, f, k, before, now, top), f.phase = "rules",
         Len(f.tried) >= Count(text, f.pos), RefToken(text, f.pos) # "end",
         ~(f.tried # << >> /\ Last(f.tried) = "depth"),
         OnPath(exact, RefBody(text, f.pos, InContext(f, k - 1)).top)
  PROVE  FrameRight(exact, text,
                    Consumed(f, f.pos + 1, <<Node("text", Page, f.pos)>>, ToSet(f.tried)),
                    k, before, now, top)
<1> DEFINE c == InContext(f, k - 1)
           A == Answers(text, f.pos, InContext(f, k))
           N == Count(text, f.pos)
           pos == f.pos
           o == RefConsume(text, pos, Deeper(c))
           more == ToSet(f.tried)
<1>1. TriedRight(exact, text, f, k, top) BY DEF FrameRight
<1>2. Inside(text, pos, c) /\ Deeper(c) = InContext(f, k) /\ c.depth = k - 1
      /\ c.limit = MaxDepth /\ A = Answers(text, pos, Deeper(c)) /\ N = Count(text, pos)
  BY <1>1, PlaceContext DEF TriedRight
<1>3. /\ Len(f.tried) = N /\ \A i \in 1..N : ~RefWon(A[i])
      /\ exact => NoneAbove(A, N, k, top)
      /\ f.tried # << >> => LostRight(exact, A[N], Last(f.tried), top)
      /\ f.tried = << >> <=> N = 0
  BY <1>1, NoneLeft
<1>4. N \in Nat BY <1>1, TriedHigher
<1>5. LastError(A, N) # "depth"
  <2>1. CASE N = 0 BY <2>1 DEF LastError
  <2>2. CASE N # 0 /\ exact
    <3>1. A[N].error = Last(f.tried) /\ Last(f.tried) # "depth" BY <1>3, <2>2 DEF LostRight
    <3> HIDE DEF A, N
    <3> QED BY <2>2, <3>1 DEF LastError
  <2>3. CASE N # 0 /\ ~exact
    <3>1. RefBody(text, pos, c).top <= c.limit BY <1>2, <2>3 DEF OnPath
    <3>2. N \in 1..N /\ \A i \in 1..(N - 1) : i \in 1..N BY <1>4, <2>3
    <3>3. \A i \in 1..(N - 1) : ~RefWon(Answers(text, pos, Deeper(c))[i]) BY <1>2, <1>3, <3>2
    <3>4. N \in 1..Count(text, pos) BY <1>2, <3>2
    <3> HIDE DEF A, N, pos, c
    <3>5. Answers(text, pos, Deeper(c))[N].error # "depth" BY <1>2, <3>1, <3>3, <3>4, TriesWithin
    <3> QED BY <1>2, <2>3, <3>5 DEF LastError
  <2> QED BY <2>1, <2>2, <2>3
<1>6. exact => ErrorsOf(A, N) = more
  <2> SUFFICES ASSUME exact PROVE ErrorsOf(A, N) = more OBVIOUS
  <2>1. TriedRight(TRUE, text, f, k, top) /\ Len(f.tried) = Count(text, f.pos)
    BY <1>1, <1>3 DEF TriedRight, LostRight
  <2> QED BY <2>1, ErrorsTried
<1>7. RefToken(text, pos) # "end" OBVIOUS
<1> HIDE DEF c, A, N, o, more
<1>8. /\ o \in RefOutcome /\ RefWon(o) /\ o.to = pos + 1
      /\ pos + 1 \in 1..(Len(text) + 1)
      /\ o.nodes = <<Node("text", Page, pos)>> /\ o.errors = ErrorsOf(A, N)
      /\ o.notes = << >>
      /\ RefBody(text, pos, c) = RefFollow(o, RefBody(text, o.to, c))
      /\ \A x : NoneAbove(A, N, c.depth + 1, x) => o.top <= x
  <2> DEFINE B == Answers(text, pos, Deeper(c))
             M == Count(text, pos)
  <2>1. (\A i \in 1..M : ~RefWon(B[i])) /\ LastError(B, M) # "depth" BY <1>2, <1>3, <1>5
  <2> HIDE DEF pos
  <2>2. LET w == RefConsume(text, pos, Deeper(c))
        IN  /\ w \in RefOutcome /\ RefWon(w) /\ w.to = pos + 1
            /\ pos + 1 \in 1..(Len(text) + 1)
            /\ w.nodes = <<Node("text", Page, pos)>> /\ w.errors = ErrorsOf(B, M)
            /\ w.notes = << >>
            /\ RefBody(text, pos, c) = RefFollow(w, RefBody(text, w.to, c))
            /\ \A x : NoneAbove(B, M, c.depth + 1, x) => w.top <= x
    BY <1>2, <1>7, <2>1, ConsumesText
  <2> QED BY <1>2, <2>2 DEF o
<1>9. exact => more = o.errors /\ o.top <= top
  <2>1. c.depth + 1 = k BY <1>2
  <2>2. exact => NoneAbove(A, N, c.depth + 1, top) BY <1>3, <2>1
  <2> QED BY <1>6, <1>8, <2>2
<1>10. FrameRight(exact, text, Consumed(f, o.to, o.nodes, more), k, before,
                 now \o o.notes, top)
  <2>1. RefBody(text, f.pos, InContext(f, k - 1)) =
           RefFollow(o, RefBody(text, o.to, InContext(f, k - 1)))
    BY <1>8 DEF c
  <2>2. o.to \in 1..(Len(text) + 1) BY <1>8
  <2>3. top <= top OBVIOUS
  <2> QED BY <1>8, <1>9, <2>1, <2>2, <2>3, FrameGathers
<1>11. now \o o.notes = now
  <2>1. now \o << >> = now OBVIOUS
  <2> QED BY <1>8, <2>1
<1> QED BY <1>8, <1>10, <1>11 DEF more

\* Its body fails.
LEMMA FrameStuck ==
  ASSUME NEW exact, NEW text \in Seq(Token), NEW f \in Frame, NEW k \in Nat \ {0},
         k <= MaxDepth + 1, NEW top \in Nat,
         TriedRight(exact, text, f, k, top),
         NEW error, Stuck(text, f, error)
  PROVE  /\ ~RefWon(RefBody(text, f.pos, InContext(f, k - 1)))
         /\ RefBody(text, f.pos, InContext(f, k - 1)).error = error
         /\ exact => RefBody(text, f.pos, InContext(f, k - 1)).top <= top
         /\ error = "depth" => exact
<1> DEFINE c == InContext(f, k - 1)
           A == Answers(text, f.pos, InContext(f, k))
           N == Count(text, f.pos)
           pos == f.pos
<1>2. Inside(text, pos, c) /\ Deeper(c) = InContext(f, k) /\ c.depth = k - 1
      /\ c.limit = MaxDepth /\ A = Answers(text, pos, Deeper(c)) /\ N = Count(text, pos)
  BY PlaceContext DEF TriedRight
<1>4. N \in Nat /\ Len(f.tried) \in Nat BY TriedHigher
<1>1. /\ N # 0 => RefToken(text, pos) # "end"
      /\ RefToken(text, pos) = "end" => N = 0
  <2>1. pos \in 1..(Len(text) + 1) BY <1>2 DEF Inside
  <2> HIDE DEF pos
  <2>2. \A i \in 1..Count(text, pos) : pos \in 1..Len(text) BY <2>1, TokenFacts
  <2>3. RefToken(text, pos) # "end" <=> pos \in 1..Len(text) BY <2>1, TokenFacts
  <2>4. N # 0 => 1 \in 1..N BY <1>4
  <2> QED BY <1>2, <2>2, <2>3, <2>4
<1>5. Len(f.tried) >= N BY <1>1, <1>4 DEF Stuck
<1>3. /\ Len(f.tried) = N /\ \A i \in 1..N : ~RefWon(A[i])
      /\ exact => NoneAbove(A, N, k, top)
      /\ f.tried # << >> => LostRight(exact, A[N], Last(f.tried), top)
      /\ f.tried = << >> <=> N = 0
  BY <1>5, NoneLeft
<1>6. error = "depth" => exact /\ LastError(A, N) = "depth" /\ RefToken(text, pos) # "end"
  <2> SUFFICES ASSUME error = "depth"
               PROVE  exact /\ LastError(A, N) = "depth" /\ RefToken(text, pos) # "end"
    OBVIOUS
  <2>1. f.tried # << >> /\ Last(f.tried) = "depth" BY DEF Stuck
  <2>2. exact /\ A[N].error = "depth" /\ N # 0 BY <1>3, <2>1 DEF LostRight
  <2> HIDE DEF A, N
  <2> QED BY <1>1, <2>2 DEF LastError
<1>7. \/ RefToken(text, pos) = "end" /\ error = "end"
      \/ RefToken(text, pos) # "end" /\ error = "depth" /\ LastError(A, N) = "depth"
  BY <1>6 DEF Stuck
<1>9. c.depth + 1 = k BY <1>2
<1> HIDE DEF c, A, N, pos
<1>8. /\ RefBody(text, pos, c).error = error /\ ~RefWon(RefBody(text, pos, c))
      /\ \A x \in Nat : NoneAbove(A, N, c.depth + 1, x) => RefBody(text, pos, c).top <= x
  <2> DEFINE B == Answers(text, pos, Deeper(c))
             M == Count(text, pos)
  <2>1. \A i \in 1..M : ~RefWon(B[i]) BY <1>2, <1>3
  <2>2. \/ RefToken(text, pos) = "end" /\ error = "end"
        \/ RefToken(text, pos) # "end" /\ error = "depth" /\ LastError(B, M) = "depth"
    BY <1>2, <1>7
  <2>3. /\ RefBody(text, pos, c).error = error /\ ~RefWon(RefBody(text, pos, c))
        /\ \A x \in Nat : NoneAbove(B, M, c.depth + 1, x) => RefBody(text, pos, c).top <= x
    BY <1>2, <2>1, <2>2, ConsumesNothing
  <2> QED BY <1>2, <2>3
<1> QED BY <1>3, <1>6, <1>8, <1>9 DEF c, pos

--------------------
(* The stack, against the reference *)

LEMMA RunsOn ==
  ASSUME NEW exact, NEW text, NEW p, NEW q, NEW g, Resumes(g, q), NEW k,
         RunsFor(exact, text, p, q, k), ~RefBodiless(q.rule, InContext(p, k))
  PROVE  RunsFor(exact, text, p, g, k)
<1>1. InContext(g, k) = InContext(q, k) BY SameWalk
<1> QED BY <1>1 DEF RunsFor, Resumes

\* A parser inside consume has a body.
LEMMA RulesBodied ==
  ASSUME NEW exact, NEW text, NEW p, NEW q, NEW k, RunsFor(exact, text, p, q, k),
         q.phase = "rules"
  PROVE  ~RefBodiless(q.rule, InContext(p, k))
BY DEF RunsFor

LEMMA FrameCounts ==
  ASSUME IInv, NInv
  PROVE  /\ frames \in Seq(Frame) /\ Len(frames) \in Nat \ {0} /\ notes \in Seq(Note)
         /\ Len(frames) <= MaxDepth + 1
         /\ \A k \in 1..Len(frames) : frames[k] \in Frame /\ frames[k].noteCount \in Nat
         /\ \A k \in 1..Len(frames) : frames[k].noteCount <= Top.noteCount
         /\ Top.noteCount <= Len(notes) /\ Top.noteCount \in Nat /\ Len(notes) \in Nat
         /\ Top = frames[Len(frames)] /\ Top \in Frame /\ frames[1].noteCount = 0
         /\ \A k \in 2..Len(frames) : frames[k].rule # Page
         /\ frames[1].rule = Page
         /\ \A k \in 1..(Len(frames) - 1) :
              frames[k].phase = "rules" /\ frames[k + 1].start = frames[k].pos
         /\ \A k \in 1..Len(frames) :
              frames[k].depth = IF frames[k].phase = "rules" THEN k ELSE k - 1
<1>1. /\ frames \in Seq(Frame) /\ Len(frames) \in Nat \ {0} /\ notes \in Seq(Note)
      /\ Top = frames[Len(frames)] /\ Top \in Frame /\ Top.noteCount <= Len(notes)
      /\ Len(notes) \in Nat
      /\ \A k \in 1..Len(frames) : frames[k] \in Frame /\ frames[k].noteCount \in Nat
  BY StackIs
<1>2. Len(frames) <= MaxDepth + 1 BY Bounded DEF StackBounded
<1>3. /\ frames[1].noteCount = 0 /\ \A k \in 2..Len(frames) : frames[k].rule # Page
      /\ \A j, k \in 1..Len(frames) : j < k => frames[j].noteCount <= frames[k].noteCount
  BY DEF NInv, NotesFit
<1>4. ASSUME NEW k \in 1..Len(frames) PROVE frames[k].noteCount <= Top.noteCount
  <2>1. CASE k = Len(frames) BY <1>1, <2>1
  <2>2. CASE k < Len(frames) BY <1>1, <1>3, <2>2
  <2> QED BY <1>1, <2>1, <2>2
<1>5. /\ \A k \in 1..Len(frames) : Placed(frames[k], k)
      /\ \A k \in 1..(Len(frames) - 1) : Follows(frames[k], frames[k + 1])
  BY DEF IInv, Stack
<1>6. frames[1].rule = Page
  <2>1. 1 \in 1..Len(frames) BY <1>1
  <2> QED BY <1>5, <2>1 DEF Placed
<1>7. \A k \in 1..(Len(frames) - 1) :
         frames[k].phase = "rules" /\ frames[k + 1].start = frames[k].pos
  BY <1>5 DEF Follows
<1>8. \A k \in 1..Len(frames) : frames[k].depth = IF frames[k].phase = "rules" THEN k ELSE k - 1
  BY <1>5 DEF Placed
<1>9. Top.noteCount \in Nat BY <1>1
<1> QED BY <1>1, <1>2, <1>3, <1>4, <1>6, <1>7, <1>8, <1>9

\* The innermost parser goes on as g.
LEMMA ReplacedRight ==
  ASSUME IInv, NInv, NEW exact, FramesRight(exact),
         NEW g \in Frame, Keeps(g, Top), NEW up,
         Len(frames) > 1 =>
            ~RefBodiless(Top.rule, InContext(frames[Len(frames) - 1], Len(frames) - 1)),
         FrameRight(exact, input, g, Len(frames), Kept(notes, g.noteCount), notes, up)
  PROVE  StackRight(exact, input, Replaced(g), notes, up)
<1> DEFINE n == Len(frames)
           fs == Replaced(g)
<1>1. n \in Nat \ {0} /\ frames \in Seq(Frame) /\ Top = frames[n] BY FrameCounts
<1>2. Len(fs) = n /\ \A k \in 1..n : fs[k] = IF k = n THEN g ELSE frames[k] BY <1>1 DEF Replaced
<1>3. Keeps(g, frames[n]) /\ Resumes(g, frames[n]) BY <1>1 DEF Keeps
<1>4. \A k \in 1..n : fs[k].noteCount = frames[k].noteCount /\ fs[k].enclosing = frames[k].enclosing
  BY <1>2, <1>3 DEF Keeps
<1> HIDE DEF fs, n
<1>5. ASSUME NEW k \in 1..n PROVE PlaceRight(exact, input, fs, notes, up, k)
  <2>1. CASE k = n
    <3>1. NotesAt(fs, notes, n) = notes /\ PeakAt(fs, up, n) = up /\ fs[n] = g
      BY <1>1, <1>2 DEF NotesAt, PeakAt
    <3> QED BY <2>1, <3>1 DEF PlaceRight, n
  <2>2. CASE k # n
    <3>1. k + 1 \in 1..n /\ fs[k] = frames[k] BY <1>1, <1>2, <2>2
    <3>2. /\ NotesAt(fs, notes, k) = NotesAt(frames, notes, k)
          /\ PeakAt(fs, up, k) = PeakAt(frames, peak, k)
      BY <1>2, <1>4, <2>2, <3>1 DEF NotesAt, PeakAt, n
    <3>3. PlaceRight(exact, input, frames, notes, peak, k) BY DEF FramesRight, StackRight, n
    <3> QED BY <3>1, <3>2, <3>3 DEF PlaceRight
  <2> QED BY <2>1, <2>2
<1>6. ASSUME NEW k \in 1..(n - 1) PROVE RunsFor(exact, input, fs[k], fs[k + 1], k)
  <2>1. k \in 1..n /\ k + 1 \in 1..n /\ k # n /\ fs[k] = frames[k]
        /\ RunsFor(exact, input, frames[k], frames[k + 1], k)
    BY <1>1, <1>2 DEF FramesRight, StackRight, n
  <2>2. CASE k + 1 = n
    <3>1. fs[k + 1] = g /\ k = n - 1 BY <1>1, <1>2, <2>1, <2>2
    <3>2. ~RefBodiless(frames[n].rule, InContext(frames[k], k))
      <4>1. n > 1 BY <1>1, <2>1
      <4> QED BY <1>1, <3>1, <4>1 DEF n
    <3>3. RunsFor(exact, input, frames[k], frames[n], k) BY <2>1, <2>2
    <3> QED BY <1>3, <2>1, <3>1, <3>2, <3>3, RunsOn
  <2>3. CASE k + 1 # n BY <1>2, <2>1, <2>3
  <2> QED BY <2>2, <2>3
<1>7. fs[1].accepts = "none" /\ fs[1].zone = "page"
  <2>1. frames[1].accepts = "none" /\ frames[1].zone = "page" BY DEF FramesRight, StackRight
  <2>2. 1 \in 1..n BY <1>1
  <2> QED BY <1>2, <1>3, <2>1, <2>2 DEF Resumes
<1> QED BY <1>2, <1>5, <1>6, <1>7 DEF StackRight, fs

\* The innermost parser returns to its parent, which goes on as g.
LEMMA ReturnedRight ==
  ASSUME IInv, NInv, NEW exact, FramesRight(exact),
         Len(frames) > 1, NEW g \in Frame, Keeps(g, frames[Len(frames) - 1]), NEW up,
         NEW ms, \A i \in 0..Top.noteCount : Kept(ms, i) = Kept(notes, i),
         FrameRight(exact, input, g, Len(frames) - 1, Kept(ms, g.noteCount), ms, up)
  PROVE  StackRight(exact, input, Returned(g), ms, up)
<1> DEFINE n == Len(frames)
           m == n - 1
           fs == Returned(g)
<1>1. /\ n \in Nat \ {0} /\ m \in Nat \ {0} /\ frames \in Seq(Frame)
      /\ \A k \in 1..n : frames[k].noteCount \in 0..Top.noteCount
      /\ \A k \in 1..m : frames[k].phase = "rules"
  BY FrameCounts
<1>2. Len(fs) = m /\ \A k \in 1..m : fs[k] = IF k = m THEN g ELSE frames[k]
  <2> DEFINE s == SubSeq(frames, 1, Len(frames) - 2)
  <2>1. s \in Seq(Frame) BY <1>1
  <2>2. Len(s) = m - 1
    <3>1. \A j \in Nat : j <= n => Len(SubSeq(frames, 1, j)) = j BY <1>1
    <3>2. Len(frames) - 2 \in Nat /\ Len(frames) - 2 <= n /\ Len(frames) - 2 = m - 1 BY <1>1
    <3> QED BY <3>1, <3>2
  <2>3. \A k \in 1..(m - 1) : s[k] = frames[k] BY <1>1
  <2>4. fs = Append(s, g) BY DEF Returned
  <2> HIDE DEF s, fs
  <2> QED BY <1>1, <2>1, <2>2, <2>3, <2>4
<1>3. Keeps(g, frames[m]) /\ Resumes(g, frames[m]) BY DEF Keeps
<1>4. \A k \in 1..m : fs[k].noteCount = frames[k].noteCount /\ fs[k].enclosing = frames[k].enclosing
  BY <1>2, <1>3 DEF Keeps
<1>5. FrameRight(exact, input, g, m, Kept(ms, g.noteCount), ms, up) OBVIOUS
<1>6. \A k \in 1..n : Kept(ms, frames[k].noteCount) = Kept(notes, frames[k].noteCount) BY <1>1
<1>7. \A k \in 1..m : k \in 1..n /\ k # n /\ k + 1 \in 1..n BY <1>1
<1>12. m < n /\ m = n - 1 BY <1>1
<1> HIDE DEF fs, n, m
<1>8. ASSUME NEW k \in 1..m PROVE PlaceRight(exact, input, fs, ms, up, k)
  <2>1. CASE k = m
    <3>1. NotesAt(fs, ms, m) = ms /\ PeakAt(fs, up, m) = up /\ fs[m] = g
      BY <1>1, <1>2, <2>1 DEF NotesAt, PeakAt
    <3> QED BY <1>5, <2>1, <3>1 DEF PlaceRight
  <2>2. CASE k # m
    <3>1. k + 1 \in 1..m /\ fs[k] = frames[k] /\ k \in 1..n /\ k # n /\ k + 1 \in 1..n
      BY <1>1, <1>2, <1>7, <2>2
    <3>2. /\ NotesAt(fs, ms, k) = NotesAt(frames, notes, k)
          /\ PeakAt(fs, up, k) = PeakAt(frames, peak, k)
      BY <1>2, <1>4, <1>6, <2>2, <3>1 DEF NotesAt, PeakAt, n
    <3>3. PlaceRight(exact, input, frames, notes, peak, k) BY <3>1 DEF FramesRight, StackRight, n
    <3>4. Kept(ms, frames[k].noteCount) = Kept(notes, frames[k].noteCount) BY <1>6, <3>1
    <3> QED BY <3>1, <3>2, <3>3, <3>4 DEF PlaceRight
  <2> QED BY <2>1, <2>2
<1>9. ASSUME NEW k \in 1..(m - 1) PROVE RunsFor(exact, input, fs[k], fs[k + 1], k)
  <2>1. k \in 1..m /\ k + 1 \in 1..m /\ k # m /\ fs[k] = frames[k] /\ k \in 1..(n - 1)
    BY <1>1, <1>2, <1>12
  <2>2. RunsFor(exact, input, frames[k], frames[k + 1], k) BY <2>1 DEF FramesRight, StackRight, n
  <2>3. CASE k + 1 = m
    <3>1. fs[k + 1] = g BY <1>2, <2>1, <2>3
    <3>2. ~RefBodiless(frames[m].rule, InContext(frames[k], k))
      BY <1>1, <2>1, <2>2, <2>3, RulesBodied
    <3> QED BY <1>3, <2>1, <2>2, <2>3, <3>1, <3>2, RunsOn
  <2>4. CASE k + 1 # m BY <1>2, <2>1, <2>2, <2>4
  <2> QED BY <2>3, <2>4
<1>10. fs[1].accepts = "none" /\ fs[1].zone = "page"
  <2>1. frames[1].accepts = "none" /\ frames[1].zone = "page" BY DEF FramesRight, StackRight
  <2>2. 1 \in 1..m BY <1>1
  <2> QED BY <1>2, <1>3, <2>1, <2>2 DEF Resumes
<1> QED BY <1>2, <1>8, <1>9, <1>10 DEF StackRight, fs

\* A clone is put on the stack.
LEMMA ClonedRight ==
  ASSUME IInv, NInv, NEW exact, FramesRight(exact),
         NEW q \in Frame, q.noteCount = Len(notes), q.enclosing = peak,
         RunsFor(exact, input, Top, q, Len(frames)), NEW up,
         FrameRight(exact, input, q, Len(frames) + 1, notes, notes, up)
  PROVE  StackRight(exact, input, Append(frames, q), notes, up)
<1> DEFINE n == Len(frames)
           m == n + 1
           fs == Append(frames, q)
<1>1. n \in Nat \ {0} /\ frames \in Seq(Frame) /\ Top = frames[n] /\ m \in Nat BY FrameCounts
<1>2. Len(fs) = m /\ fs[m] = q /\ \A k \in 1..n : fs[k] = frames[k] BY <1>1
<1>3. Kept(notes, Len(notes)) = notes BY FrameCounts DEF Kept
<1>4. FrameRight(exact, input, q, m, notes, notes, up) OBVIOUS
<1>5. \A k \in 1..m : k = m \/ k \in 1..n BY <1>1
<1>6. \A k \in 1..n : k # m BY <1>1
<1> HIDE DEF fs, m, n
<1>8. ASSUME NEW k \in 1..m PROVE PlaceRight(exact, input, fs, notes, up, k)
  <2>1. CASE k = m
    <3>1. NotesAt(fs, notes, m) = notes /\ PeakAt(fs, up, m) = up BY <1>2 DEF NotesAt, PeakAt
    <3>2. q.noteCount = Len(notes) OBVIOUS
    <3> QED BY <1>2, <1>3, <1>4, <2>1, <3>1, <3>2 DEF PlaceRight
  <2>2. CASE k \in 1..n
    <3>1. k # m /\ fs[k] = frames[k] BY <1>2, <1>6, <2>2
    <3>2. PlaceRight(exact, input, frames, notes, peak, k) BY <2>2 DEF FramesRight, StackRight, n
    <3>3. /\ NotesAt(fs, notes, k) = NotesAt(frames, notes, k)
          /\ PeakAt(fs, up, k) = PeakAt(frames, peak, k)
      <4>1. CASE k = n
        <5>1. fs[k + 1] = q BY <1>2, <4>1 DEF m
        <5> QED BY <1>2, <1>3, <3>1, <4>1, <5>1 DEF NotesAt, PeakAt, n
      <4>2. CASE k # n
        <5>1. k + 1 \in 1..n BY <1>1, <2>2, <4>2
        <5> QED BY <1>2, <3>1, <4>2, <5>1 DEF NotesAt, PeakAt, n
      <4> QED BY <4>1, <4>2
    <3> QED BY <3>1, <3>2, <3>3 DEF PlaceRight
  <2> QED BY <1>5, <2>1, <2>2
<1>9. ASSUME NEW k \in 1..(m - 1) PROVE RunsFor(exact, input, fs[k], fs[k + 1], k)
  <2>1. k \in 1..n BY <1>1 DEF m
  <2>2. CASE k = n
    <3>1. fs[k + 1] = q /\ fs[k] = Top BY <1>1, <1>2, <2>1, <2>2 DEF m
    <3> QED BY <2>2, <3>1 DEF n
  <2>3. CASE k # n
    <3>1. k + 1 \in 1..n /\ k \in 1..(n - 1) BY <1>1, <2>1, <2>3
    <3>2. RunsFor(exact, input, frames[k], frames[k + 1], k) BY <3>1 DEF FramesRight, StackRight, n
    <3> QED BY <1>2, <2>1, <3>1, <3>2
  <2> QED BY <2>2, <2>3
<1>10. fs[1].accepts = "none" /\ fs[1].zone = "page"
  <2>1. frames[1].accepts = "none" /\ frames[1].zone = "page" BY DEF FramesRight, StackRight
  <2>2. 1 \in 1..n BY <1>1
  <2> QED BY <1>2, <2>1, <2>2
<1> QED BY <1>2, <1>8, <1>9, <1>10 DEF StackRight, fs

--------------------
(* What the memos hold *)

LEMMA KeyContexts ==
  ASSUME NEW key \in MemoKey, NEW depth \in 0..MaxDepth
  PROVE  /\ Lookup(key, KeyCtx(key, depth), depth)
         /\ Lookup(key, InContext(key, depth), depth) /\ InContext(key, depth).rule = key.rule
<1>1. /\ key.rule \in Rule /\ key.accepts \in Accepts /\ key.zone \in Zones
      /\ Page \in Rule /\ MaxDepth \in Nat
  BY RuleEngineAssumption DEF MemoKey
<1>2. Lookup(key, KeyCtx(key, depth), depth)
  BY <1>1 DEF Lookup, KeyCtx, Within, RefContexts, Accepts, Zones
<1>3. Lookup(key, InContext(key, depth), depth) /\ InContext(key, depth).rule = key.rule
  BY <1>1, InContextIs DEF Lookup, InContext
<1> QED BY <1>2, <1>3

\* Two depths that an entry is for are the same, or below the limit by its height.
LEMMA UsesAgree ==
  ASSUME NEW exact, NEW key \in MemoKey, NEW height \in Nat, NEW d, NEW e,
         NEW o, NEW p, o.top \in Nat, p.top \in Nat,
         Recorded(exact, key, height, d, o.top), MayUse(key, height, e),
         OnPath(exact, p.top),
         NEW b, Lookup(key, b, d), NEW c, Lookup(key, c, e)
  PROVE  Within2(o, p, b, c)
<1>1. /\ d \in 0..MaxDepth /\ e \in 0..MaxDepth /\ b.depth = d /\ c.depth = e
      /\ b.limit = MaxDepth /\ c.limit = MaxDepth
  BY DEF Recorded, MayUse, Lookup
<1>2. CASE key.depth = {d} \/ key.depth = {e}
  <2>1. d = e
    <3>1. key.depth # {} BY <1>2
    <3>2. key.depth = {d} /\ key.depth = {e} BY <3>1 DEF Recorded, MayUse
    <3> QED BY <3>2
  <2> QED BY <1>1, <2>1 DEF Within2
<1>3. CASE d + height <= MaxDepth /\ e + height <= MaxDepth
  <2>1. CASE exact
    <3>1. o.top <= d + height BY <2>1 DEF Recorded
    <3>2. o.top <= b.depth + height /\ b.depth + height <= b.limit /\ c.depth + height <= b.limit
      BY <1>1, <1>3, <3>1
    <3> QED BY <1>1, <3>2 DEF Within2
  <2>2. CASE ~exact
    <3>1. o.top <= MaxDepth /\ p.top <= MaxDepth BY <2>2 DEF Recorded, OnPath
    <3> QED BY <1>1, <3>1 DEF Within2
  <2> QED BY <2>1, <2>2
<1> QED BY <1>2, <1>3 DEF Recorded, MayUse

LEMMA MovedTop ==
  ASSUME NEW exact, NEW height \in Nat, NEW d \in Nat, NEW e \in Nat, NEW o, NEW p,
         o.top \in Nat, p.top \in Nat, NEW key, Recorded(exact, key, height, d, o.top),
         Moved(o, p, d, e)
  PROVE  exact => p.top <= e + height
<1> DEFINE x == o.top
           y == p.top
<1>1. y + d = x + e /\ x \in Nat /\ y \in Nat BY DEF Moved
<1>2. exact => x <= d + height BY DEF Recorded
<1> HIDE DEF x, y
<1>3. exact => y <= e + height BY <1>1, <1>2
<1> QED BY <1>3 DEF y

\* An attempt is what an entry that may be used for it says.
LEMMA UseAttempt ==
  ASSUME NEW exact, NEW text \in Seq(Token), NEW key \in MemoKey, key.pos \in 1..Len(text),
         NEW height \in Nat, NEW d \in 0..MaxDepth, NEW e \in 0..MaxDepth,
         Recorded(exact, key, height, d, AttemptAt(text, key, d).top),
         MayUse(key, height, e), NEW c, Lookup(key, c, e),
         OnPath(exact, RefAttempt(text, key.rule, key.pos, c).top)
  PROVE  LET o == AttemptAt(text, key, d)
             p == RefAttempt(text, key.rule, key.pos, c)
         IN  Moved(o, p, d, e) /\ (exact => p.top <= e + height)
<1> DEFINE b == KeyCtx(key, d)
           r == key.rule
           pos == key.pos
           o == RefAttempt(text, r, pos, b)
           p == RefAttempt(text, r, pos, c)
<1>1. Lookup(key, b, d) /\ r \in Rule /\ pos \in 1..Len(text) BY KeyContexts DEF MemoKey
<1>2. /\ Within(b) /\ Within(c) /\ c.accepts = b.accepts /\ c.zone = b.zone
      /\ b.limit = c.limit /\ b.depth = d /\ c.depth = e
  BY <1>1 DEF Lookup
<1> HIDE DEF b, r, pos
<1>3. o.top \in Nat /\ p.top \in Nat
  <2>1. Typed(o, b, pos + 1, Len(text) + 1) /\ Typed(p, c, pos + 1, Len(text) + 1)
    BY <1>1, <1>2, RuleTyped
  <2> QED BY <2>1 DEF Typed, RefOutcome
<1>4. Within2(o, p, b, c)
  <2>1. Recorded(exact, key, height, d, o.top) /\ OnPath(exact, p.top) BY DEF AttemptAt, b, r, pos
  <2> HIDE DEF o, p
  <2> QED BY <1>1, <1>3, <2>1, UsesAgree
<1>5. Moved(o, p, d, e)
  <2>1. Moved(RefAttempt(text, r, pos, b), RefAttempt(text, r, pos, c), b.depth, c.depth)
    BY <1>1, <1>2, <1>4, SameRule
  <2> QED BY <1>2, <2>1
<1>6. exact => p.top <= e + height
  <2>1. Recorded(exact, key, height, d, o.top) BY DEF AttemptAt, b, r, pos
  <2>2. d \in Nat /\ e \in Nat BY RuleEngineAssumption
  <2> HIDE DEF o, p
  <2> QED BY <1>3, <1>5, <2>1, <2>2, MovedTop
<1> QED BY <1>5, <1>6 DEF AttemptAt, b, r, pos

LEMMA UseBody ==
  ASSUME NEW exact, NEW text \in Seq(Token), NEW key \in MemoKey,
         key.pos \in 1..(Len(text) + 1),
         NEW height \in Nat, NEW d \in 0..MaxDepth, NEW e \in 0..MaxDepth,
         Recorded(exact, key, height, d, BodyAt(text, key, d).top),
         MayUse(key, height, e), NEW c, Lookup(key, c, e), c.rule = key.rule,
         OnPath(exact, RefBody(text, key.pos, c).top)
  PROVE  LET o == BodyAt(text, key, d)
             p == RefBody(text, key.pos, c)
         IN  Moved(o, p, d, e) /\ (exact => p.top <= e + height)
<1> DEFINE b == InContext(key, d)
           pos == key.pos
           o == RefBody(text, pos, b)
           p == RefBody(text, pos, c)
<1>1. Lookup(key, b, d) /\ b.rule = key.rule /\ pos \in 1..(Len(text) + 1) BY KeyContexts
<1>2. /\ Within(b) /\ Within(c) /\ Alike(b, c)
      /\ b.limit = c.limit /\ b.depth = d /\ c.depth = e
  BY <1>1 DEF Lookup, Alike
<1> HIDE DEF b, pos
<1>3. o.top \in Nat /\ p.top \in Nat BY <1>1, <1>2, BodyOutcome
<1>4. Within2(o, p, b, c)
  <2>1. Recorded(exact, key, height, d, o.top) /\ OnPath(exact, p.top) BY DEF BodyAt, b, pos
  <2> HIDE DEF o, p
  <2> QED BY <1>1, <1>3, <2>1, UsesAgree
<1>5. Moved(o, p, d, e)
  <2>1. Moved(RefBody(text, pos, b), RefBody(text, pos, c), b.depth, c.depth)
    BY <1>1, <1>2, <1>4, SameBody
  <2> QED BY <1>2, <2>1
<1>6. exact => p.top <= e + height
  <2>1. Recorded(exact, key, height, d, o.top) BY DEF BodyAt, b, pos
  <2>2. d \in Nat /\ e \in Nat BY RuleEngineAssumption
  <2> HIDE DEF o, p
  <2> QED BY <1>3, <1>5, <2>1, <2>2, MovedTop
<1> QED BY <1>5, <1>6 DEF BodyAt, b, pos

LEMMA UseFailure ==
  ASSUME NEW exact, NEW text \in Seq(Token), NEW key \in MemoKey,
         NEW entry \in FailureEntries, FailureRight(exact, text, key, entry),
         NEW e, MayUse(key, entry.height, e), NEW c, Lookup(key, c, e),
         OnPath(exact, RefAttempt(text, key.rule, key.pos, c).top),
         NEW up \in Nat, e + entry.height <= up
  PROVE  /\ LostRight(exact, RefAttempt(text, key.rule, key.pos, c), entry.error, up)
         /\ RefAttempt(text, key.rule, key.pos, c).error = entry.error
<1> DEFINE p == RefAttempt(text, key.rule, key.pos, c)
           height == entry.height
<1>1. PICK d \in 0..MaxDepth :
        /\ Recorded(exact, key, entry.height, d, AttemptAt(text, key, d).top)
        /\ ~RefWon(AttemptAt(text, key, d))
        /\ AttemptAt(text, key, d).error = entry.error
  BY DEF FailureRight
<1>2. height \in Nat /\ e \in 0..MaxDepth /\ key.pos \in 1..Len(text)
  BY DEF FailureEntries, FailureRight, MayUse
<1>3. Recorded(exact, key, height, d, AttemptAt(text, key, d).top) /\ MayUse(key, height, e) BY <1>1
<1> HIDE DEF height
<1>4. Moved(AttemptAt(text, key, d), p, d, e) /\ (exact => p.top <= e + height)
  BY <1>2, <1>3, UseAttempt
<1>5. p.error = entry.error /\ ~RefWon(p) BY <1>1, <1>4 DEF Moved, RefWon
<1>6. p.top \in Nat /\ (p.error = "depth" => p.top > MaxDepth)
  <2> DEFINE r == key.rule
             pos == key.pos
  <2>1. Within(c) /\ c.limit = MaxDepth /\ r \in Rule /\ pos \in 1..Len(text)
    BY <1>2 DEF Lookup, MemoKey
  <2> HIDE DEF r, pos
  <2>2. Typed(RefAttempt(text, r, pos, c), c, pos + 1, Len(text) + 1) BY <2>1, RuleTyped
  <2> QED BY <2>1, <2>2 DEF Typed, RefOutcome, r, pos
<1>7. exact => p.top <= up
  <2>1. e + height <= up /\ e \in Nat BY <1>2, RuleEngineAssumption DEF height
  <2> HIDE DEF p
  <2> QED BY <1>2, <1>4, <1>6, <2>1
<1>8. ~exact => p.error # "depth"
  <2>1. ~exact => p.top <= MaxDepth BY DEF OnPath
  <2> HIDE DEF p
  <2> QED BY <1>6, <2>1, RuleEngineAssumption
<1> QED BY <1>5, <1>7, <1>8 DEF LostRight

LEMMA UseSuccess ==
  ASSUME NEW exact, NEW text \in Seq(Token), NEW key \in MemoKey,
         NEW entry \in SuccessEntries, SuccessRight(exact, text, key, entry),
         NEW e, MayUse(key, entry.height, e), NEW c, Lookup(key, c, e),
         OnPath(exact, RefAttempt(text, key.rule, key.pos, c).top)
  PROVE  SavedRight(exact, RefAttempt(text, key.rule, key.pos, c), entry,
                    key.pos + entry.length, e + entry.height)
<1> DEFINE p == RefAttempt(text, key.rule, key.pos, c)
           height == entry.height
<1>1. PICK d \in 0..MaxDepth :
        /\ Recorded(exact, key, entry.height, d, AttemptAt(text, key, d).top)
        /\ RefWon(AttemptAt(text, key, d))
        /\ AttemptAt(text, key, d).nodes = entry.nodes
        /\ AttemptAt(text, key, d).notes = << >>
        /\ AttemptAt(text, key, d).to = key.pos + entry.length
        /\ exact => AttemptAt(text, key, d).errors = entry.errors
  BY DEF SuccessRight
<1>2. height \in Nat /\ e \in 0..MaxDepth /\ key.pos \in 1..Len(text)
  BY DEF SuccessEntries, SuccessRight, MayUse
<1>3. Recorded(exact, key, height, d, AttemptAt(text, key, d).top) /\ MayUse(key, height, e) BY <1>1
<1> HIDE DEF height
<1>4. Moved(AttemptAt(text, key, d), p, d, e) /\ (exact => p.top <= e + height)
  BY <1>2, <1>3, UseAttempt
<1> QED BY <1>1, <1>4 DEF Moved, RefWon, SavedRight, height

LEMMA UseWalk ==
  ASSUME NEW exact, NEW text \in Seq(Token), NEW key \in MemoKey,
         NEW entry \in WalkEntries, WalkRight(exact, text, key, entry),
         NEW e, MayUse(key, entry.height, e), NEW c, Lookup(key, c, e), c.rule = key.rule,
         OnPath(exact, RefBody(text, key.pos, c).top)
  PROVE  LET p == RefBody(text, key.pos, c)
         IN  /\ ~RefWon(p) /\ p.error = "end"
             /\ exact => p.top <= e + entry.height
<1> DEFINE p == RefBody(text, key.pos, c)
           height == entry.height
<1>1. PICK d \in 0..MaxDepth :
        /\ Recorded(exact, key, entry.height, d, BodyAt(text, key, d).top)
        /\ ~RefWon(BodyAt(text, key, d))
        /\ BodyAt(text, key, d).error = "end"
  BY DEF WalkRight
<1>2. height \in Nat /\ e \in 0..MaxDepth /\ key.pos \in 1..(Len(text) + 1)
  BY DEF WalkEntries, WalkRight, MayUse
<1>3. Recorded(exact, key, height, d, BodyAt(text, key, d).top) /\ MayUse(key, height, e) BY <1>1
<1> HIDE DEF height
<1>4. Moved(BodyAt(text, key, d), p, d, e) /\ (exact => p.top <= e + height) BY <1>2, <1>3, UseBody
<1> QED BY <1>1, <1>4 DEF Moved, RefWon, height

--------------------
(* New entries *)

LEMMA StoredMayUse ==
  ASSUME NEW key \in MemoKey, key.depth = {}, NEW depth \in 0..MaxDepth,
         NEW height \in Nat
  PROVE  /\ MayUse(Stored(key, depth, height), height, depth)
         /\ Stored(key, depth, height).rule = key.rule
         /\ Stored(key, depth, height).pos = key.pos
         /\ Stored(key, depth, height).accepts = key.accepts
         /\ Stored(key, depth, height).zone = key.zone
<1>1. CASE depth + height > MaxDepth
  <2>1. Stored(key, depth, height) = [key EXCEPT !.depth = {depth}] BY <1>1 DEF Stored, Pinned
  <2> QED BY <2>1 DEF MayUse, MemoKey
<1>2. CASE ~(depth + height > MaxDepth)
  <2>1. Stored(key, depth, height) = key /\ depth + height <= MaxDepth
    BY <1>2, RuleEngineAssumption DEF Stored
  <2> QED BY <2>1 DEF MayUse
<1> QED BY <1>1, <1>2

LEMMA SameAttempt ==
  ASSUME NEW text, NEW key, NEW other, key.rule = other.rule, key.pos = other.pos,
         key.accepts = other.accepts, key.zone = other.zone, NEW depth
  PROVE  /\ AttemptAt(text, key, depth) = AttemptAt(text, other, depth)
         /\ BodyAt(text, key, depth) = BodyAt(text, other, depth)
BY DEF AttemptAt, BodyAt, KeyCtx, InContext

\* An entry recorded under these keys, the others as they were.
LEMMA WithFailures ==
  ASSUME NEW exact, NEW text, NEW memo, FailuresRight(exact, text, memo), NEW keys, NEW entry,
         \A key \in keys : FailureRight(exact, text, key, entry)
  PROVE  FailuresRight(exact, text, With(memo, keys, entry))
BY DEF FailuresRight, With

LEMMA WithSuccesses ==
  ASSUME NEW exact, NEW text, NEW memo, SuccessesRight(exact, text, memo), NEW keys,
         NEW entry, \A key \in keys : SuccessRight(exact, text, key, entry)
  PROVE  SuccessesRight(exact, text, With(memo, keys, entry))
BY DEF SuccessesRight, With

LEMMA WithWalks ==
  ASSUME NEW exact, NEW text, NEW memo, WalksRight(exact, text, memo), NEW keys,
         NEW entry, \A key \in keys : WalkRight(exact, text, key, entry)
  PROVE  WalksRight(exact, text, With(memo, keys, entry))
BY DEF WalksRight, With

\* An outcome is remembered.
LEMMA RememberFailure ==
  ASSUME NEW exact, NEW text, NEW memo, FailuresRight(exact, text, memo),
         NEW key \in MemoKey, key.depth = {}, key.pos \in 1..Len(text),
         NEW depth \in 0..MaxDepth, NEW entry, entry.height \in Nat,
         ~RefWon(AttemptAt(text, key, depth)),
         AttemptAt(text, key, depth).error = entry.error,
         OnPath(exact, AttemptAt(text, key, depth).top),
         exact => AttemptAt(text, key, depth).top <= depth + entry.height
  PROVE  FailuresRight(exact, text, Remember(memo, key, depth, entry))
<1> DEFINE height == entry.height
           s == Stored(key, depth, height)
<1>1. height \in Nat OBVIOUS
<1>2. /\ MayUse(s, height, depth) /\ s.rule = key.rule /\ s.pos = key.pos
      /\ s.accepts = key.accepts /\ s.zone = key.zone
  BY <1>1, StoredMayUse
<1>3. AttemptAt(text, s, depth) = AttemptAt(text, key, depth) BY <1>2, SameAttempt
<1>4. FailureRight(exact, text, s, entry) BY <1>2, <1>3 DEF FailureRight, Recorded
<1>5. Remember(memo, key, depth, entry) = With(memo, {s}, entry) BY DEF Remember
<1> HIDE DEF s
<1> QED BY <1>4, <1>5, WithFailures

LEMMA RememberSuccess ==
  ASSUME NEW exact, NEW text, NEW memo, SuccessesRight(exact, text, memo),
         NEW key \in MemoKey, key.depth = {}, key.pos \in 1..Len(text),
         NEW depth \in 0..MaxDepth, NEW entry, entry.height \in Nat,
         NEW o, o = AttemptAt(text, key, depth),
         RefWon(o), o.nodes = entry.nodes, o.notes = << >>,
         o.to = key.pos + entry.length, exact => o.errors = entry.errors,
         OnPath(exact, o.top), exact => o.top <= depth + entry.height
  PROVE  SuccessesRight(exact, text, Remember(memo, key, depth, entry))
<1> DEFINE height == entry.height
           s == Stored(key, depth, height)
<1>1. height \in Nat OBVIOUS
<1>2. /\ MayUse(s, height, depth) /\ s.rule = key.rule /\ s.pos = key.pos
      /\ s.accepts = key.accepts /\ s.zone = key.zone
  BY <1>1, StoredMayUse
<1>3. AttemptAt(text, s, depth) = o BY <1>2, SameAttempt
<1>4. SuccessRight(exact, text, s, entry) BY <1>2, <1>3 DEF SuccessRight, Recorded
<1>5. Remember(memo, key, depth, entry) = With(memo, {s}, entry) BY DEF Remember
<1> HIDE DEF s
<1> QED BY <1>4, <1>5, WithSuccesses

--------------------
(* The engine and the reference *)

LEMMA TopRight ==
  ASSUME IInv, NInv, NEW exact, FramesRight(exact)
  PROVE  /\ FrameRight(exact, input, Top, Len(frames), Kept(notes, Top.noteCount),
                       notes, peak)
         /\ Within(BodyCtx) /\ BodyCtx.depth = Len(frames) - 1 /\ BodyCtx.limit = MaxDepth
         /\ BodyCtx.rule = Top.rule /\ BodyCtx.zone = Top.zone
         /\ Deeper(BodyCtx) = InContext(Top, Len(frames))
         /\ Len(frames) \in Nat \ {0} /\ Len(frames) <= MaxDepth + 1
         /\ Top \in Frame /\ peak \in Nat /\ input \in Seq(Token) /\ Len(input) \in Nat
         /\ Top.pos \in 1..(Len(input) + 1) /\ FirstPos(Top) \in 1..(Len(input) + 1)
         /\ Walked(exact, input, FirstPos(Top), Top.pos, BodyCtx, Top.nodes, Top.errors,
                   Kept(notes, Top.noteCount), notes, peak)
         /\ \A v \in Top.visited : Passed(input, FirstPos(Top), v, BodyCtx)
         /\ Kept(notes, Top.noteCount) \in Seq(Note)
         /\ Top.depth = IF Top.phase = "rules" THEN Len(frames) ELSE Len(frames) - 1
<1> DEFINE n == Len(frames)
<1>1. /\ n \in Nat \ {0} /\ n <= MaxDepth + 1 /\ Top \in Frame /\ Top = frames[n]
      /\ Top.depth = IF Top.phase = "rules" THEN n ELSE n - 1
  BY FrameCounts
<1>2. PlaceRight(exact, input, frames, notes, peak, n) BY <1>1 DEF FramesRight, StackRight
<1>3. FrameRight(exact, input, Top, n, Kept(notes, Top.noteCount), notes, peak)
  <2>1. NotesAt(frames, notes, n) = notes /\ PeakAt(frames, peak, n) = peak BY DEF NotesAt, PeakAt
  <2> QED BY <1>1, <1>2, <2>1 DEF PlaceRight
<1>4. /\ Within(BodyCtx) /\ BodyCtx.depth = n - 1 /\ BodyCtx.limit = MaxDepth
      /\ Deeper(BodyCtx) = InContext(Top, n)
  BY <1>1, PlaceContext DEF BodyCtx
<1>5. BodyCtx.rule = Top.rule /\ BodyCtx.zone = Top.zone BY DEF BodyCtx, InContext
<1>6. peak \in Nat /\ input \in Seq(Token) /\ Len(input) \in Nat BY DEF IInv
<1>7. Kept(notes, Top.noteCount) \in Seq(Note) BY FrameCounts DEF Kept
<1> QED BY <1>1, <1>3, <1>4, <1>5, <1>6, <1>7 DEF FrameRight, BodyCtx

\* A parser that goes on, or is inside consume, has a body.
LEMMA TopBodied ==
  ASSUME IInv, NInv, NEW exact, FramesRight(exact),
         Top.phase = "rules" \/ BodyGoesOn
  PROVE  Bodied
<1> DEFINE n == Len(frames)
<1> SUFFICES ASSUME n > 1 PROVE ~RefBodiless(Top.rule, InContext(frames[n - 1], n - 1))
  BY DEF Bodied
<1>1. n \in Nat /\ Top = frames[n] /\ Top.rule # Page /\ n - 1 \in 1..(n - 1) BY FrameCounts
<1>2. RunsFor(exact, input, frames[n - 1], Top, n - 1)
  <2>1. RunsFor(exact, input, frames[n - 1], frames[(n - 1) + 1], n - 1) BY <1>1 DEF FramesRight, StackRight
  <2> QED BY <1>1, <2>1
<1>3. CASE Top.phase = "rules" BY <1>2, <1>3, RulesBodied
<1>4. CASE BodyGoesOn
  <2>1. Shape[Top.rule] # "leaf" /\ ~Nested(Top) BY <1>1, <1>4 DEF BodyGoesOn, BodyCloses
  <2>2. InContext(frames[n - 1], n - 1).zone = frames[n - 1].zone BY DEF InContext
  <2> QED BY <2>1, <2>2 DEF RefBodiless, Nested
<1> QED BY <1>3, <1>4

\* Below the page, every body keeps to where the page as a whole does.
LEMMA PathHolds ==
  ASSUME IInv, NInv, NEW exact, FramesRight(exact),
         OnLimit(exact), Bodied
  PROVE  /\ OnPath(exact, RefBody(input, FirstPos(Top), BodyCtx).top)
         /\ OnPath(exact, RefBody(input, Top.pos, BodyCtx).top)
<1> DEFINE n == Len(frames)
<1>1. n \in Nat \ {0} /\ Top = frames[n] /\ frames[1].rule = Page
      /\ \A k \in 2..n : frames[k].rule # Page
  BY FrameCounts
<1>2. OnPath(exact, RefBody(input, FirstPos(Top), BodyCtx).top)
  <2>1. CASE n = 1
    <3>1. Top = frames[1] /\ Top.accepts = "none" /\ Top.zone = "page" BY <1>1, <2>1 DEF FramesRight, StackRight
    <3>2. FirstPos(Top) = 1 /\ BodyCtx = [rule |-> Page, depth |-> 0, accepts |-> "none",
                                           zone |-> "page", limit |-> MaxDepth]
      BY <1>1, <2>1, <3>1 DEF FirstPos, BodyCtx, InContext
    <3> QED BY <3>2 DEF OnLimit, RefPage
  <2>2. CASE n > 1
    <3>1. n - 1 \in 1..(n - 1) /\ Top.rule # Page BY <1>1, <2>2
    <3>2. RunsFor(exact, input, frames[n - 1], Top, n - 1)
      <4>1. RunsFor(exact, input, frames[n - 1], frames[(n - 1) + 1], n - 1) BY <3>1 DEF FramesRight, StackRight
      <4> QED BY <1>1, <4>1
    <3>3. ~RefBodiless(Top.rule, InContext(frames[n - 1], n - 1)) BY <2>2 DEF Bodied
    <3>4. OnPath(exact, RefBody(input, Top.start + 1, InContext(Top, n - 1)).top)
      BY <3>2, <3>3 DEF RunsFor
    <3>5. FirstPos(Top) = Top.start + 1 BY <3>1 DEF FirstPos
    <3>6. BodyCtx = InContext(Top, n - 1) BY DEF BodyCtx
    <3> QED BY <3>4, <3>5, <3>6
  <2>3. n = 1 \/ n > 1 BY <1>1
  <2> QED BY <2>1, <2>2, <2>3
<1>3. OnPath(exact, RefBody(input, Top.pos, BodyCtx).top)
  <2> DEFINE c == BodyCtx
             pos == Top.pos
             first == FirstPos(Top)
             nodes == Top.nodes
             errors == Top.errors
             before == Kept(notes, Top.noteCount)
  <2>1. /\ Walked(exact, input, first, pos, c, nodes, errors, before, notes, peak)
        /\ pos \in 1..(Len(input) + 1) /\ first \in 1..(Len(input) + 1) /\ Within(c)
        /\ Top \in Frame /\ input \in Seq(Token)
    BY TopRight
  <2>2. c.depth \in Nat /\ nodes \in Nodes BY <2>1 DEF Frame, Within, RefContexts
  <2> HIDE DEF c, pos, first, nodes, errors, before
  <2>3. Passed(input, first, pos, c) BY <2>1, <2>2, WalkPasses
  <2>4. RefBody(input, pos, c).top <= RefBody(input, first, c).top BY <2>1, <2>3, PassedBelow
  <2>5. RefBody(input, pos, c).top \in Nat /\ RefBody(input, first, c).top \in Nat
    BY <2>1, BodyOutcome
  <2>6. OnPath(exact, RefBody(input, first, c).top) BY <1>2 DEF c, first
  <2>7. OnPath(exact, RefBody(input, pos, c).top)
    BY <2>4, <2>5, <2>6, RuleEngineAssumption DEF OnPath
  <2> QED BY <2>7 DEF c, pos
<1> QED BY <1>2, <1>3

\* The innermost parser stands on this token.
LEMMA HereIs ==
  ASSUME IInv PROVE Here = RefToken(input, Top.pos)
BY DEF Here, Tok, RefToken

--------------------
(* The attempt the innermost parser runs, and its parent *)

LEMMA ParentRight ==
  ASSUME IInv, NInv, NEW exact, FramesRight(exact),
         Len(frames) > 1
  PROVE  /\ Len(frames) - 1 \in Nat \ {0} /\ Len(frames) - 1 <= MaxDepth
         /\ Parent \in Frame /\ Parent.phase = "rules" /\ Parent.depth = Len(frames) - 1
         /\ Top.start = Parent.pos /\ Top.rule # Page /\ Top.rule \in Rule
         /\ Top.start \in 1..Len(input)
         /\ Len(Parent.tried) < Count(input, Parent.pos)
         /\ Within(ParentCtx) /\ ParentCtx.depth = Len(frames) - 1
         /\ ParentCtx.limit = MaxDepth /\ ParentCtx.accepts = Parent.accepts
         /\ ParentCtx.zone = Parent.zone
         /\ RunsFor(exact, input, Parent, Top, Len(frames) - 1)
         /\ Answers(input, Parent.pos, ParentCtx)[Len(Parent.tried) + 1] = Attempted
         /\ FrameRight(exact, input, Parent, Len(frames) - 1,
                       Kept(notes, Parent.noteCount), Kept(notes, Top.noteCount),
                       Top.enclosing)
         /\ FirstPos(Top) = Top.start + 1
         /\ Top.enclosing \in Nat /\ Parent.depth <= peak
         /\ Kept(notes, Parent.noteCount) \in Seq(Note)
         /\ Kept(notes, Top.noteCount) \in Seq(Note)
<1> DEFINE n == Len(frames)
           m == n - 1
           p == frames[m]
<1>1. /\ n \in Nat \ {0} /\ m \in Nat \ {0} /\ m + 1 = n /\ m \in 1..n /\ n \in 2..n
      /\ m \in 1..(n - 1) /\ Top = frames[n] /\ n <= MaxDepth + 1 /\ m # n
  BY FrameCounts
<1>2. m <= MaxDepth
  <2>1. n \in Nat /\ m \in Nat /\ m + 1 = n /\ n <= MaxDepth + 1 /\ MaxDepth \in Nat
    BY <1>1, RuleEngineAssumption
  <2> HIDE DEF n, m
  <2> QED BY <2>1
<1>3. /\ p \in Frame /\ p.phase = "rules" /\ p.depth = m /\ Top.start = p.pos
      /\ Top.rule # Page /\ Top \in Frame
      /\ p.noteCount \in Nat /\ Top.noteCount \in Nat /\ p.noteCount <= Top.noteCount
      /\ Top.noteCount <= Len(notes) /\ notes \in Seq(Note) /\ Len(notes) \in Nat
  BY <1>1, FrameCounts
<1>4. RunsFor(exact, input, p, Top, m)
  <2>1. RunsFor(exact, input, frames[m], frames[m + 1], m) BY <1>1 DEF FramesRight, StackRight
  <2> QED BY <1>1, <2>1
<1>5. /\ FrameRight(exact, input, p, m, Kept(notes, p.noteCount), Kept(notes, Top.noteCount),
                    Top.enclosing)
  <2>1. PlaceRight(exact, input, frames, notes, peak, m) BY <1>1 DEF FramesRight, StackRight
  <2>2. NotesAt(frames, notes, m) = Kept(notes, Top.noteCount)
        /\ PeakAt(frames, peak, m) = Top.enclosing
    BY <1>1 DEF NotesAt, PeakAt
  <2> QED BY <2>1, <2>2 DEF PlaceRight
<1>6. Len(p.tried) < Count(input, p.pos) /\ Top.rule = Turns(input, p.pos)[Len(p.tried) + 1]
  BY <1>4 DEF RunsFor
<1>7. input \in Seq(Token) /\ Top.rule \in Rule BY <1>3 DEF IInv, Frame
<1>8. p.pos \in 1..(Len(input) + 1) BY <1>5 DEF FrameRight
<1>9. Len(p.tried) + 1 \in 1..Count(input, p.pos) /\ p.pos \in 1..Len(input)
  <2> DEFINE pos == p.pos
             j == Len(p.tried) + 1
  <2>1. Count(input, pos) \in Nat /\ \A i \in 1..Count(input, pos) : pos \in 1..Len(input)
    <3>1. pos \in 1..(Len(input) + 1) BY <1>8
    <3> HIDE DEF pos
    <3> QED BY <1>7, <3>1, TokenFacts
  <2>2. Len(p.tried) \in Nat BY <1>3 DEF Frame
  <2>3. j \in 1..Count(input, pos) BY <1>6, <2>1, <2>2
  <2> HIDE DEF pos, j
  <2>4. pos \in 1..Len(input) BY <2>1, <2>3
  <2> QED BY <2>3, <2>4 DEF pos, j
<1>10. Answers(input, p.pos, ParentCtx)[Len(p.tried) + 1] = Attempted
  BY <1>3, <1>6, <1>9 DEF Answers, Attempted
<1>11. /\ Within(ParentCtx) /\ ParentCtx.depth = m /\ ParentCtx.limit = MaxDepth
       /\ ParentCtx.accepts = p.accepts /\ ParentCtx.zone = p.zone
  <2>1. m \in 0..MaxDepth /\ p.rule \in Rule /\ p.accepts \in Accepts /\ p.zone \in Zones
    BY <1>1, <1>2, <1>3, RuleEngineAssumption DEF Frame
  <2>2. ParentCtx = InContext(p, m) BY DEF ParentCtx, Parent
  <2> HIDE DEF p, m
  <2> QED BY <2>1, <2>2, InContextIs
<1>12. FirstPos(Top) = Top.start + 1 /\ Top.enclosing \in Nat BY <1>3 DEF FirstPos, Frame
<1>13. p.depth <= peak BY ParentFrame
<1>14. Kept(notes, p.noteCount) \in Seq(Note) /\ Kept(notes, Top.noteCount) \in Seq(Note)
  <2>1. p.noteCount <= Len(notes) BY <1>3
  <2> QED BY <1>3, <2>1 DEF Kept
<1>15. Parent = p BY DEF Parent
<1> HIDE DEF p
<1> QED BY <1>1, <1>2, <1>3, <1>4, <1>5, <1>6, <1>7, <1>9, <1>10, <1>11, <1>12, <1>13, <1>14, <1>15

\* The attempt answers what becomes of its body, if it has one.
LEMMA AttemptIs ==
  ASSUME IInv, NInv, NEW exact, FramesRight(exact),
         Len(frames) > 1
  PROVE  /\ RefInside(Top.rule, ParentCtx) = BodyCtx
         /\ Bodied => Attempted = RefClosed(RefBody(input, FirstPos(Top), BodyCtx),
                                            Top.rule, Top.start, ParentCtx)
         /\ ~Bodied /\ Shape[Top.rule] = "leaf" =>
               Attempted = RefOk(Top.start + 1, <<Node("leaf", Top.rule, Top.start)>>,
                                 {}, << >>, Len(frames) - 1)
         /\ ~Bodied /\ Shape[Top.rule] # "leaf" =>
               Attempted = RefErr("failed", Len(frames) - 1)
<1> DEFINE c == ParentCtx
           r == Top.rule
           d == RefInside(r, c)
<1>1. /\ Within(c) /\ c.depth = Len(frames) - 1 /\ c.limit = MaxDepth /\ r \in Rule
      /\ RunsFor(exact, input, Parent, Top, Len(frames) - 1)
      /\ FirstPos(Top) = Top.start + 1
  BY ParentRight
<1>2. /\ Within(BodyCtx) /\ BodyCtx.depth = Len(frames) - 1 /\ BodyCtx.limit = MaxDepth
      /\ BodyCtx.rule = r
  BY TopRight
<1>3. BodyCtx.accepts = d.accepts /\ BodyCtx.zone = d.zone
  BY <1>1 DEF RunsFor, BodyCtx, InContext, ParentCtx
<1>4. d = BodyCtx
  <2> HIDE DEF c, r
  <2>1. Within(d) /\ d.depth = c.depth /\ d.limit = c.limit /\ d.rule = r BY <1>1, InsideContext
  <2> HIDE DEF d
  <2>2. Alike(d, BodyCtx) /\ d.depth = BodyCtx.depth /\ d.limit = BodyCtx.limit
    BY <1>1, <1>2, <1>3, <2>1 DEF Alike
  <2> QED BY <1>2, <2>1, <2>2, SameContext
<1>5. Bodied <=> ~RefBodiless(r, c) BY DEF Bodied, ParentCtx, Parent
<1>6. Attempted = RefAttemptOf(RefBody(input, FirstPos(Top), BodyCtx), r, Top.start, c)
  BY <1>1, <1>4 DEF Attempted, RefAttempt
<1> HIDE DEF c, d, r
<1> QED BY <1>1, <1>4, <1>5, <1>6 DEF RefAttemptOf, c, d, r

LEMMA WholeLost ==
  ASSUME IInv, NInv, NEW exact, FramesRight(exact),
         NEW error, NEW top \in Nat, peak <= top, BodyLost(exact, error, top)
  PROVE  LET body == RefBody(input, FirstPos(Top), BodyCtx)
         IN  ~RefWon(body) /\ body.error = error /\ (exact => body.top <= top)
<1> DEFINE c == BodyCtx
           pos == Top.pos
           first == FirstPos(Top)
           nodes == Top.nodes
           errors == Top.errors
           before == Kept(notes, Top.noteCount)
<1>1. /\ Walked(exact, input, first, pos, c, nodes, errors, before, notes, peak)
      /\ pos \in 1..(Len(input) + 1) /\ Within(c) /\ input \in Seq(Token) /\ peak \in Nat
  BY TopRight
<1>2. /\ ~RefWon(RefBody(input, pos, c)) /\ RefBody(input, pos, c).error = error
      /\ exact => RefBody(input, pos, c).top <= top
  BY DEF BodyLost
<1> HIDE DEF c, pos, first, nodes, errors, before
<1>3. /\ ~RefWon(RefBody(input, first, c))
      /\ RefBody(input, first, c).error = RefBody(input, pos, c).error
      /\ exact => RefBody(input, first, c).top <= top
  <2> DEFINE low == peak
  <2>1. /\ Walked(exact, input, first, pos, c, nodes, errors, before, notes, low)
        /\ low \in Nat /\ low <= top
    BY <1>1
  <2> HIDE DEF low
  <2>2. Walked(exact, input, first, pos, c, nodes, errors, before, notes, top)
    BY <1>1, <2>1, WalkHigher
  <2>3. ASSUME exact PROVE RefBody(input, pos, c).top <= top BY <1>2, <2>3
  <2>4. CASE exact BY <1>1, <1>2, <2>2, <2>3, <2>4, WalkFails
  <2>5. CASE ~exact BY <1>1, <1>2, <2>2, <2>5, WalkFails
  <2> QED BY <2>4, <2>5
<1> QED BY <1>2, <1>3 DEF c, first

\* An attempt whose body fails fails with it.
LEMMA AttemptFails ==
  ASSUME IInv, NInv, NEW exact, FramesRight(exact),
         OnLimit(exact), Len(frames) > 1, Bodied,
         NEW error, NEW top \in Nat, peak <= top, BodyLost(exact, error, top)
  PROVE  AttemptLost(exact, error, top)
<1> DEFINE body == RefBody(input, FirstPos(Top), BodyCtx)
<1>1. ~RefWon(body) /\ body.error = error /\ (exact => body.top <= top) BY WholeLost
<1>2. Attempted = RefClosed(body, Top.rule, Top.start, ParentCtx) BY AttemptIs
<1>3. OnPath(exact, body.top) BY PathHolds
<1>4. Attempted = body BY <1>1, <1>2 DEF RefClosed
<1>5. error = "depth" => exact
  <2> DEFINE c == BodyCtx
             first == FirstPos(Top)
  <2>1. Within(c) /\ c.limit = MaxDepth /\ first \in 1..(Len(input) + 1) /\ input \in Seq(Token)
    BY TopRight
  <2> HIDE DEF c, first
  <2>2. Typed(RefBody(input, first, c), c, first, Len(input) + 1)
        /\ RefBody(input, first, c).top \in Nat
    BY <2>1, BodyOutcome
  <2>3. body.error = "depth" => body.top > MaxDepth BY <2>1, <2>2 DEF Typed, c, first
  <2>4. body.top \in Nat BY <2>2 DEF c, first
  <2> HIDE DEF body
  <2> QED BY <1>1, <1>3, <2>3, <2>4, RuleEngineAssumption DEF OnPath
<1> QED BY <1>1, <1>3, <1>4, <1>5 DEF AttemptLost

--------------------
(* The conditions of the steps, as those of the reference *)

LEMMA BodyGuards ==
  ASSUME IInv, NInv, NEW exact, FramesRight(exact), BodyGoesOn
  PROVE  /\ ~RefCloses(BodyCtx, Here)
         /\ RefCut(BodyCtx, Here) <=>
               AtNoteEnd \/ (Shape[Top.rule] = "span" /\ Here \in Breaks)
         /\ RefSteps(BodyCtx, Here) =>
               Here \in Breaks /\ ~Ungathered /\ Shape[Top.rule] # "span"
         /\ (Shape[Top.rule] # "span" /\ ~Ungathered /\ Here \in Breaks) =>
               ~AtNoteEnd /\ RefSteps(BodyCtx, Here)
         /\ RefRunsOut(BodyCtx, Here) <=> Here = "end" /\ ~Ungathered
         /\ Here = "end" => Here \notin Breaks /\ Here \notin NoteEnds
         /\ Top.phase = "body" /\ Top.depth = Len(frames) - 1
<1>1. /\ BodyCtx.rule = Top.rule /\ BodyCtx.zone = Top.zone /\ Top \in Frame
      /\ Top.depth = IF Top.phase = "rules" THEN Len(frames) ELSE Len(frames) - 1
  BY TopRight
<1>2. Top.rule \in Rule BY <1>1 DEF Frame
<1>3. Top.phase = "body" /\ (Top.rule # Page => Shape[Top.rule] # "leaf")
  BY DEF BodyGoesOn, BodyCloses
<1>4. ~RefCloses(BodyCtx, Here) BY <1>1, <1>2 DEF BodyGoesOn, BodyCloses, RefCloses, Here
<1>5. /\ Shape[Top.rule] \in {"page", "leaf", "span", "block", "group", "item", "note"}
      /\ Shape[Top.rule] = "page" <=> Top.rule = Page
      /\ Top.rule \in Gathered => Shape[Top.rule] \in {"block", "group", "item", "note"}
  BY <1>2, RuleEngineAssumption
<1>6. InBlock <=> Shape[Top.rule] \in {"block", "group", "item", "note"}
  BY <1>2 DEF InBlock, BlockRule
<1>7. "end" \notin Breaks /\ "end" \notin NoteEnds /\ Breaks \cap NoteEnds = {}
  BY RuleEngineAssumption DEF NoteEnds
<1>8. RefCut(BodyCtx, Here) <=> AtNoteEnd \/ (Shape[Top.rule] = "span" /\ Here \in Breaks)
  BY <1>1, <1>5, <1>6 DEF RefCut, RefBlock, AtNoteEnd
<1>9. RefSteps(BodyCtx, Here) => Here \in Breaks /\ ~Ungathered /\ Shape[Top.rule] # "span"
  BY <1>1, <1>5, <1>6 DEF RefSteps, Ungathered
<1>10. (Shape[Top.rule] # "span" /\ ~Ungathered /\ Here \in Breaks) =>
          ~AtNoteEnd /\ RefSteps(BodyCtx, Here)
  BY <1>1, <1>3, <1>5, <1>6, <1>7 DEF RefSteps, Ungathered, AtNoteEnd
<1>11. RefRunsOut(BodyCtx, Here) <=> Here = "end" /\ ~Ungathered
  BY <1>1, <1>5 DEF RefRunsOut, Ungathered, InBlock
<1> QED BY <1>1, <1>3, <1>4, <1>7, <1>8, <1>9, <1>10, <1>11

LEMMA TokenGoes ==
  ASSUME IInv, NInv, NEW exact, FramesRight(exact), AtToken PROVE Goes(input, Top.pos, BodyCtx)
<1>1. BodyGoesOn /\ ~AtNoteEnd /\ (Ungathered \/ Here \notin Breaks \cup {"end"}) BY DEF AtToken
<1>2. Ungathered => Shape[Top.rule] # "span"
  <2>1. Top.rule \in BlockRule => Shape[Top.rule] # "span" BY DEF BlockRule
  <2> QED BY <2>1 DEF Ungathered, InBlock
<1>3. /\ ~RefCloses(BodyCtx, Here) /\ ~RefCut(BodyCtx, Here) /\ ~RefSteps(BodyCtx, Here)
      /\ ~RefRunsOut(BodyCtx, Here)
  BY <1>1, <1>2, BodyGuards
<1> QED BY <1>3, HereIs DEF Goes

\* The body, as the reference has it, case by case.
LEMMA BodyHere ==
  ASSUME IInv, NInv, NEW exact, FramesRight(exact)
  PROVE  LET body == RefBody(input, Top.pos, BodyCtx)
             c    == BodyCtx
         IN  /\ RefCloses(c, Here) => body = RefOk(Top.pos + 1, << >>, {}, << >>, c.depth)
             /\ ~RefCloses(c, Here) /\ RefCut(c, Here) => body = RefErr("failed", c.depth)
             /\ ~RefCloses(c, Here) /\ ~RefCut(c, Here) /\ ~RefSteps(c, Here)
                /\ RefRunsOut(c, Here) =>
                   body = IF c.rule = Page THEN RefOk(Top.pos, << >>, {}, << >>, c.depth)
                                           ELSE RefErr("end", c.depth)
             /\ Goes(input, Top.pos, c) /\ c.depth >= c.limit =>
                   body = RefErr("depth", c.limit + 1)
<1> DEFINE c == BodyCtx
           pos == Top.pos
<1>1. Within(c) /\ pos \in 1..(Len(input) + 1) /\ input \in Seq(Token) BY TopRight
<1>2. Here = RefToken(input, pos) BY HereIs
<1> HIDE DEF c, pos
<1>3. LET body == RefBody(input, pos, c)
          tok  == RefToken(input, pos)
      IN  /\ RefCloses(c, tok) => body = RefOk(pos + 1, << >>, {}, << >>, c.depth)
          /\ ~RefCloses(c, tok) /\ RefCut(c, tok) => body = RefErr("failed", c.depth)
          /\ ~RefCloses(c, tok) /\ ~RefCut(c, tok) /\ ~RefSteps(c, tok)
             /\ RefRunsOut(c, tok) =>
                body = IF c.rule = Page THEN RefOk(pos, << >>, {}, << >>, c.depth)
                                        ELSE RefErr("end", c.depth)
          /\ Goes(input, pos, c) /\ c.depth >= c.limit =>
                body = RefErr("depth", c.limit + 1)
  BY <1>1, BodyIs
<1> QED BY <1>2, <1>3 DEF c, pos

LEMMA ErrLost ==
  ASSUME NEW exact, NEW error \in ErrorKind, NEW at, NEW top,
         RefBody(input, Top.pos, BodyCtx) = RefErr(error, at), exact => at <= top
  PROVE  BodyLost(exact, error, top)
BY ErrFields DEF BodyLost

\* A body that is cut off, or runs into the end of input.
LEMMA CutLost ==
  ASSUME IInv, NInv, NEW exact, FramesRight(exact)
  PROVE  /\ MeetBreak \/ MeetNoteEnd => BodyLost(exact, "failed", peak)
         /\ MeetEnd => BodyLost(exact, "end", peak)
<1> DEFINE c == BodyCtx
<1>1. c.depth = Len(frames) - 1 /\ c.rule = Top.rule BY TopRight
<1>2. Top.depth <= peak BY DEF IInv
<1>3. ASSUME MeetBreak \/ MeetNoteEnd PROVE BodyLost(exact, "failed", peak)
  <2>1. BodyGoesOn /\ RefCut(BodyCtx, Here) BY <1>3, BodyGuards DEF MeetBreak, MeetNoteEnd
  <2>2. RefBody(input, Top.pos, BodyCtx) = RefErr("failed", BodyCtx.depth)
    BY <2>1, BodyGuards, BodyHere
  <2>3. BodyCtx.depth <= peak BY <1>1, <1>2, <2>1, BodyGuards
  <2> QED BY <2>2, <2>3, ErrLost DEF ErrorKind
<1>4. ASSUME MeetEnd PROVE BodyLost(exact, "end", peak)
  <2>1. BodyGoesOn /\ Here = "end" /\ Top.rule # Page /\ ~Ungathered BY <1>4 DEF MeetEnd
  <2>2. /\ ~RefCloses(BodyCtx, Here) /\ ~RefCut(BodyCtx, Here) /\ ~RefSteps(BodyCtx, Here)
        /\ RefRunsOut(BodyCtx, Here)
    BY <2>1, BodyGuards DEF AtNoteEnd
  <2>3. RefBody(input, Top.pos, BodyCtx) = RefErr("end", BodyCtx.depth)
    BY <1>1, <2>1, <2>2, BodyHere
  <2>4. BodyCtx.depth <= peak BY <1>1, <1>2, <2>1, BodyGuards
  <2> QED BY <2>3, <2>4, ErrLost DEF ErrorKind
<1> QED BY <1>3, <1>4

\* depth_increment refuses.
LEMMA DepthLost ==
  ASSUME IInv, NInv, NEW exact, FramesRight(exact), TooDeep
  PROVE  BodyLost(exact, "depth", Larger(peak, MaxDepth + 1))
<1>1. AtToken /\ Top.depth = MaxDepth /\ BodyGoesOn BY DEF TooDeep, Enters, AtToken
<1>2. Goes(input, Top.pos, BodyCtx) BY <1>1, TokenGoes
<1>3. BodyCtx.depth = MaxDepth /\ BodyCtx.limit = MaxDepth BY <1>1, BodyGuards, TopRight
<1>4. RefBody(input, Top.pos, BodyCtx) = RefErr("depth", MaxDepth + 1)
  <2>1. BodyCtx.depth >= BodyCtx.limit BY <1>3, RuleEngineAssumption
  <2> QED BY <1>2, <1>3, <2>1, BodyHere
<1>5. MaxDepth + 1 <= Larger(peak, MaxDepth + 1) BY RuleEngineAssumption DEF IInv, Larger
<1> QED BY <1>4, <1>5, ErrLost DEF ErrorKind

\* consume has no rule left.
LEMMA StuckLost ==
  ASSUME IInv, NInv, NEW exact, FramesRight(exact)
  PROVE  /\ LastTooDeep => BodyLost(exact, "depth", peak) /\ exact
         /\ RunOffEnd => BodyLost(exact, "end", peak)
<1>1. /\ FrameRight(exact, input, Top, Len(frames), Kept(notes, Top.noteCount), notes, peak)
      /\ Top \in Frame /\ Len(frames) \in Nat \ {0} /\ Len(frames) <= MaxDepth + 1
      /\ peak \in Nat /\ input \in Seq(Token)
  BY TopRight
<1>2. ASSUME LastTooDeep PROVE BodyLost(exact, "depth", peak) /\ exact
  <2>1. TriedRight(exact, input, Top, Len(frames), peak)
    BY <1>1, <1>2 DEF LastTooDeep, Calling, FrameRight
  <2>2. Len(Top.tried) >= Count(input, Top.pos) /\ Top.tried # << >> /\ Last(Top.tried) = "depth"
    <3>1. Count(input, Top.pos) \in Nat /\ Len(Top.tried) \in Nat BY <1>1, <2>1, TriedHigher
    <3>2. Count(input, Top.pos) = Len(Rules(Here)) BY HereIs DEF Count, Turns
    <3> QED BY <1>2, <3>1, <3>2 DEF LastTooDeep, Untried
  <2>3. /\ ~RefWon(RefBody(input, Top.pos, InContext(Top, Len(frames) - 1)))
        /\ RefBody(input, Top.pos, InContext(Top, Len(frames) - 1)).error = "depth"
        /\ exact => RefBody(input, Top.pos, InContext(Top, Len(frames) - 1)).top <= peak
        /\ exact
    <3> DEFINE f == Top
               k == Len(frames)
               low == peak
               kind == "depth"
    <3>1. /\ TriedRight(exact, input, f, k, low) /\ f \in Frame /\ k \in Nat \ {0}
          /\ k <= MaxDepth + 1 /\ low \in Nat /\ input \in Seq(Token)
      BY <1>1, <2>1
    <3>2. Stuck(input, f, kind) BY <2>2 DEF Stuck
    <3> HIDE DEF f, k, low, kind
    <3>3. /\ ~RefWon(RefBody(input, f.pos, InContext(f, k - 1)))
          /\ RefBody(input, f.pos, InContext(f, k - 1)).error = kind
          /\ exact => RefBody(input, f.pos, InContext(f, k - 1)).top <= low
          /\ kind = "depth" => exact
      BY <3>1, <3>2, FrameStuck
    <3> QED BY <3>3 DEF f, k, low, kind
  <2> QED BY <2>3 DEF BodyLost, BodyCtx
<1>3. ASSUME RunOffEnd PROVE BodyLost(exact, "end", peak)
  <2>1. TriedRight(exact, input, Top, Len(frames), peak)
    BY <1>1, <1>3 DEF RunOffEnd, Calling, FrameRight
  <2>2. RefToken(input, Top.pos) = "end" BY <1>3, HereIs DEF RunOffEnd
  <2>3. /\ ~RefWon(RefBody(input, Top.pos, InContext(Top, Len(frames) - 1)))
        /\ RefBody(input, Top.pos, InContext(Top, Len(frames) - 1)).error = "end"
        /\ exact => RefBody(input, Top.pos, InContext(Top, Len(frames) - 1)).top <= peak
    <3> DEFINE f == Top
               k == Len(frames)
               low == peak
               kind == "end"
    <3>1. /\ TriedRight(exact, input, f, k, low) /\ f \in Frame /\ k \in Nat \ {0}
          /\ k <= MaxDepth + 1 /\ low \in Nat /\ input \in Seq(Token)
      BY <1>1, <2>1
    <3>2. Stuck(input, f, kind) BY <2>2 DEF Stuck
    <3> HIDE DEF f, k, low, kind
    <3>3. /\ ~RefWon(RefBody(input, f.pos, InContext(f, k - 1)))
          /\ RefBody(input, f.pos, InContext(f, k - 1)).error = kind
          /\ exact => RefBody(input, f.pos, InContext(f, k - 1)).top <= low
          /\ kind = "depth" => exact
      BY <3>1, <3>2, FrameStuck
    <3> QED BY <3>3 DEF f, k, low, kind
  <2> QED BY <2>3 DEF BodyLost, BodyCtx
<1> QED BY <1>2, <1>3

\* What a memo may be asked for.
LEMMA UsableMayUse ==
  ASSUME NEW memo, NEW k \in MemoKey, k.depth = {}, NEW depth \in 0..MaxDepth,
         NEW key \in Usable(memo, k, depth)
  PROVE  key \in DOMAIN memo /\ MayUse(key, memo[key].height, depth) /\ SameQuestion(key, k)
<1>1. CASE k \in DOMAIN memo /\ depth + memo[k].height <= MaxDepth
  <2>1. key = k BY <1>1 DEF Usable
  <2> QED BY <1>1, <2>1 DEF MayUse, SameQuestion
<1>2. CASE ~(k \in DOMAIN memo /\ depth + memo[k].height <= MaxDepth)
  <2>1. key = [k EXCEPT !.depth = {depth}] /\ key \in DOMAIN memo BY <1>2 DEF Usable, Pinned
  <2>2. key.depth = {depth} /\ key.rule = k.rule /\ key.pos = k.pos
        /\ key.accepts = k.accepts /\ key.zone = k.zone
    BY <2>1 DEF MemoKey
  <2> QED BY <2>1, <2>2 DEF MayUse, SameQuestion
<1> QED BY <1>1, <1>2

LEMMA WalkKeyFields ==
  ASSUME NEW f, NEW pos
  PROVE  /\ WalkKey(f, pos).rule = f.rule /\ WalkKey(f, pos).pos = pos
         /\ WalkKey(f, pos).accepts = f.accepts /\ WalkKey(f, pos).zone = f.zone
BY DEF WalkKey, Key

LEMMA KeyFields ==
  ASSUME NEW r, NEW p, NEW pos
  PROVE  /\ Key(r, p, pos).rule = r /\ Key(r, p, pos).pos = pos
         /\ Key(r, p, pos).accepts = p.accepts /\ Key(r, p, pos).zone = p.zone
BY DEF Key

\* A walk known to run to the end of input does.
LEMMA KnownLost ==
  ASSUME IInv, NInv, NEW exact, FramesRight(exact),
         WalksRight(exact, input, walks), OnLimit(exact), AtToken, NEW key \in WalkEntry
  PROVE  /\ BodyLost(exact, "end", Larger(peak, Top.depth + walks[key].height))
         /\ walks[key].height \in Nat /\ Top.depth + walks[key].height <= MaxDepth + 1
<1>1. BodyGoesOn BY DEF AtToken
<1>2. /\ Top.depth = Len(frames) - 1 /\ Within(BodyCtx) /\ BodyCtx.depth = Len(frames) - 1
      /\ BodyCtx.limit = MaxDepth /\ BodyCtx.rule = Top.rule /\ Top \in Frame
      /\ Top.pos \in 1..(Len(input) + 1) /\ input \in Seq(Token) /\ peak \in Nat
  BY <1>1, BodyGuards, TopRight
<1>3. BodyCtx.accepts = Top.accepts /\ BodyCtx.zone = Top.zone BY DEF BodyCtx, InContext
<1>4. Top.pos \in Pos /\ Top.depth \in 0..MaxDepth BY <1>2 DEF Frame
<1> DEFINE k == WalkKey(Top, Top.pos)
           e == Top.depth
<1>5. /\ k \in MemoKey /\ k.depth = {} /\ k.rule = Top.rule /\ k.pos = Top.pos
      /\ k.accepts = Top.accepts /\ k.zone = Top.zone
  BY <1>4, WalkKeyType, WalkKeyFields
<1>6. key \in Usable(walks, k, e) /\ e \in 0..MaxDepth BY <1>4 DEF WalkEntry
<1> HIDE DEF k, e
<1>7. /\ key \in DOMAIN walks /\ MayUse(key, walks[key].height, e)
      /\ key.rule = k.rule /\ key.pos = k.pos /\ key.accepts = k.accepts /\ key.zone = k.zone
  <2> DEFINE memo == walks
  <2>1. key \in Usable(memo, k, e) BY <1>6
  <2> HIDE DEF memo
  <2>2. key \in DOMAIN memo /\ MayUse(key, memo[key].height, e) /\ SameQuestion(key, k)
    BY <1>5, <1>6, <2>1, UsableMayUse
  <2> QED BY <2>2 DEF memo, SameQuestion
<1>8. /\ key \in MemoKey /\ walks[key] \in WalkEntries /\ WalkRight(exact, input, key, walks[key])
      /\ walks[key].height \in Nat
  BY <1>7 DEF IInv, MemosOK, Memo, WalksRight, WalkEntries
<1>9. Lookup(key, BodyCtx, e) BY <1>2, <1>3, <1>5, <1>7 DEF Lookup, e
<1>10. OnPath(exact, RefBody(input, key.pos, BodyCtx).top)
  <2>1. key.pos = Top.pos BY <1>5, <1>7
  <2>2. OnPath(exact, RefBody(input, Top.pos, BodyCtx).top) BY <1>1, TopBodied, PathHolds
  <2> QED BY <2>1, <2>2
<1> DEFINE entry == walks[key]
           c == BodyCtx
<1>11. LET p == RefBody(input, key.pos, c)
       IN  /\ ~RefWon(p) /\ p.error = "end"
           /\ exact => p.top <= e + entry.height
  <2>1. /\ key \in MemoKey /\ entry \in WalkEntries /\ WalkRight(exact, input, key, entry)
        /\ MayUse(key, entry.height, e) /\ Lookup(key, c, e) /\ c.rule = key.rule
        /\ OnPath(exact, RefBody(input, key.pos, c).top) /\ input \in Seq(Token)
    BY <1>2, <1>5, <1>7, <1>8, <1>9, <1>10
  <2> HIDE DEF entry, c
  <2> QED BY <2>1, UseWalk
<1>12. e + entry.height <= Larger(peak, e + entry.height)
       /\ Larger(peak, e + entry.height) \in Nat
  <2>1. e + entry.height \in Nat BY <1>6, <1>8, RuleEngineAssumption
  <2> QED BY <1>2, <2>1, LargerType
<1>13. RefBody(input, key.pos, c).top \in Nat BY <1>2, <1>5, <1>7, BodyOutcome
<1>14. BodyLost(exact, "end", Larger(peak, e + entry.height))
  <2>1. key.pos = Top.pos BY <1>5, <1>7
  <2>2. ASSUME exact PROVE RefBody(input, key.pos, c).top <= Larger(peak, e + entry.height)
    <3> DEFINE t == RefBody(input, key.pos, c).top
               s == e + entry.height
               u == Larger(peak, e + entry.height)
    <3>1. t <= s /\ s <= u /\ t \in Nat /\ s \in Nat /\ u \in Nat
      BY <1>6, <1>8, <1>11, <1>12, <1>13, <2>2
    <3> HIDE DEF t, s, u
    <3>2. t <= u BY <3>1
    <3> QED BY <3>2 DEF t, u
  <2> QED BY <1>11, <2>1, <2>2 DEF BodyLost
<1>15. e + walks[key].height <= MaxDepth + 1
  <2>1. Memo(walks, WalkEntries) /\ Fits(walks) BY DEF IInv, MemosOK
  <2> QED BY <1>5, <1>6, <1>8, <2>1, UsableFits
<1> QED BY <1>8, <1>14, <1>15 DEF e

--------------------
(* The steps, against the reference *)

\* A step of a page that is still parsed.
LEMMA EngineArrives ==
  ASSUME NEW exact, input' = input, page' = "parsing",
         NEW fs, NEW ns, NEW up, StackRight(exact, input, fs, ns, up),
         frames' = fs, notes' = ns, peak' = up,
         FailuresRight(exact, input, failures'), SuccessesRight(exact, input, successes'),
         WalksRight(exact, input, walks'), RefusalsRight(rejections'),
         BlocksRight(exact, blockFailures')
  PROVE  EngineRight(exact)'
<1>1. FramesRight(exact)' BY DEF FramesRight, StackRight, PlaceRight, NotesAt, PeakAt
<1>2. MemosRight(exact)' BY DEF MemosRight, FailuresRight, SuccessesRight, WalksRight
<1>3. PageRight(exact)' BY DEF PageRight
<1> QED BY <1>1, <1>2, <1>3 DEF EngineRight

\* Below the page it is not done.
LEMMA StillParsing ==
  ASSUME NEW exact, EngineRight(exact), IInv, Len(frames) > 1 PROVE page = "parsing"
<1>1. page # "parsing" => Len(frames) = 1 BY Zenon DEF EngineRight, PageRight
<1> QED BY <1>1, TopFrame

LEMMA KeptOfKept ==
  ASSUME NEW ns \in Seq(Note), NEW m \in 0..Len(ns)
  PROVE  /\ Kept(ns, m) \in Seq(Note) /\ Len(Kept(ns, m)) = m
         /\ \A i \in 0..m : Kept(Kept(ns, m), i) = Kept(ns, i)
BY DEF Kept

\* What a rule makes of a token, as the memos ask for it.
LEMMA AttemptedByKey ==
  ASSUME IInv, NInv, NEW exact, FramesRight(exact),
         Len(frames) > 1
  PROVE  LET key == Key(Top.rule, Parent, Parent.pos)
         IN  /\ key \in MemoKey /\ key.depth = {} /\ key.pos = Top.start
             /\ key.pos \in 1..Len(input)
             /\ Parent.depth \in 0..MaxDepth
             /\ AttemptAt(input, key, Parent.depth) = Attempted
<1> DEFINE key == Key(Top.rule, Parent, Parent.pos)
           r == Top.rule
           d == Parent.depth
           e == KeyCtx(key, d)
           c == ParentCtx
<1>1. /\ Parent \in Frame /\ Top.rule \in Rule /\ Top.start = Parent.pos
      /\ Top.start \in 1..Len(input) /\ d = Len(frames) - 1 /\ Within(c)
      /\ c.depth = d /\ c.limit = MaxDepth /\ c.accepts = Parent.accepts
      /\ c.zone = Parent.zone
  BY ParentRight
<1>2. Parent.pos \in Pos /\ d \in 0..MaxDepth BY <1>1 DEF Frame
<1>3. key \in MemoKey /\ key.depth = {} BY <1>1, <1>2, KeyType
<1>4. /\ key.rule = r /\ key.pos = Parent.pos /\ key.accepts = Parent.accepts
      /\ key.zone = Parent.zone
  BY KeyFields
<1>5. Within(e) /\ e.depth = d /\ e.limit = MaxDepth /\ e.accepts = key.accepts /\ e.zone = key.zone
  BY <1>2, <1>3, KeyContexts DEF Lookup
<1>6. RefAttempt(input, r, Top.start, c) = RefAttempt(input, r, Top.start, e)
  <2> DEFINE pos == Top.start
  <2>1. /\ r \in Rule /\ Within(c) /\ Within(e) /\ c.depth = e.depth /\ c.limit = e.limit
        /\ c.accepts = e.accepts /\ c.zone = e.zone
    BY <1>1, <1>4, <1>5
  <2> HIDE DEF key, r, d, e, c, pos
  <2>2. RefAttempt(input, r, pos, c) = RefAttempt(input, r, pos, e) BY <2>1, RuleAnywhere
  <2> QED BY <2>2 DEF pos
<1>7. AttemptAt(input, key, d) = RefAttempt(input, key.rule, key.pos, e) BY DEF AttemptAt
<1>8. AttemptAt(input, key, d) = Attempted BY <1>1, <1>4, <1>6, <1>7 DEF Attempted
<1> HIDE DEF key
<1> QED BY <1>1, <1>2, <1>3, <1>4, <1>8 DEF key

LEMMA AttemptedTyped ==
  ASSUME IInv, NInv, NEW exact, FramesRight(exact),
         Len(frames) > 1
  PROVE  /\ Attempted \in RefOutcome /\ Attempted.top \in Nat
         /\ Attempted.error = "depth" \/ "depth" \in Attempted.errors =>
               Attempted.top > MaxDepth
<1> DEFINE c == ParentCtx
           r == Top.rule
           pos == Top.start
<1>1. /\ Within(c) /\ c.limit = MaxDepth /\ r \in Rule /\ pos \in 1..Len(input)
      /\ input \in Seq(Token)
  BY ParentRight DEF IInv
<1> HIDE DEF c, r, pos
<1>2. Typed(RefAttempt(input, r, pos, c), c, pos + 1, Len(input) + 1) BY <1>1, RuleTyped
<1>3. /\ RefAttempt(input, r, pos, c) \in RefOutcome
      /\ RefAttempt(input, r, pos, c).top \in Nat
  BY <1>2 DEF Typed, RefOutcome
<1> QED BY <1>1, <1>2, <1>3 DEF Typed, Attempted, c, r, pos

\* The innermost parser gives up, and its parent has tried one rule more.
LEMMA FailedStack ==
  ASSUME IInv, NInv, NEW exact, FramesRight(exact),
         Len(frames) > 1, NEW error \in ErrorKind, NEW top \in Nat,
         AttemptLost(exact, error, top)
  PROVE  StackRight(exact, input, Returned(Failed(Parent, error)),
                    Kept(notes, Top.noteCount), Larger(top, Top.enclosing))
<1>2. /\ Len(frames) - 1 \in Nat \ {0} /\ Len(frames) - 1 <= MaxDepth
      /\ Parent \in Frame /\ Parent.phase = "rules" /\ Parent.depth = Len(frames) - 1
      /\ Len(Parent.tried) < Count(input, Parent.pos)
      /\ Answers(input, Parent.pos, ParentCtx)[Len(Parent.tried) + 1] = Attempted
      /\ FrameRight(exact, input, Parent, Len(frames) - 1,
                    Kept(notes, Parent.noteCount), Kept(notes, Top.noteCount),
                    Top.enclosing)
      /\ Top.enclosing \in Nat /\ Parent.depth <= peak
  BY ParentRight
<1>3. /\ ~RefWon(Attempted) /\ Attempted.error = error /\ OnPath(exact, Attempted.top)
      /\ exact => Attempted.top <= top
      /\ error = "depth" => exact
  BY DEF AttemptLost
<1> DEFINE up == Larger(top, Top.enclosing)
           g == Failed(Parent, error)
           ms == Kept(notes, Top.noteCount)
<1>4. up \in Nat /\ top <= up /\ Top.enclosing <= up BY <1>2, LargerType
<1>5. /\ notes \in Seq(Note) /\ Top.noteCount \in 0..Len(notes) /\ Len(notes) \in Nat
      /\ Parent.noteCount \in 0..Top.noteCount
  <2>1. Len(frames) - 1 \in 1..Len(frames) BY FrameCounts
  <2> QED BY <2>1, FrameCounts DEF Parent
<1>6. /\ ms \in Seq(Note) /\ \A i \in 0..Top.noteCount : Kept(ms, i) = Kept(notes, i)
  BY <1>5, KeptOfKept
<1>7. g.noteCount = Parent.noteCount /\ g \in Frame /\ Keeps(g, Parent)
  <2>1. g \in Frame BY <1>2, FailedFrame
  <2> QED BY <1>2, <2>1 DEF Failed, Keeps, Resumes, Frame
<1>8. LostRight(exact, Attempted, error, up)
  <2>1. ASSUME exact PROVE Attempted.top <= up
    <3>1. Attempted.top <= top /\ top <= up BY <1>3, <1>4, <2>1
    <3>2. Attempted.top \in Nat BY AttemptedTyped
    <3> QED BY <1>4, <3>1, <3>2
  <2> QED BY <1>3, <2>1 DEF LostRight
<1>9. FrameRight(exact, input, g, Len(frames) - 1, Kept(notes, Parent.noteCount), ms, up)
  <2> DEFINE p == Parent
             k == Len(frames) - 1
             before == Kept(notes, Parent.noteCount)
             low == Top.enclosing
  <2>1. /\ p \in Frame /\ k \in Nat \ {0} /\ k <= MaxDepth + 1 /\ low \in Nat /\ up \in Nat
        /\ low <= up /\ FrameRight(exact, input, p, k, before, ms, low) /\ p.phase = "rules"
        /\ Len(p.tried) < Count(input, p.pos)
        /\ LostRight(exact, Answers(input, p.pos, InContext(p, k))[Len(p.tried) + 1], error, up)
        /\ input \in Seq(Token)
    BY <1>2, <1>4, <1>8, RuleEngineAssumption DEF ParentCtx, IInv
  <2> HIDE DEF p, k, before, low, up, ms
  <2>2. FrameRight(exact, input, Failed(p, error), k, before, ms, up) BY <2>1, FrameTries
  <2> QED BY <2>2 DEF p, k, before
<1>10. Kept(ms, g.noteCount) = Kept(notes, Parent.noteCount) BY <1>5, <1>6, <1>7
<1>11. StackRight(exact, input, Returned(g), ms, up)
  <2>1. /\ g \in Frame /\ Keeps(g, frames[Len(frames) - 1])
        /\ FrameRight(exact, input, g, Len(frames) - 1, Kept(ms, g.noteCount), ms, up)
    BY <1>7, <1>9, <1>10 DEF Parent
  <2> HIDE DEF g, ms, up
  <2> QED BY <1>6, <2>1, ReturnedRight
<1> QED BY <1>11

\* The innermost attempt fails: f is the innermost parser, possibly moved on.
LEMMA FailRight ==
  ASSUME IInv, NInv, NEW exact, EngineRight(exact), Len(frames) > 1, input' = input,
         NEW f, f.rule = Top.rule, f.start = Top.start, f.noteCount = Top.noteCount,
         f.enclosing = Top.enclosing,
         NEW error \in ErrorKind, NEW top \in Nat, peak <= top,
         Fail(f, error, top), AttemptLost(exact, error, top),
         WalksRight(exact, input, walks')
  PROVE  EngineRight(exact)'
<1>1. /\ FramesRight(exact) /\ MemosRight(exact)
      /\ page = "parsing"
  BY StillParsing DEF EngineRight
<1>2. Parent.depth = Len(frames) - 1 /\ Parent.depth <= peak BY <1>1, ParentRight
<1>3. /\ ~RefWon(Attempted) /\ Attempted.error = error /\ OnPath(exact, Attempted.top)
      /\ exact => Attempted.top <= top
      /\ error = "depth" => exact
  BY DEF AttemptLost
<1> DEFINE up == Larger(top, Top.enclosing)
           g == Failed(Parent, error)
           ms == Kept(notes, Top.noteCount)
           key == Key(Top.rule, Parent, Parent.pos)
<1>11. StackRight(exact, input, Returned(g), ms, up) BY <1>1, FailedStack
<1>12. FailuresRight(exact, input, failures')
  <2> DEFINE height == top - Parent.depth
             entry == [height |-> height, error |-> error]
             d == Parent.depth
             memo == failures
             o == AttemptAt(input, key, d)
  <2>1. /\ key \in MemoKey /\ key.depth = {} /\ key.pos \in 1..Len(input) /\ d \in 0..MaxDepth
        /\ o = Attempted
    BY <1>1, AttemptedByKey
  <2>2. height \in Nat /\ d + height = top BY <1>2, <2>1 DEF IInv
  <2>3. failures' = failures \/ failures' = Remember(memo, key, d, entry) BY DEF Fail, Parent
  <2>4. /\ entry.height \in Nat /\ ~RefWon(o) /\ o.error = entry.error /\ OnPath(exact, o.top)
        /\ exact => o.top <= d + entry.height
    BY <1>3, <2>1, <2>2
  <2>5. FailuresRight(exact, input, memo) BY <1>1 DEF MemosRight
  <2> HIDE DEF key, entry, d, memo
  <2>6. FailuresRight(exact, input, Remember(memo, key, d, entry))
    BY <2>1, <2>4, <2>5, RememberFailure
  <2> QED BY <2>3, <2>5, <2>6 DEF memo
<1>13. BlocksRight(exact, blockFailures')
  <2>1. BlocksRight(exact, blockFailures) /\ blockFailures' = BlockFailures(f, error, Parent.depth)
    BY <1>1 DEF Fail, Parent, MemosRight
  <2> QED BY <1>3, <2>1 DEF BlocksRight, BlockFailures
<1>14. /\ SuccessesRight(exact, input, successes') /\ RefusalsRight(rejections')
       /\ page' = "parsing"
  BY <1>1 DEF Fail, MemosRight
<1>15. frames' = Returned(g) /\ notes' = ms /\ peak' = up BY DEF Fail, Parent, Restored, Kept
<1> HIDE DEF g, ms, up
<1> QED BY <1>11, <1>12, <1>13, <1>14, <1>15, EngineArrives

\* The body of the innermost parser, from a token that its walk has passed.
LEMMA PassedLost ==
  ASSUME IInv, NInv, NEW exact, FramesRight(exact),
         OnLimit(exact), Bodied, NEW top \in Nat, peak <= top, BodyLost(exact, "end", top),
         NEW pos \in Top.visited
  PROVE  /\ pos \in 1..(Len(input) + 1)
         /\ ~RefWon(RefBody(input, pos, BodyCtx)) /\ RefBody(input, pos, BodyCtx).error = "end"
         /\ OnPath(exact, RefBody(input, pos, BodyCtx).top)
         /\ exact => RefBody(input, pos, BodyCtx).top <= top
<1> DEFINE c == BodyCtx
           first == FirstPos(Top)
           whole == RefBody(input, first, c)
           part == RefBody(input, pos, c)
<1>1. /\ Within(c) /\ first \in 1..(Len(input) + 1) /\ input \in Seq(Token)
      /\ Passed(input, first, pos, c)
  BY TopRight
<1>2. ~RefWon(whole) /\ whole.error = "end" /\ (exact => whole.top <= top) BY WholeLost
<1>3. OnPath(exact, whole.top) BY PathHolds
<1> HIDE DEF c, first
<1>4. /\ pos \in 1..(Len(input) + 1) /\ part.top <= whole.top /\ part.error = whole.error
      /\ RefWon(part) <=> RefWon(whole)
  BY <1>1, PassedBelow
<1>5. part.top \in Nat /\ whole.top \in Nat BY <1>1, <1>4, BodyOutcome
<1> HIDE DEF whole, part
<1>6. OnPath(exact, part.top) BY <1>3, <1>4, <1>5, RuleEngineAssumption DEF OnPath
<1>7. exact => part.top <= top BY <1>2, <1>4, <1>5
<1> QED BY <1>2, <1>4, <1>6, <1>7 DEF part, c

LEMMA RememberWalkRight ==
  ASSUME IInv, NInv, NEW exact, FramesRight(exact),
         OnLimit(exact), Bodied, Top.phase = "body", WalksRight(exact, input, walks),
         NEW top \in Nat, peak <= top, BodyLost(exact, "end", top)
  PROVE  WalksRight(exact, input, RememberWalk(Top, top))
<1> DEFINE d == Top.depth
           height == top - d
           entry == [height |-> height]
           keys == {Stored(WalkKey(Top, pos), d, height) : pos \in Top.visited}
           memo == walks
<1>1. /\ Top \in Frame /\ d = Len(frames) - 1 /\ d <= peak /\ peak \in Nat
      /\ input \in Seq(Token)
  BY TopRight DEF IInv
<1>2. d \in 0..MaxDepth /\ Top.visited \subseteq Pos BY <1>1 DEF Frame
<1>3. height \in Nat /\ d + height = top
  <2>1. d \in Nat /\ d <= top BY <1>1, <1>2
  <2> HIDE DEF d
  <2> QED BY <2>1
<1> HIDE DEF height
<1>4. ASSUME NEW pos \in Top.visited
      PROVE  WalkRight(exact, input, Stored(WalkKey(Top, pos), d, height), entry)
  <2> DEFINE k == WalkKey(Top, pos)
             key == Stored(k, d, height)
             o == RefBody(input, pos, BodyCtx)
  <2>1. /\ pos \in 1..(Len(input) + 1) /\ ~RefWon(o) /\ o.error = "end"
        /\ OnPath(exact, o.top) /\ (exact => o.top <= top)
    BY PassedLost
  <2>2. k \in MemoKey /\ k.depth = {} BY <1>2, WalkKeyType
  <2>3. k.rule = Top.rule /\ k.pos = pos /\ k.accepts = Top.accepts /\ k.zone = Top.zone
    BY WalkKeyFields
  <2> HIDE DEF k
  <2>4. /\ MayUse(key, height, d) /\ key.rule = k.rule /\ key.pos = k.pos
        /\ key.accepts = k.accepts /\ key.zone = k.zone
    BY <1>2, <1>3, <2>2, StoredMayUse
  <2>5. InContext(key, d) = BodyCtx BY <1>1, <2>3, <2>4 DEF InContext, BodyCtx
  <2>6. BodyAt(input, key, d) = o BY <2>3, <2>4, <2>5 DEF BodyAt
  <2> HIDE DEF key, o
  <2>7. Recorded(exact, key, height, d, o.top) BY <1>3, <2>1, <2>4 DEF Recorded
  <2>8. WalkRight(exact, input, key, entry)
    <3>1. key.pos \in 1..(Len(input) + 1) /\ entry.height = height BY <2>1, <2>3, <2>4
    <3> QED BY <1>2, <2>1, <2>6, <2>7, <3>1 DEF WalkRight
  <2> QED BY <2>8 DEF key, k
<1>5. \A key \in keys : WalkRight(exact, input, key, entry) BY <1>4
<1>6. RememberWalk(Top, top) = With(memo, keys, entry) BY DEF RememberWalk, height
<1>7. WalksRight(exact, input, memo) OBVIOUS
<1> HIDE DEF keys, entry, memo
<1>8. WalksRight(exact, input, With(memo, keys, entry)) BY <1>5, <1>7, WithWalks
<1> QED BY <1>6, <1>8

\* A note in a note, as the reference has it.
LEMMA NestedLost ==
  ASSUME IInv, NInv, NEW exact, FramesRight(exact), OnLimit(exact),
         Len(frames) > 1, Nested(Top)
  PROVE  AttemptLost(exact, "failed", peak)
<1>1. /\ ParentCtx.zone = Parent.zone /\ Parent.zone = "note" /\ Shape[Top.rule] = "note"
      /\ Len(frames) - 1 \in Nat /\ Parent.depth = Len(frames) - 1 /\ Parent.depth <= peak
      /\ Len(frames) - 1 <= MaxDepth
  BY ParentRight DEF Nested, Parent
<1>2. ~Bodied BY <1>1 DEF Bodied, RefBodiless, ParentCtx, Parent
<1>3. Attempted = RefErr("failed", Len(frames) - 1) BY <1>1, <1>2, AttemptIs
<1> DEFINE m == Len(frames) - 1
<1>4. /\ Attempted.error = "failed" /\ ~RefWon(Attempted) /\ Attempted.top = m
  BY <1>3, ErrFields DEF ErrorKind
<1>5. OnPath(exact, m) BY <1>1 DEF OnPath
<1>6. m <= peak BY <1>1
<1> HIDE DEF m
<1> QED BY <1>4, <1>5, <1>6 DEF AttemptLost

\* The innermost attempt fails because its body does.
LEMMA BodyFailRight ==
  ASSUME IInv, NInv, NEW exact, EngineRight(exact), OnLimit(exact), input' = input, Bodied,
         NEW f, f.rule = Top.rule, f.start = Top.start, f.noteCount = Top.noteCount,
         f.enclosing = Top.enclosing,
         NEW error \in ErrorKind, NEW top \in Nat, peak <= top,
         Fail(f, error, top), BodyLost(exact, error, top),
         \/ walks' = walks
         \/ Top.phase = "body" /\ error = "end" /\ walks' = RememberWalk(Top, top)
  PROVE  EngineRight(exact)'
<1>1. /\ FramesRight(exact) /\ WalksRight(exact, input, walks)
      /\ Len(frames) > 1
  BY DEF EngineRight, MemosRight, Fail
<1>2. AttemptLost(exact, error, top) BY <1>1, AttemptFails
<1>3. WalksRight(exact, input, walks')
  <2>1. CASE walks' = walks BY <1>1, <2>1
  <2>2. CASE Top.phase = "body" /\ error = "end" /\ walks' = RememberWalk(Top, top)
    <3>1. BodyLost(exact, "end", top) BY <2>2
    <3>2. WalksRight(exact, input, RememberWalk(Top, top)) BY <1>1, <2>2, <3>1, RememberWalkRight
    <3> QED BY <2>2, <3>2
  <2> QED BY <2>1, <2>2
<1> QED BY <1>1, <1>2, <1>3, FailRight

\* The same, where no walk is remembered.
LEMMA BodyFailsHere ==
  ASSUME IInv, NInv, NEW exact, EngineRight(exact), OnLimit(exact), input' = input, Bodied,
         NEW error \in ErrorKind, BodyLost(exact, error, peak), walks' = walks,
         \/ Fail(Top, error, peak)
         \/ Fail([Top EXCEPT !.pos = @ + 1], error, peak)
  PROVE  EngineRight(exact)'
<1>1. Top \in Frame /\ peak \in Nat BY TopFrame DEF IInv
<1>2. CASE Fail(Top, error, peak)
  <2> DEFINE f == Top
             top == peak
  <2>1. /\ f.rule = Top.rule /\ f.start = Top.start /\ f.noteCount = Top.noteCount
        /\ f.enclosing = Top.enclosing /\ top \in Nat /\ peak <= top
        /\ Fail(f, error, top) /\ BodyLost(exact, error, top)
    BY <1>1, <1>2
  <2> HIDE DEF f, top
  <2> QED BY <2>1, BodyFailRight
<1>3. CASE Fail([Top EXCEPT !.pos = @ + 1], error, peak)
  <2> DEFINE f == [Top EXCEPT !.pos = @ + 1]
             top == peak
  <2>1. /\ f.rule = Top.rule /\ f.start = Top.start /\ f.noteCount = Top.noteCount
        /\ f.enclosing = Top.enclosing /\ top \in Nat /\ peak <= top
        /\ Fail(f, error, top) /\ BodyLost(exact, error, top)
    BY <1>1, <1>3 DEF Frame
  <2> HIDE DEF f, top
  <2> QED BY <2>1, BodyFailRight
<1> QED BY <1>2, <1>3

LEMMA RefuseNestedRight ==
  ASSUME IInv, NInv, NEW exact, EngineRight(exact), OnLimit(exact), RefuseNested
  PROVE  EngineRight(exact)'
<1>1. /\ FramesRight(exact) /\ WalksRight(exact, input, walks)
      /\ Len(frames) > 1 /\ Nested(Top) /\ input' = input /\ walks' = walks
      /\ Fail(Top, "failed", peak)
  BY DEF EngineRight, MemosRight, RefuseNested
<1>2. AttemptLost(exact, "failed", peak) BY <1>1, NestedLost
<1> DEFINE f == Top
           top == peak
           error == "failed"
<1>3. /\ f.rule = Top.rule /\ f.start = Top.start /\ f.noteCount = Top.noteCount
      /\ f.enclosing = Top.enclosing /\ top \in Nat /\ peak <= top
      /\ error \in ErrorKind /\ Fail(f, error, top) /\ AttemptLost(exact, error, top)
      /\ WalksRight(exact, input, walks')
  BY <1>1, <1>2 DEF ErrorKind, IInv
<1> HIDE DEF f, top, error
<1> QED BY <1>1, <1>3, FailRight

LEMMA CutRight ==
  ASSUME IInv, NInv, NEW exact, EngineRight(exact), OnLimit(exact), MeetBreak \/ MeetNoteEnd
  PROVE  EngineRight(exact)'
<1>1. /\ FramesRight(exact) /\ BodyGoesOn /\ input' = input
      /\ walks' = walks /\ Fail(Top, "failed", peak)
  BY DEF EngineRight, MeetBreak, MeetNoteEnd
<1>2. Bodied /\ BodyLost(exact, "failed", peak) BY <1>1, TopBodied, CutLost
<1> QED BY <1>1, <1>2, BodyFailsHere DEF ErrorKind

LEMMA MeetEndRight ==
  ASSUME IInv, NInv, NEW exact, EngineRight(exact), OnLimit(exact), MeetEnd
  PROVE  EngineRight(exact)'
<1>1. /\ FramesRight(exact) /\ BodyGoesOn /\ input' = input
      /\ walks' = RememberWalk(Top, peak) /\ Fail(Top, "end", peak)
      /\ Top.phase = "body"
  BY DEF EngineRight, MeetEnd, BodyGoesOn
<1>2. Bodied /\ BodyLost(exact, "end", peak) BY <1>1, TopBodied, CutLost
<1> DEFINE f == Top
           top == peak
           error == "end"
<1>3. /\ f.rule = Top.rule /\ f.start = Top.start /\ f.noteCount = Top.noteCount
      /\ f.enclosing = Top.enclosing /\ top \in Nat /\ peak <= top
      /\ error \in ErrorKind /\ Fail(f, error, top) /\ BodyLost(exact, error, top)
      /\ Top.phase = "body" /\ error = "end" /\ walks' = RememberWalk(Top, top)
  BY <1>1, <1>2 DEF ErrorKind, IInv
<1> HIDE DEF f, top, error
<1> QED BY <1>1, <1>2, <1>3, BodyFailRight

LEMMA KnownWalkRight ==
  ASSUME IInv, NInv, NEW exact, EngineRight(exact), OnLimit(exact), KnownWalk
  PROVE  EngineRight(exact)'
<1>1. /\ FramesRight(exact) /\ AtToken /\ BodyGoesOn
      /\ input' = input /\ WalksRight(exact, input, walks) /\ Top.phase = "body"
      /\ Top \in Frame /\ peak \in Nat
  BY TopFrame DEF EngineRight, MemosRight, KnownWalk, AtToken, BodyGoesOn, IInv
<1>2. PICK key \in WalkEntry :
        /\ walks' = RememberWalk(Top, Larger(peak, Top.depth + walks[key].height))
        /\ Fail([Top EXCEPT !.pos = Len(input) + 1], "end",
                Larger(peak, Top.depth + walks[key].height))
  BY DEF KnownWalk
<1> DEFINE f == [Top EXCEPT !.pos = Len(input) + 1]
           top == Larger(peak, Top.depth + walks[key].height)
           error == "end"
<1>3. BodyLost(exact, "end", top) /\ walks[key].height \in Nat BY <1>1, KnownLost
<1>4. Top.depth \in Nat BY <1>1, RuleEngineAssumption DEF Frame
<1>5. top \in Nat /\ peak <= top
  <2> DEFINE b == Top.depth + walks[key].height
  <2>1. b \in Nat BY <1>3, <1>4
  <2> HIDE DEF b
  <2>2. Larger(peak, b) \in Nat /\ Larger(peak, b) >= peak BY <1>1, <2>1, LargerType
  <2> QED BY <1>1, <2>2 DEF b
<1>6. /\ f.rule = Top.rule /\ f.start = Top.start /\ f.noteCount = Top.noteCount
      /\ f.enclosing = Top.enclosing
      /\ error \in ErrorKind /\ Fail(f, error, top) /\ BodyLost(exact, error, top)
      /\ Top.phase = "body" /\ error = "end" /\ walks' = RememberWalk(Top, top)
  BY <1>1, <1>2, <1>3 DEF ErrorKind, Frame
<1>7. Bodied BY <1>1, TopBodied
<1> HIDE DEF f, top, error
<1> QED BY <1>1, <1>5, <1>6, <1>7, BodyFailRight

LEMMA TooDeepRight ==
  ASSUME IInv, NInv, NEW exact, EngineRight(exact), OnLimit(exact), TooDeep
  PROVE  EngineRight(exact)'
<1>1. /\ FramesRight(exact) /\ BodyGoesOn
      /\ input' = input /\ walks' = walks /\ Fail(Top, "depth", Larger(peak, MaxDepth + 1))
      /\ Top \in Frame /\ peak \in Nat
  BY TopFrame DEF EngineRight, TooDeep, Enters, AtToken, IInv
<1> DEFINE f == Top
           top == Larger(peak, MaxDepth + 1)
           error == "depth"
<1>2. Bodied /\ BodyLost(exact, error, top) BY <1>1, TopBodied, DepthLost
<1>3. top \in Nat /\ peak <= top BY <1>1, LargerType, RuleEngineAssumption
<1>4. /\ f.rule = Top.rule /\ f.start = Top.start /\ f.noteCount = Top.noteCount
      /\ f.enclosing = Top.enclosing /\ error \in ErrorKind /\ Fail(f, error, top)
  BY <1>1 DEF ErrorKind
<1> HIDE DEF f, top, error
<1> QED BY <1>1, <1>2, <1>3, <1>4, BodyFailRight

LEMMA StuckRight ==
  ASSUME IInv, NInv, NEW exact, EngineRight(exact), OnLimit(exact),
         FallbackTooDeep \/ RunOffEnd
  PROVE  EngineRight(exact)'
<1>1. FramesRight(exact) BY DEF EngineRight
<1>2. Bodied /\ input' = input /\ walks' = walks
  BY <1>1, TopBodied DEF FallbackTooDeep, LastTooDeep, RunOffEnd, Calling
<1>3. CASE FallbackTooDeep
  <2>1. Fail([Top EXCEPT !.pos = @ + 1], "depth", peak) /\ LastTooDeep BY <1>3 DEF FallbackTooDeep
  <2>2. BodyLost(exact, "depth", peak) BY <1>1, <2>1, StuckLost
  <2> QED BY <1>2, <2>1, <2>2, BodyFailsHere DEF ErrorKind
<1>4. CASE RunOffEnd
  <2>1. Fail(Top, "end", peak) BY <1>4 DEF RunOffEnd
  <2>2. BodyLost(exact, "end", peak) BY <1>1, <1>4, StuckLost
  <2> QED BY <1>2, <2>1, <2>2, BodyFailsHere DEF ErrorKind
<1> QED BY <1>3, <1>4

\* A body with nothing left to gather.
LEMMA FollowEnd ==
  ASSUME NEW to \in Nat, NEW at, NEW nodes \in Nodes, NEW errs \in SUBSET ErrorKind,
         NEW own \in Seq(Note), NEW t \in Nat, NEW d \in Nat, d <= t
  PROVE  RefFollow(RefOk(to, nodes, errs, own, t), RefOk(at, << >>, {}, << >>, d)) =
            RefOk(at, nodes, errs, own, t)
<1>1. RefWon(RefOk(at, << >>, {}, << >>, d)) BY OkFields
<1>2. nodes \o << >> = nodes /\ own \o << >> = own /\ errs \cup {} = errs BY DEF Nodes
<1>3. Larger(t, d) = t BY DEF Larger
<1> QED BY <1>1, <1>2, <1>3 DEF RefFollow, RefOk

\* The body whose closer has come up is what has been gathered.
LEMMA WholeWon ==
  ASSUME IInv, NInv, NEW exact, FramesRight(exact),
         NEW to, RefBody(input, Top.pos, BodyCtx) = RefOk(to, << >>, {}, << >>, BodyCtx.depth)
  PROVE  \E errs \in SUBSET ErrorKind, own \in Seq(Note), t \in Nat :
            /\ RefBody(input, FirstPos(Top), BodyCtx) = RefOk(to, Top.nodes, errs, own, t)
            /\ notes = Kept(notes, Top.noteCount) \o own
            /\ exact => errs = Top.errors /\ t <= peak
<1> DEFINE c == BodyCtx
           first == FirstPos(Top)
<1>1. /\ Walked(exact, input, first, Top.pos, c, Top.nodes, Top.errors,
                Kept(notes, Top.noteCount), notes, peak)
      /\ Within(c) /\ Top \in Frame
  BY TopRight
<1>2. c.depth \in Nat BY <1>1 DEF Within, RefContexts
<1>3. PICK errs \in SUBSET ErrorKind, own \in Seq(Note), t \in Nat :
        /\ RefBody(input, first, c) =
              RefFollow(RefOk(Top.pos, Top.nodes, errs, own, t), RefBody(input, Top.pos, c))
        /\ notes = Kept(notes, Top.noteCount) \o own
        /\ t >= c.depth
        /\ exact => errs = Top.errors /\ t <= peak
  BY <1>1 DEF Walked
<1>4. RefFollow(RefOk(Top.pos, Top.nodes, errs, own, t),
                RefOk(to, << >>, {}, << >>, c.depth)) = RefOk(to, Top.nodes, errs, own, t)
  <2> DEFINE pos == Top.pos
             nodes == Top.nodes
             d == c.depth
  <2>1. pos \in Nat /\ nodes \in Nodes /\ d \in Nat /\ d <= t BY <1>1, <1>2, <1>3 DEF Frame, Pos
  <2> HIDE DEF pos, nodes, d
  <2>2. RefFollow(RefOk(pos, nodes, errs, own, t), RefOk(to, << >>, {}, << >>, d)) =
           RefOk(to, nodes, errs, own, t)
    BY <2>1, FollowEnd
  <2> QED BY <2>2 DEF pos, nodes, d
<1>5. RefBody(input, first, c) = RefOk(to, Top.nodes, errs, own, t) BY <1>3, <1>4
<1> QED BY <1>3, <1>5

\* Its closer has come up.
LEMMA ClosingWon ==
  ASSUME IInv, NInv, NEW exact, FramesRight(exact),
         BodyCloses(Top), Shape[Top.rule] # "leaf"
  PROVE  RefBody(input, Top.pos, BodyCtx) =
            RefOk(Top.pos + 1, << >>, {}, << >>, BodyCtx.depth)
<1>1. Here = Closer[Top.rule] /\ Top.rule # Page BY DEF BodyCloses, Here
<1>2. BodyCtx.rule = Top.rule BY TopRight
<1>3. RefCloses(BodyCtx, Here) BY <1>1, <1>2 DEF RefCloses
<1> QED BY <1>3, BodyHere

\* An element the parent does not accept.
LEMMA RejectedLost ==
  ASSUME IInv, NInv, NEW exact, FramesRight(exact),
         OnLimit(exact), CloseRejected, Len(frames) > 1
  PROVE  AttemptLost(exact, "partial", peak)
<1>1. BodyCloses(Top) /\ Shape[Top.rule] = "item" /\ Parent.accepts # "item"
  BY DEF CloseRejected, Parent
<1>2. Bodied BY <1>1 DEF Bodied, RefBodiless
<1>3. RefBody(input, Top.pos, BodyCtx) = RefOk(Top.pos + 1, << >>, {}, << >>, BodyCtx.depth)
  BY <1>1, ClosingWon
<1>4. PICK errs \in SUBSET ErrorKind, own \in Seq(Note), t \in Nat :
        /\ RefBody(input, FirstPos(Top), BodyCtx) =
              RefOk(Top.pos + 1, Top.nodes, errs, own, t)
        /\ exact => errs = Top.errors /\ t <= peak
  BY <1>3, WholeWon
<1> DEFINE whole == RefBody(input, FirstPos(Top), BodyCtx)
<1>5. RefWon(whole) /\ whole.top = t BY <1>4, OkFields
<1>6. Attempted = RefClosed(whole, Top.rule, Top.start, ParentCtx) BY <1>2, AttemptIs
<1>7. OnPath(exact, whole.top) BY <1>2, PathHolds
<1> HIDE DEF whole
<1>8. ParentCtx.accepts = Parent.accepts BY ParentRight
<1>9. Attempted = RefErr("partial", t) BY <1>1, <1>5, <1>6, <1>8 DEF RefClosed
<1>10. ~RefWon(Attempted) /\ Attempted.error = "partial" /\ Attempted.top = t
  BY <1>9, ErrFields DEF ErrorKind
<1>11. (exact => Attempted.top <= peak) /\ OnPath(exact, Attempted.top) BY <1>4, <1>5, <1>7, <1>10
<1> QED BY <1>10, <1>11 DEF AttemptLost

LEMMA CloseRejectedRight ==
  ASSUME IInv, NInv, NEW exact, EngineRight(exact), OnLimit(exact), CloseRejected
  PROVE  EngineRight(exact)'
<1>1. Len(frames) > 1 BY ClosingFrame DEF CloseRejected
<1>2. /\ FramesRight(exact) /\ MemosRight(exact)
      /\ page = "parsing" /\ peak \in Nat
  BY <1>1, StillParsing DEF EngineRight, IInv
<1> DEFINE top == peak
           error == "partial"
<1>3. AttemptLost(exact, error, top) /\ top \in Nat /\ error \in ErrorKind
  BY <1>1, <1>2, RejectedLost DEF ErrorKind
<1> HIDE DEF top, error
<1>4. StackRight(exact, input, Returned(Failed(Parent, error)), Kept(notes, Top.noteCount),
                 Larger(top, Top.enclosing))
  BY <1>1, <1>2, <1>3, FailedStack
<1>5. RefusalsRight(rejections') BY <1>2 DEF CloseRejected, MemosRight, RefusalsRight
<1>6. /\ frames' = Returned(Failed(Parent, error)) /\ notes' = Kept(notes, Top.noteCount)
      /\ peak' = Larger(top, Top.enclosing)
  BY DEF CloseRejected, Parent, Restored, Kept, top, error
<1> DEFINE fs == Returned(Failed(Parent, error))
           ms == Kept(notes, Top.noteCount)
           up == Larger(top, Top.enclosing)
<1>7. /\ input' = input /\ page' = "parsing"
      /\ FailuresRight(exact, input, failures') /\ SuccessesRight(exact, input, successes')
      /\ WalksRight(exact, input, walks') /\ BlocksRight(exact, blockFailures')
  BY <1>2 DEF CloseRejected, MemosRight
<1>8. StackRight(exact, input, fs, ms, up) /\ frames' = fs /\ notes' = ms /\ peak' = up
  BY <1>4, <1>6
<1> HIDE DEF fs, ms, up
<1> QED BY <1>5, <1>7, <1>8, EngineArrives

LEMMA LeafWon ==
  ASSUME IInv, NInv, NEW exact, FramesRight(exact),
         Len(frames) > 1, Shape[Top.rule] = "leaf"
  PROVE  AttemptWon(exact, Registered(Top))
<1>1. /\ RunsFor(exact, input, Parent, Top, Len(frames) - 1)
      /\ Len(frames) - 1 <= MaxDepth /\ Parent.depth = Len(frames) - 1 /\ Parent.depth <= peak
  BY ParentRight
<1>2. ~Bodied /\ RefBodiless(Top.rule, InContext(Parent, Len(frames) - 1))
  BY DEF Bodied, RefBodiless, Parent
<1>3. Top.pos = Top.start + 1 /\ Top.errors = {} BY <1>1, <1>2 DEF RunsFor
<1>4. Attempted = RefOk(Top.start + 1, <<Node("leaf", Top.rule, Top.start)>>,
                        {}, << >>, Len(frames) - 1)
  BY <1>2, AttemptIs
<1>5. /\ RefWon(Attempted) /\ Attempted.to = Top.start + 1
      /\ Attempted.nodes = <<Node("leaf", Top.rule, Top.start)>>
      /\ Attempted.errors = {} /\ Attempted.notes = << >> /\ Attempted.top = Len(frames) - 1
  BY <1>4, OkFields
<1>6. EndOf(Top) = Top.start + 1 /\ Result(Top) = <<Node("leaf", Top.rule, Top.start)>>
      /\ Registered(Top) = notes
  BY <1>3 DEF EndOf, Result, Registered
<1>7. Kept(notes, Top.noteCount) \o << >> = notes
  <2>1. notes \in Seq(Note) /\ Len(notes) = Top.noteCount BY StackIs DEF Owns
  <2>2. Kept(notes, Len(notes)) = notes BY <2>1 DEF Kept
  <2> QED BY <2>1, <2>2
<1>8. OnPath(exact, Attempted.top) BY <1>1, <1>5 DEF OnPath
<1>9. Attempted.top <= peak BY <1>1, <1>5
<1> QED BY <1>3, <1>5, <1>6, <1>7, <1>8, <1>9 DEF AttemptWon

LEMMA AppendBehind ==
  ASSUME NEW a \in Seq(Note), NEW b \in Seq(Note), NEW x
  PROVE  Append(a \o b, x) = a \o Append(b, x)
OBVIOUS

LEMMA BodiedWon ==
  ASSUME IInv, NInv, NEW exact, FramesRight(exact),
         OnLimit(exact), Len(frames) > 1, BodyCloses(Top), ~Nested(Top),
         Shape[Top.rule] # "leaf", Shape[Top.rule] = "item" => Parent.accepts = "item"
  PROVE  AttemptWon(exact, Registered(Top))
<1>1. /\ ParentCtx.accepts = Parent.accepts /\ ParentCtx.zone = Parent.zone
      /\ Kept(notes, Top.noteCount) \in Seq(Note) /\ Top \in Frame
  BY ParentRight, TopFrame
<1>2. Bodied
  <2>1. Shape[Top.rule] = "note" => Parent.zone # "note" BY DEF Nested, Parent
  <2>2. Shape[Top.rule] = "note" => ParentCtx.zone # "note" BY <1>1, <2>1
  <2> QED BY <2>2 DEF Bodied, RefBodiless, ParentCtx, Parent
<1>3. RefBody(input, Top.pos, BodyCtx) = RefOk(Top.pos + 1, << >>, {}, << >>, BodyCtx.depth)
  BY ClosingWon
<1>4. PICK errs \in SUBSET ErrorKind, own \in Seq(Note), t \in Nat :
        /\ RefBody(input, FirstPos(Top), BodyCtx) =
              RefOk(Top.pos + 1, Top.nodes, errs, own, t)
        /\ notes = Kept(notes, Top.noteCount) \o own
        /\ exact => errs = Top.errors /\ t <= peak
  BY <1>3, WholeWon
<1> DEFINE whole == RefBody(input, FirstPos(Top), BodyCtx)
<1>5. /\ RefWon(whole) /\ whole.top = t /\ whole.to = Top.pos + 1 /\ whole.nodes = Top.nodes
      /\ whole.errors = errs /\ whole.notes = own
  BY <1>4, OkFields
<1>6. Attempted = RefClosed(whole, Top.rule, Top.start, ParentCtx) BY <1>2, AttemptIs
<1>7. OnPath(exact, whole.top) BY <1>2, PathHolds
<1> HIDE DEF whole
<1>8. ~(Shape[Top.rule] = "item" /\ ParentCtx.accepts # "item") BY <1>1
<1>9. EndOf(Top) = Top.pos + 1 BY DEF EndOf
<1>10. (Top.pos + 1) - 1 = Top.pos BY <1>1 DEF Frame, Pos
<1>11. CASE Shape[Top.rule] = "note"
  <2> DEFINE mine == [at |-> Top.start, nodes |-> Top.nodes]
  <2>1. Attempted = RefOk(Top.pos + 1, <<Node("note", Top.rule, Top.start)>>, errs,
                          Append(own, mine), t)
    BY <1>5, <1>6, <1>8, <1>11 DEF RefClosed
  <2>2. Result(Top) = <<Node("note", Top.rule, Top.start)>> /\ Registered(Top) = Append(notes, mine)
    BY <1>11 DEF Result, Registered
  <2> HIDE DEF mine
  <2>3. Registered(Top) = Kept(notes, Top.noteCount) \o Append(own, mine)
    BY <1>1, <1>4, <2>2, AppendBehind
  <2>4. /\ RefWon(Attempted) /\ Attempted.to = EndOf(Top) /\ Attempted.nodes = Result(Top)
        /\ Attempted.notes = Append(own, mine) /\ Attempted.errors = errs /\ Attempted.top = t
    <3> DEFINE ends == Top.pos + 1
               gives == <<Node("note", Top.rule, Top.start)>>
               adds == Append(own, mine)
    <3>1. Attempted = RefOk(ends, gives, errs, adds, t) BY <2>1
    <3> HIDE DEF ends, gives, adds
    <3>2. /\ RefWon(Attempted) /\ Attempted.to = ends /\ Attempted.nodes = gives
          /\ Attempted.notes = adds /\ Attempted.errors = errs /\ Attempted.top = t
      BY <3>1, OkFields
    <3> QED BY <1>9, <2>2, <3>2 DEF ends, gives, adds
  <2> QED BY <1>4, <1>5, <1>7, <2>3, <2>4 DEF AttemptWon
<1>12. CASE Shape[Top.rule] # "note"
  <2>1. Attempted = RefOk(Top.pos + 1, Result(Top), errs, own, t)
    <3>1. Result(Top) = <<Node("open", Top.rule, Top.start)>> \o Top.nodes
                        \o <<Node("close", Top.rule, Top.pos)>>
      BY <1>12, Zenon DEF Result
    <3>2. Attempted =
            RefOk(whole.to, <<Node("open", Top.rule, Top.start)>> \o whole.nodes
                            \o <<Node("close", Top.rule, whole.to - 1)>>,
                  whole.errors, whole.notes, whole.top)
      BY <1>5, <1>6, <1>8, <1>12, Zenon DEF RefClosed
    <3>3. whole.to - 1 = Top.pos BY <1>5, <1>10, Zenon
    <3> QED BY <1>5, <3>1, <3>2, <3>3, Zenon
  <2>2. Registered(Top) = notes BY <1>12 DEF Registered
  <2>3. /\ RefWon(Attempted) /\ Attempted.to = EndOf(Top) /\ Attempted.nodes = Result(Top)
        /\ Attempted.notes = own /\ Attempted.errors = errs /\ Attempted.top = t
    BY <1>9, <2>1, OkFields
  <2> QED BY <1>4, <1>5, <1>7, <2>2, <2>3 DEF AttemptWon
<1> QED BY <1>11, <1>12

LEMMA CloseAcceptedRight ==
  ASSUME IInv, NInv, NEW exact, EngineRight(exact), OnLimit(exact), CloseAccepted
  PROVE  EngineRight(exact)'
<1>1. /\ BodyCloses(Top) /\ ~Nested(Top)
      /\ Shape[Top.rule] = "item" => Parent.accepts = "item"
      /\ Len(frames) > 1
  BY ClosingFrame DEF CloseAccepted, Parent
<1>2. /\ FramesRight(exact) /\ MemosRight(exact)
      /\ page = "parsing" /\ peak \in Nat /\ input \in Seq(Token)
  BY <1>1, StillParsing DEF EngineRight, IInv
<1>3. AttemptWon(exact, Registered(Top)) BY <1>1, <1>2, LeafWon, BodiedWon
<1>4. Attempted \in RefOutcome /\ Attempted.top \in Nat /\ Attempted.notes \in Seq(Note)
  BY <1>1, <1>2, AttemptedTyped DEF RefOutcome
<1>5. /\ Len(frames) - 1 \in Nat \ {0} /\ Len(frames) - 1 <= MaxDepth
      /\ Parent \in Frame /\ Parent.phase = "rules" /\ Parent.depth = Len(frames) - 1
      /\ Len(Parent.tried) < Count(input, Parent.pos)
      /\ Answers(input, Parent.pos, ParentCtx)[Len(Parent.tried) + 1] = Attempted
      /\ FrameRight(exact, input, Parent, Len(frames) - 1,
                    Kept(notes, Parent.noteCount), Kept(notes, Top.noteCount),
                    Top.enclosing)
      /\ Top.enclosing \in Nat /\ Parent.depth <= peak
      /\ Kept(notes, Parent.noteCount) \in Seq(Note)
  BY <1>1, <1>2, ParentRight
<1> DEFINE up == Larger(peak, Top.enclosing)
           g == Consumed(Parent, EndOf(Top), Result(Top), Top.errors)
           ms == Registered(Top)
           part == Kept(notes, Top.noteCount)
<1>6. up \in Nat /\ peak <= up /\ Top.enclosing <= up BY <1>2, <1>5, LargerType
<1>7. /\ notes \in Seq(Note) /\ Top.noteCount \in 0..Len(notes) /\ Len(notes) \in Nat
      /\ Parent.noteCount \in 0..Top.noteCount /\ Top \in Frame
  <2>1. Len(frames) - 1 \in 1..Len(frames) BY <1>1, FrameCounts
  <2> QED BY <2>1, FrameCounts DEF Parent
<1>8. part \in Seq(Note) /\ Len(part) = Top.noteCount
      /\ \A i \in 0..Top.noteCount : Kept(part, i) = Kept(notes, i)
  BY <1>7, KeptOfKept
<1>9. ms = part \o Attempted.notes BY <1>3 DEF AttemptWon
<1>10. \A i \in 0..Top.noteCount : Kept(ms, i) = Kept(notes, i)
  <2> DEFINE n == Top.noteCount
             own == Attempted.notes
  <2>1. part \in Seq(Note) /\ own \in Seq(Note) /\ Len(part) = n /\ n \in Nat BY <1>4, <1>7, <1>8
  <2> HIDE DEF part, ms, n, own
  <2>2. \A i \in 0..n : Kept(part \o own, i) = Kept(part, i) BY <2>1 DEF Kept
  <2> QED BY <1>8, <1>9, <2>2 DEF n, own
<1>11. g \in Frame /\ Keeps(g, Parent) /\ g.noteCount = Parent.noteCount
  <2> DEFINE p == Parent
             to == EndOf(Top)
             nodes == Result(Top)
             errs == Top.errors
             k == Len(frames) - 1
  <2>1. /\ p \in Frame /\ p.phase = "rules" /\ to \in Pos /\ nodes \in Nodes
        /\ errs \in SUBSET ErrorKind /\ k \in Nat \ {0} /\ Placed(p, k) /\ p.start <= to
    <3>1. Placed(Parent, Len(frames) - 1) /\ Follows(Parent, Top) BY <1>1, ParentFrame DEF Parent
    <3>2. Placed(Top, Len(frames)) /\ Top.start = Parent.pos BY <3>1, TopFrame DEF Follows
    <3>3. Parent.start <= Parent.pos /\ Top.start <= Top.pos BY <3>1, <3>2 DEF Placed
    <3>4. EndOf(Top) \in Pos /\ Top.pos <= EndOf(Top) /\ Result(Top) \in Nodes BY <1>7, ResultType
    <3>5. Parent.start <= EndOf(Top)
      <4> DEFINE a == Parent.start
                 b == Parent.pos
                 c == Top.pos
                 d == EndOf(Top)
      <4>1. a \in Nat /\ b \in Nat /\ c \in Nat /\ d \in Nat /\ a <= b /\ b <= c /\ c <= d
        BY <1>5, <1>7, <3>2, <3>3, <3>4 DEF Frame, Pos
      <4> HIDE DEF a, b, c, d
      <4>2. a <= d BY <4>1
      <4> QED BY <4>2 DEF a, d
    <3> QED BY <1>5, <1>7, <3>1, <3>4, <3>5 DEF Frame
  <2> HIDE DEF p, to, nodes, errs, k
  <2>2. Consumed(p, to, nodes, errs) \in Frame BY <2>1, ConsumedFrame
  <2>3. LET h == Consumed(p, to, nodes, errs)
        IN  Resumes(h, p) /\ h.noteCount = p.noteCount /\ h.enclosing = p.enclosing
    BY <2>1, ConsumedFields
  <2> QED BY <2>2, <2>3 DEF p, to, nodes, errs, Keeps
<1>12. FrameRight(exact, input, g, Len(frames) - 1, Kept(notes, Parent.noteCount), ms, up)
  <2> DEFINE p == Parent
             k == Len(frames) - 1
             before == Kept(notes, Parent.noteCount)
             low == Top.enclosing
             a == Attempted
             more == Top.errors
  <2>1. /\ p \in Frame /\ k \in Nat \ {0} /\ k <= MaxDepth + 1 /\ low \in Nat /\ up \in Nat
        /\ low <= up /\ FrameRight(exact, input, p, k, before, part, low) /\ p.phase = "rules"
        /\ Len(p.tried) < Count(input, p.pos) /\ before \in Seq(Note)
        /\ a = Answers(input, p.pos, InContext(p, k))[Len(p.tried) + 1] /\ RefWon(a)
        /\ input \in Seq(Token)
    BY <1>2, <1>3, <1>5, <1>6, RuleEngineAssumption DEF ParentCtx, AttemptWon
  <2>2. ASSUME exact PROVE more = a.errors /\ a.top <= up
    <3>1. a.errors = more /\ a.top <= peak BY <1>3, <2>2 DEF AttemptWon
    <3>2. a.top \in Nat BY <1>4
    <3> HIDE DEF a, more, up
    <3> QED BY <1>2, <1>6, <3>1, <3>2
  <2>3. a.to = EndOf(Top) /\ a.nodes = Result(Top) /\ ms = part \o a.notes
    BY <1>3, <1>9 DEF AttemptWon
  <2> HIDE DEF p, k, before, low, up, ms, part, a, more
  <2>4. FrameRight(exact, input, Consumed(p, a.to, a.nodes, more), k, before,
                   part \o a.notes, up)
    <3>1. CASE exact BY <2>1, <2>2, <3>1, FrameTakes
    <3>2. CASE ~exact BY <2>1, <3>2, FrameTakes
    <3> QED BY <3>1, <3>2
  <2> QED BY <2>3, <2>4 DEF p, k, before, more
<1>13. Kept(ms, g.noteCount) = Kept(notes, Parent.noteCount) BY <1>7, <1>10, <1>11
<1>14. StackRight(exact, input, Returned(g), ms, up)
  <2>1. /\ g \in Frame /\ Keeps(g, frames[Len(frames) - 1])
        /\ FrameRight(exact, input, g, Len(frames) - 1, Kept(ms, g.noteCount), ms, up)
    BY <1>11, <1>12, <1>13 DEF Parent
  <2> HIDE DEF g, ms, up
  <2> QED BY <1>1, <1>2, <1>10, <2>1, ReturnedRight
<1>15. SuccessesRight(exact, input, successes')
  <2> DEFINE key == Key(Top.rule, Parent, Parent.pos)
             d == Parent.depth
             entry == Outcome(Top, Parent)
             memo == successes
             o == AttemptAt(input, key, d)
  <2>1. SuccessesRight(exact, input, memo) BY <1>2 DEF MemosRight
  <2>2. \/ successes' = memo
        \/ successes' = Remember(memo, key, d, entry) /\ Len(ms) = Top.noteCount
    BY DEF CloseAccepted, Parent
  <2>3. ASSUME Len(ms) = Top.noteCount
        PROVE  SuccessesRight(exact, input, Remember(memo, key, d, entry))
    <3>1. /\ key \in MemoKey /\ key.depth = {} /\ key.pos \in 1..Len(input) /\ d \in 0..MaxDepth
          /\ o = Attempted /\ key.pos = Top.start
      BY <1>1, <1>2, AttemptedByKey
    <3>2. Attempted.notes = << >>
      <4> DEFINE own == Attempted.notes
                 n == Top.noteCount
      <4>1. /\ part \in Seq(Note) /\ own \in Seq(Note) /\ Len(part) = n /\ n \in Nat
            /\ Len(part \o own) = n
        BY <1>4, <1>7, <1>8, <1>9, <2>3
      <4> HIDE DEF part, own, n
      <4>2. own = << >> BY <4>1
      <4> QED BY <4>2 DEF own
    <3>3. /\ entry.height = peak - d /\ entry.nodes = Result(Top) /\ entry.errors = Top.errors
          /\ entry.length = EndOf(Top) - Top.start
      BY DEF Outcome
    <3>4. entry.height \in Nat /\ d + entry.height = peak
      <4>1. d \in Nat /\ d <= peak BY <1>5, <3>1
      <4> HIDE DEF d, entry
      <4> QED BY <1>2, <3>3, <4>1
    <3>5. key.pos + entry.length = EndOf(Top)
      <4>1. EndOf(Top) \in Pos /\ Top.start \in Pos BY <1>7, ResultType DEF Frame
      <4> HIDE DEF key, entry
      <4> QED BY <3>1, <3>3, <4>1 DEF Pos
    <3>6. /\ RefWon(o) /\ o.nodes = entry.nodes /\ o.notes = << >>
          /\ o.to = key.pos + entry.length /\ OnPath(exact, o.top)
          /\ exact => o.errors = entry.errors
          /\ exact => o.top <= d + entry.height
      BY <1>3, <3>1, <3>2, <3>3, <3>4, <3>5 DEF AttemptWon
    <3>7. o = AttemptAt(input, key, d) OBVIOUS
    <3> HIDE DEF key, d, entry, memo, o
    <3>8. CASE exact BY <2>1, <3>1, <3>4, <3>6, <3>7, <3>8, RememberSuccess
    <3>9. CASE ~exact BY <2>1, <3>1, <3>4, <3>6, <3>7, <3>9, RememberSuccess
    <3> QED BY <3>8, <3>9
  <2> QED BY <2>1, <2>2, <2>3
<1>16. /\ input' = input /\ page' = "parsing" /\ frames' = Returned(g) /\ notes' = ms /\ peak' = up
       /\ FailuresRight(exact, input, failures') /\ WalksRight(exact, input, walks')
       /\ RefusalsRight(rejections') /\ BlocksRight(exact, blockFailures')
  BY <1>2 DEF CloseAccepted, MemosRight, Parent
<1> DEFINE fs == Returned(g)
<1> HIDE DEF fs, g, ms, up
<1>17. StackRight(exact, input, fs, ms, up) /\ frames' = fs BY <1>14, <1>16 DEF fs
<1> QED BY <1>15, <1>16, <1>17, EngineArrives

\* The innermost parser goes on as g.
LEMMA MovesRight ==
  ASSUME IInv, NInv, NEW exact, EngineRight(exact), page = "parsing", Bodied,
         input' = input, page' = page, notes' = notes, memos' = memos,
         NEW g \in Frame, Keeps(g, Top), frames' = Replaced(g), NEW up, peak' = up,
         FrameRight(exact, input, g, Len(frames), Kept(notes, g.noteCount), notes, up)
  PROVE  EngineRight(exact)'
<1>1. FramesRight(exact) /\ MemosRight(exact) BY DEF EngineRight
<1>2. StackRight(exact, input, Replaced(g), notes, up) BY <1>1, ReplacedRight DEF Bodied
<1>3. /\ FailuresRight(exact, input, failures') /\ SuccessesRight(exact, input, successes')
      /\ WalksRight(exact, input, walks') /\ RefusalsRight(rejections')
      /\ BlocksRight(exact, blockFailures')
  BY <1>1 DEF MemosRight, memos
<1> DEFINE fs == Replaced(g)
           ns == notes
<1>4. StackRight(exact, input, fs, ns, up) /\ frames' = fs /\ notes' = ns /\ page' = "parsing"
  BY <1>2
<1> HIDE DEF fs, ns
<1> QED BY <1>3, <1>4, EngineArrives

LEMMA StepBreakRight ==
  ASSUME IInv, NInv, NEW exact, EngineRight(exact), StepBreak PROVE EngineRight(exact)'
<1>1. /\ FramesRight(exact) /\ BodyGoesOn /\ page = "parsing"
  BY DEF EngineRight, StepBreak, BodyGoesOn
<1>2. Bodied BY <1>1, TopBodied
<1> DEFINE f == Top
           k == Len(frames)
           before == Kept(notes, Top.noteCount)
           g == [Top EXCEPT !.pos = @ + 1]
           low == peak
           ns == notes
<1>3. /\ FrameRight(exact, input, f, k, before, ns, low) /\ f \in Frame /\ k \in Nat \ {0}
      /\ k <= MaxDepth + 1 /\ input \in Seq(Token) /\ f.phase = "body"
      /\ BodyCtx = InContext(f, k - 1) /\ Here = RefToken(input, f.pos)
  BY <1>1, TopRight, BodyGuards, HereIs DEF BodyCtx
<1>4. ~RefCloses(BodyCtx, Here) /\ ~RefCut(BodyCtx, Here) /\ RefSteps(BodyCtx, Here)
  <2>1. Shape[Top.rule] # "span" /\ ~Ungathered /\ Here \in Breaks BY DEF StepBreak
  <2> QED BY <1>1, <2>1, BodyGuards
<1>5. g = [f EXCEPT !.pos = @ + 1] /\ g \in Frame /\ Keeps(g, Top) /\ g.noteCount = Top.noteCount
  <2>1. f.pos \in Nat \ {0} /\ f.pos + 1 \in Nat \ {0} BY <1>3 DEF Frame, Pos
  <2> QED BY <1>3, <2>1 DEF Keeps, Resumes, Frame, Pos
<1>6. frames' = Replaced(g) /\ input' = input /\ page' = page /\ notes' = notes
      /\ memos' = memos /\ peak' = low
  BY DEF StepBreak
<1>7. FrameRight(exact, input, g, Len(frames), Kept(notes, g.noteCount), notes, low)
  <2>1. Kept(notes, g.noteCount) = before BY <1>5
  <2> HIDE DEF f, k, before, g, low, ns
  <2>2. FrameRight(exact, input, g, k, before, ns, low) BY <1>3, <1>4, <1>5, FrameSteps
  <2> QED BY <2>1, <2>2 DEF k, ns
<1> HIDE DEF g, low
<1> QED BY <1>1, <1>2, <1>5, <1>6, <1>7, MovesRight

LEMMA ConsumeRight ==
  ASSUME IInv, NInv, NEW exact, EngineRight(exact), Consume PROVE EngineRight(exact)'
<1>1. /\ FramesRight(exact) /\ BodyGoesOn /\ page = "parsing"
      /\ AtToken /\ Top.depth < MaxDepth
  BY DEF EngineRight, Consume, Enters, AtToken, BodyGoesOn
<1>2. Bodied BY <1>1, TopBodied
<1> DEFINE f == Top
           k == Len(frames)
           before == Kept(notes, Top.noteCount)
           g == [Top EXCEPT !.depth = @ + 1, !.phase = "rules",
                            !.visited = IF AsksWalk THEN @ \cup {Top.pos} ELSE @]
           low == peak
           up == Larger(peak, Top.depth + 1)
           ns == notes
<1>3. /\ FrameRight(exact, input, f, k, before, ns, low) /\ f \in Frame /\ k \in Nat \ {0}
      /\ input \in Seq(Token) /\ f.phase = "body" /\ f.depth = k - 1 /\ low \in Nat
      /\ BodyCtx = InContext(f, k - 1)
  BY <1>1, TopRight, BodyGuards DEF BodyCtx
<1>4. Goes(input, f.pos, InContext(f, k - 1)) BY <1>1, <1>3, TokenGoes
<1>5. /\ g \in Frame /\ Keeps(g, Top) /\ g.noteCount = Top.noteCount /\ Resumes(g, f)
      /\ g.pos = f.pos /\ g.nodes = f.nodes /\ g.errors = f.errors /\ g.tried = f.tried
      /\ g.phase = "rules" /\ (g.visited = f.visited \/ g.visited = f.visited \cup {f.pos})
  <2>1. f.depth + 1 \in 0..MaxDepth /\ f.pos \in Pos BY <1>1, <1>3, RuleEngineAssumption DEF Frame
  <2> QED BY <1>3, <2>1 DEF Keeps, Resumes, Frame
<1>6. k <= MaxDepth /\ Top.depth + 1 = k
  <2>1. f.depth < MaxDepth BY <1>1
  <2> HIDE DEF k
  <2> QED BY <1>3, <2>1, RuleEngineAssumption
<1>7. up \in Nat /\ low <= up /\ k <= up
  <2>1. up = Larger(low, k) BY <1>6
  <2> HIDE DEF up, low, k
  <2> QED BY <1>3, <2>1, LargerType
<1>8. frames' = Replaced(g) /\ input' = input /\ page' = page /\ notes' = notes
      /\ memos' = memos /\ peak' = up
  BY DEF Consume
<1>9. FrameRight(exact, input, g, Len(frames), Kept(notes, g.noteCount), notes, up)
  <2>1. Kept(notes, g.noteCount) = before BY <1>5
  <2> HIDE DEF f, k, before, g, low, up, ns
  <2>2. FrameRight(exact, input, g, k, before, ns, up) BY <1>3, <1>4, <1>5, <1>6, <1>7, FrameEnters
  <2> QED BY <2>1, <2>2 DEF k, ns
<1> HIDE DEF g, up
<1> QED BY <1>1, <1>2, <1>5, <1>8, <1>9, MovesRight

--------------------
(* The rules that consume tries *)

LEMMA CallingRight ==
  ASSUME IInv, NInv, NEW exact, FramesRight(exact),
         OnLimit(exact), Calling, Untried
  PROVE  /\ FrameRight(exact, input, Top, Len(frames), Kept(notes, Top.noteCount),
                       notes, peak)
         /\ Kept(notes, Top.noteCount) \in Seq(Note)
         /\ Top \in Frame /\ Top.phase = "rules" /\ Top.depth = Len(frames)
         /\ Len(frames) \in Nat \ {0} /\ Len(frames) <= MaxDepth
         /\ Len(Top.tried) < Count(input, Top.pos)
         /\ Answers(input, Top.pos, TryCtx)[Len(Top.tried) + 1] = NextAnswer
         /\ NextRule = Turns(input, Top.pos)[Len(Top.tried) + 1]
         /\ NextRule \in Rule /\ NextRule # Page /\ Top.pos \in 1..Len(input)
         /\ Within(TryCtx) /\ TryCtx.depth = Len(frames) /\ TryCtx.limit = MaxDepth
         /\ TryCtx.accepts = Top.accepts /\ TryCtx.zone = Top.zone
         /\ peak \in Nat /\ input \in Seq(Token)
         /\ NextAnswer.top \in Nat /\ OnPath(exact, NextAnswer.top)
         /\ Bodied /\ page = "parsing"
<1>1. Top.phase = "rules" /\ page = "parsing" BY DEF Calling
<1>2. /\ FrameRight(exact, input, Top, Len(frames), Kept(notes, Top.noteCount), notes, peak)
      /\ Kept(notes, Top.noteCount) \in Seq(Note)
      /\ Top \in Frame /\ Top.depth = Len(frames)
      /\ Len(frames) \in Nat \ {0} /\ Top.pos \in 1..(Len(input) + 1)
      /\ peak \in Nat /\ input \in Seq(Token) /\ Deeper(BodyCtx) = TryCtx
  BY <1>1, TopRight DEF TryCtx
<1>3. Bodied BY <1>1, TopBodied
<1>4. Len(frames) <= MaxDepth
  <2>1. Top.depth \in 0..MaxDepth BY <1>2 DEF Frame
  <2> QED BY <1>2, <2>1, RuleEngineAssumption
<1>5. TriedRight(exact, input, Top, Len(frames), peak) BY <1>1, <1>2 DEF FrameRight
<1> DEFINE j == Len(Top.tried) + 1
           pos == Top.pos
<1>6. Count(input, pos) = Len(Rules(Here)) /\ Turns(input, pos) = Rules(Here)
  BY HereIs DEF Count, Turns
<1>7. /\ Count(input, pos) \in Nat
      /\ \A i \in 1..Count(input, pos) :
            /\ Turns(input, pos)[i] \in Rule /\ Turns(input, pos)[i] # Page
            /\ pos \in 1..Len(input)
  <2>1. pos \in 1..(Len(input) + 1) /\ input \in Seq(Token) BY <1>2
  <2> HIDE DEF pos
  <2> QED BY <2>1, TokenFacts
<1>8. Len(Top.tried) \in Nat BY <1>2 DEF Frame
<1>9. Len(Top.tried) < Count(input, pos) BY <1>6 DEF Untried
<1>10. j \in 1..Count(input, pos) BY <1>7, <1>8, <1>9
<1>11. NextRule = Turns(input, pos)[j] BY <1>6 DEF NextRule
<1>12. NextRule \in Rule /\ NextRule # Page /\ pos \in 1..Len(input) BY <1>7, <1>10, <1>11
<1>13. Answers(input, pos, TryCtx)[j] = NextAnswer BY <1>10, <1>11 DEF Answers, NextAnswer
<1>14. /\ Within(TryCtx) /\ TryCtx.depth = Len(frames) /\ TryCtx.limit = MaxDepth
       /\ TryCtx.accepts = Top.accepts /\ TryCtx.zone = Top.zone
  <2> DEFINE f == Top
             k == Len(frames)
  <2>1. f.rule \in Rule /\ f.accepts \in Accepts /\ f.zone \in Zones /\ k \in 0..MaxDepth
    BY <1>2, <1>4, RuleEngineAssumption DEF Frame
  <2> HIDE DEF f, k
  <2>2. /\ Within(InContext(f, k))
        /\ InContext(f, k).depth = k /\ InContext(f, k).limit = MaxDepth
        /\ InContext(f, k).accepts = f.accepts /\ InContext(f, k).zone = f.zone
    BY <2>1, InContextIs
  <2> QED BY <2>2 DEF f, k, TryCtx
<1>15. /\ NextAnswer.top <= RefBody(input, pos, BodyCtx).top
       /\ NextAnswer.top \in Nat /\ RefBody(input, pos, BodyCtx).top \in Nat
  <2> DEFINE c == BodyCtx
  <2>1. Inside(input, pos, c) BY <1>5 DEF TriedRight, BodyCtx
  <2>2. \A i \in 1..(j - 1) : ~RefWon(Answers(input, pos, Deeper(c))[i])
    <3>1. j - 1 = Len(Top.tried) BY <1>8
    <3> HIDE DEF j
    <3> QED BY <1>2, <1>5, <3>1 DEF TriedRight, LostRight, TryCtx
  <2>3. Answers(input, pos, Deeper(c))[j] = NextAnswer BY <1>2, <1>13
  <2>4. input \in Seq(Token) BY <1>2
  <2> HIDE DEF c, pos, j
  <2>5. /\ Answers(input, pos, Deeper(c))[j].top <= RefBody(input, pos, c).top
        /\ Answers(input, pos, Deeper(c))[j].top \in Nat
        /\ RefBody(input, pos, c).top \in Nat
    BY <1>10, <2>1, <2>2, <2>4, TryTop
  <2> QED BY <2>3, <2>5 DEF c
<1>16. OnPath(exact, NextAnswer.top)
  <2>1. OnPath(exact, RefBody(input, pos, BodyCtx).top) BY <1>3, PathHolds
  <2> DEFINE t == NextAnswer.top
             u == RefBody(input, pos, BodyCtx).top
  <2>2. OnPath(exact, u) /\ t <= u /\ t \in Nat /\ u \in Nat BY <1>15, <2>1
  <2> HIDE DEF t, u
  <2>3. OnPath(exact, t) BY <2>2, RuleEngineAssumption DEF OnPath
  <2> QED BY <2>3 DEF t
<1> QED BY <1>1, <1>2, <1>3, <1>4, <1>9, <1>11, <1>12, <1>13, <1>14, <1>15, <1>16

\* The next rule is taken for a failure, and it is one.
LEMMA FailedHere ==
  ASSUME IInv, NInv, NEW exact, EngineRight(exact), OnLimit(exact), Calling, Untried,
         input' = input, page' = page, notes' = notes, memos' = memos,
         NEW error \in ErrorKind, NEW up \in Nat, peak <= up,
         LostRight(exact, NextAnswer, error, up),
         frames' = Replaced(Failed(Top, error)), peak' = up
  PROVE  EngineRight(exact)'
<1>1. FramesRight(exact) BY DEF EngineRight
<1> DEFINE f == Top
           k == Len(frames)
           before == Kept(notes, Top.noteCount)
           g == Failed(Top, error)
           low == peak
           ns == notes
<1>2. /\ FrameRight(exact, input, f, k, before, ns, low) /\ f \in Frame /\ k \in Nat \ {0}
      /\ k <= MaxDepth + 1 /\ input \in Seq(Token) /\ f.phase = "rules" /\ low \in Nat
      /\ low <= up /\ Len(f.tried) < Count(input, f.pos)
      /\ Bodied /\ page = "parsing"
      /\ LostRight(exact, Answers(input, f.pos, InContext(f, k))[Len(f.tried) + 1], error, up)
  BY <1>1, CallingRight, RuleEngineAssumption DEF TryCtx
<1>3. g \in Frame /\ Keeps(g, Top) /\ g.noteCount = Top.noteCount /\ g = Failed(f, error)
  <2>1. g \in Frame BY <1>2, FailedFrame
  <2> QED BY <1>2, <2>1 DEF Failed, Keeps, Resumes, Frame
<1>4. FrameRight(exact, input, g, Len(frames), Kept(notes, g.noteCount), notes, up)
  <2>1. Kept(notes, g.noteCount) = before BY <1>3
  <2> HIDE DEF f, k, before, g, low, ns
  <2>2. FrameRight(exact, input, g, k, before, ns, up) BY <1>2, <1>3, FrameTries
  <2> QED BY <2>1, <2>2 DEF k, ns
<1>5. frames' = Replaced(g) OBVIOUS
<1> HIDE DEF g
<1> QED BY <1>2, <1>3, <1>4, <1>5, MovesRight

\* What is remembered of the next rule.
LEMMA EntryRight ==
  ASSUME IInv, NInv, NEW exact, FramesRight(exact),
         OnLimit(exact), Calling, Untried,
         NEW memo, NEW key \in Usable(memo, Key(NextRule, Top, Top.pos), Top.depth)
  PROVE  /\ key \in DOMAIN memo /\ MayUse(key, memo[key].height, Top.depth)
         /\ Lookup(key, TryCtx, Top.depth)
         /\ key.rule = NextRule /\ key.pos = Top.pos
         /\ RefAttempt(input, key.rule, key.pos, TryCtx) = NextAnswer
         /\ Top.depth \in 0..MaxDepth
<1> DEFINE k == Key(NextRule, Top, Top.pos)
           e == Top.depth
<1>1. /\ Top \in Frame /\ NextRule \in Rule /\ Top.pos \in 1..Len(input)
      /\ Within(TryCtx) /\ TryCtx.depth = Len(frames) /\ TryCtx.limit = MaxDepth
      /\ TryCtx.accepts = Top.accepts /\ TryCtx.zone = Top.zone /\ e = Len(frames)
  BY CallingRight
<1>2. Top.pos \in Pos /\ e \in 0..MaxDepth BY <1>1 DEF Frame
<1>3. k \in MemoKey /\ k.depth = {} BY <1>1, <1>2, KeyType
<1>4. k.rule = NextRule /\ k.pos = Top.pos /\ k.accepts = Top.accepts /\ k.zone = Top.zone
  BY KeyFields
<1> HIDE DEF k, e
<1>5. key \in Usable(memo, k, e) BY DEF k, e
<1>6. key \in DOMAIN memo /\ MayUse(key, memo[key].height, e) /\ SameQuestion(key, k)
  BY <1>2, <1>3, <1>5, UsableMayUse
<1>7. key.rule = NextRule /\ key.pos = Top.pos /\ key.accepts = Top.accepts /\ key.zone = Top.zone
  BY <1>4, <1>6 DEF SameQuestion
<1>8. Lookup(key, TryCtx, e) BY <1>1, <1>7 DEF Lookup
<1>9. RefAttempt(input, key.rule, key.pos, TryCtx) = NextAnswer BY <1>7 DEF NextAnswer
<1> QED BY <1>2, <1>6, <1>7, <1>8, <1>9 DEF e

LEMMA FailedBeforeRight ==
  ASSUME IInv, NInv, NEW exact, EngineRight(exact), OnLimit(exact), FailedBefore
  PROVE  EngineRight(exact)'
<1>1. /\ FramesRight(exact) /\ Calling /\ Untried
      /\ FailuresRight(exact, input, failures)
  BY DEF EngineRight, MemosRight, FailedBefore
<1>2. PICK key \in FailureEntry :
        /\ frames' = Replaced(Failed(Top, failures[key].error))
        /\ peak' = Larger(peak, Top.depth + failures[key].height)
  BY DEF FailedBefore
<1> DEFINE memo == failures
           e == Top.depth
           c == TryCtx
           entry == memo[key]
           up == Larger(peak, e + entry.height)
           error == entry.error
<1>3. key \in Usable(memo, Key(NextRule, Top, Top.pos), Top.depth) BY <1>2 DEF FailureEntry
<1>4. /\ key \in DOMAIN memo /\ MayUse(key, entry.height, e) /\ Lookup(key, c, e)
      /\ key.rule = NextRule /\ key.pos = Top.pos
      /\ RefAttempt(input, key.rule, key.pos, c) = NextAnswer /\ e \in 0..MaxDepth
  BY <1>1, <1>3, EntryRight
<1>5. /\ key \in MemoKey /\ entry \in FailureEntries /\ FailureRight(exact, input, key, entry)
  BY <1>1, <1>4 DEF IInv, MemosOK, Memo, FailuresRight
<1>6. entry.height \in Nat /\ error \in ErrorKind BY <1>5 DEF FailureEntries
<1>7. peak \in Nat /\ input \in Seq(Token) /\ OnPath(exact, NextAnswer.top) BY <1>1, CallingRight
<1>8. up \in Nat /\ peak <= up /\ e + entry.height <= up
  <2> DEFINE b == e + entry.height
  <2>1. b \in Nat BY <1>4, <1>6
  <2> HIDE DEF b
  <2>2. Larger(peak, b) \in Nat /\ Larger(peak, b) >= peak /\ Larger(peak, b) >= b
    BY <1>7, <2>1, LargerType
  <2> QED BY <1>7, <2>1, <2>2 DEF b
<1>9. LostRight(exact, NextAnswer, error, up)
  <2>1. OnPath(exact, RefAttempt(input, key.rule, key.pos, c).top) BY <1>4, <1>7
  <2> HIDE DEF memo, e, c, entry, up
  <2>2. LostRight(exact, RefAttempt(input, key.rule, key.pos, c), entry.error, up)
    BY <1>4, <1>5, <1>7, <1>8, <2>1, UseFailure
  <2> QED BY <1>4, <2>2
<1>10. /\ input' = input /\ page' = page /\ notes' = notes /\ memos' = memos
       /\ frames' = Replaced(Failed(Top, error)) /\ peak' = up
  BY <1>2 DEF FailedBefore
<1> HIDE DEF error, up
<1> QED BY <1>1, <1>6, <1>8, <1>9, <1>10, FailedHere

\* A rule that is refused for its element fails, though perhaps for another reason.
LEMMA RejectedBeforeRight ==
  ASSUME IInv, NInv, EngineRight(FALSE), OnLimit(FALSE), RejectedBefore PROVE EngineRight(FALSE)'
<1>1. /\ FramesRight(FALSE) /\ Calling /\ Untried
      /\ RefusalsRight(rejections)
  BY DEF EngineRight, MemosRight, RejectedBefore
<1>2. Shape[NextRule] = "item" /\ Top.accepts # "item"
  <2>1. RejectionKey \in rejections BY DEF RejectedBefore
  <2>2. RejectionKey[1] = NextRule /\ RejectionKey[4] = Top.accepts BY DEF RejectionKey
  <2> QED BY <1>1, <2>1, <2>2 DEF RefusalsRight
<1>3. TryCtx.accepts # "item" /\ peak \in Nat BY <1>1, <1>2, CallingRight
<1> DEFINE body == RefBody(input, Top.pos + 1, RefInside(NextRule, TryCtx))
           error == "partial"
           up == peak
<1>4. NextAnswer = RefClosed(body, NextRule, Top.pos, TryCtx)
  BY <1>2 DEF NextAnswer, RefAttempt, RefAttemptOf, RefBodiless
<1>5. ~RefWon(NextAnswer)
  <2> HIDE DEF body
  <2>1. CASE ~RefWon(body) BY <1>4, <2>1 DEF RefClosed
  <2>2. CASE RefWon(body)
    <3>1. NextAnswer = RefErr("partial", body.top) BY <1>2, <1>3, <1>4, <2>2 DEF RefClosed
    <3> QED BY <3>1, ErrFields DEF ErrorKind
  <2> QED BY <2>1, <2>2
<1>6. LostRight(FALSE, NextAnswer, error, up) /\ error \in ErrorKind /\ up \in Nat /\ peak <= up
  BY <1>3, <1>5 DEF LostRight, ErrorKind
<1>7. /\ input' = input /\ page' = page /\ notes' = notes /\ memos' = memos
      /\ frames' = Replaced(Failed(Top, error)) /\ peak' = up
  BY DEF RejectedBefore
<1> HIDE DEF error, up
<1> QED BY <1>1, <1>6, <1>7, FailedHere

\* A block known to fail does, if its failures do not depend on what encloses it.
LEMMA BlockEndedBeforeRight ==
  ASSUME IInv, NInv, EngineRight(FALSE), OnLimit(FALSE), BlockEndedBefore,
         BlockFailuresDeterministic
  PROVE  EngineRight(FALSE)'
<1>1. /\ FramesRight(FALSE) /\ Calling /\ Untried
      /\ Fresh /\ EndedBefore
  BY DEF EngineRight, BlockEndedBefore, Fresh
<1>2. TryCtx = Ctx(Top) /\ peak \in Nat BY <1>1, CallingRight DEF TryCtx, InContext, Ctx
<1>3. ~RefWon(NextAnswer) BY <1>1, <1>2 DEF BlockFailuresDeterministic, NextAnswer
<1> DEFINE error == "end"
           up == peak
<1>4. LostRight(FALSE, NextAnswer, error, up) /\ error \in ErrorKind /\ up \in Nat /\ peak <= up
  BY <1>2, <1>3 DEF LostRight, ErrorKind
<1>5. /\ input' = input /\ page' = page /\ notes' = notes /\ memos' = memos
      /\ frames' = Replaced(Failed(Top, error)) /\ peak' = up
  BY DEF BlockEndedBefore
<1> HIDE DEF error, up
<1> QED BY <1>1, <1>4, <1>5, FailedHere

\* Within the limit no block is known to meet it.
LEMMA NotTooDeepBefore ==
  ASSUME EngineRight(FALSE) PROVE ~BlockTooDeepBefore
<1>1. \A b \in blockFailures : b[3] = {} BY DEF EngineRight, MemosRight, BlocksRight
<1>2. ASSUME BlockTooDeepBefore PROVE FALSE
  <2>1. <<NextRule, Top.pos, {Top.depth}>> \in blockFailures
    BY <1>2 DEF BlockTooDeepBefore, TooDeepBefore
  <2>2. {Top.depth} = {} BY <1>1, <2>1
  <2> QED BY <2>2
<1> QED BY <1>2

\* What the innermost parser goes on with after a token.
LEMMA ConsumedKeeps ==
  ASSUME IInv, Calling, NEW to \in Pos, Top.pos <= to, NEW nodes \in Nodes,
         NEW errors \in SUBSET ErrorKind
  PROVE  /\ Consumed(Top, to, nodes, errors) \in Frame
         /\ Keeps(Consumed(Top, to, nodes, errors), Top)
         /\ Consumed(Top, to, nodes, errors).noteCount = Top.noteCount
<1> DEFINE p == Top
           k == Len(frames)
<1>1. p \in Frame /\ p.phase = "rules" /\ k \in Nat \ {0} /\ Placed(p, k) /\ p.start <= to
  <2>1. Top \in Frame /\ Placed(Top, Len(frames)) /\ Len(frames) \in Nat \ {0} BY TopFrame
  <2>2. Top.start <= Top.pos /\ Top.start \in Nat /\ Top.pos \in Nat /\ to \in Nat
    BY <2>1 DEF Placed, Frame, Pos
  <2>3. Top.start <= to BY <2>2
  <2> QED BY <2>1, <2>3 DEF Calling
<1> HIDE DEF p, k
<1>2. Consumed(p, to, nodes, errors) \in Frame BY <1>1, ConsumedFrame
<1>3. LET h == Consumed(p, to, nodes, errors)
      IN  Resumes(h, p) /\ h.noteCount = p.noteCount /\ h.enclosing = p.enclosing
  BY <1>1, ConsumedFields
<1> QED BY <1>2, <1>3 DEF p, Keeps

LEMMA SucceededBeforeRight ==
  ASSUME IInv, NInv, NEW exact, EngineRight(exact), OnLimit(exact), SucceededBefore
  PROVE  EngineRight(exact)'
<1>1. /\ FramesRight(exact) /\ Calling /\ Untried
      /\ SuccessesRight(exact, input, successes)
  BY DEF EngineRight, MemosRight, SucceededBefore
<1>2. PICK key \in SuccessEntry :
        /\ frames' = Replaced(Consumed(Top, Top.pos + successes[key].length,
                                       successes[key].nodes, successes[key].errors))
        /\ peak' = Larger(peak, Top.depth + successes[key].height)
  BY DEF SucceededBefore
<1> DEFINE memo == successes
           e == Top.depth
           c == TryCtx
           entry == memo[key]
           up == Larger(peak, e + entry.height)
           a == NextAnswer
           to == Top.pos + entry.length
           nodes == entry.nodes
           more == entry.errors
           g == Consumed(Top, to, nodes, more)
<1>3. key \in Usable(memo, Key(NextRule, Top, Top.pos), Top.depth) BY <1>2 DEF SuccessEntry
<1>4. /\ key \in DOMAIN memo /\ MayUse(key, entry.height, e) /\ Lookup(key, c, e)
      /\ key.rule = NextRule /\ key.pos = Top.pos
      /\ RefAttempt(input, key.rule, key.pos, c) = NextAnswer /\ e \in 0..MaxDepth
  BY <1>1, <1>3, EntryRight
<1>5. /\ key \in MemoKey /\ entry \in SuccessEntries /\ SuccessRight(exact, input, key, entry)
  BY <1>1, <1>4 DEF IInv, MemosOK, Memo, SuccessesRight
<1>6. /\ entry.height \in Nat /\ entry.nodes \in Nodes /\ entry.errors \in SUBSET ErrorKind
      /\ entry.length \in Nat
  BY <1>5 DEF SuccessEntries
<1>7. /\ peak \in Nat /\ input \in Seq(Token) /\ OnPath(exact, a.top) /\ a.top \in Nat
      /\ Top \in Frame /\ Bodied /\ page = "parsing"
      /\ FrameRight(exact, input, Top, Len(frames), Kept(notes, Top.noteCount), notes, peak)
      /\ Kept(notes, Top.noteCount) \in Seq(Note) /\ Top.phase = "rules"
      /\ Len(frames) \in Nat \ {0} /\ Len(frames) <= MaxDepth
      /\ Len(Top.tried) < Count(input, Top.pos)
      /\ Answers(input, Top.pos, TryCtx)[Len(Top.tried) + 1] = a
  BY <1>1, CallingRight
<1>8. up \in Nat /\ peak <= up /\ e + entry.height <= up /\ e + entry.height \in Nat
  <2> DEFINE b == e + entry.height
  <2>1. b \in Nat BY <1>4, <1>6
  <2> HIDE DEF b
  <2>2. Larger(peak, b) \in Nat /\ Larger(peak, b) >= peak /\ Larger(peak, b) >= b
    BY <1>7, <2>1, LargerType
  <2> QED BY <1>7, <2>1, <2>2 DEF b
<1>9. /\ RefWon(a) /\ a.nodes = nodes /\ a.notes = << >> /\ a.to = to
      /\ exact => more = a.errors /\ a.top <= up
  <2>1. OnPath(exact, RefAttempt(input, key.rule, key.pos, c).top) BY <1>4, <1>7
  <2> HIDE DEF memo, e, c, entry, up, a
  <2>2. LET p == RefAttempt(input, key.rule, key.pos, c)
        IN  /\ RefWon(p) /\ p.nodes = entry.nodes /\ p.notes = << >>
            /\ p.to = key.pos + entry.length
            /\ exact => p.errors = entry.errors /\ p.top <= e + entry.height
    <3>1. SavedRight(exact, RefAttempt(input, key.rule, key.pos, c), entry,
                     key.pos + entry.length, e + entry.height)
      BY <1>4, <1>5, <1>7, <2>1, UseSuccess
    <3> QED BY <3>1 DEF SavedRight
  <2>3. exact => a.top <= e + entry.height BY <1>4, <2>2 DEF a
  <2>4. exact => a.top <= up BY <1>7, <1>8, <2>3
  <2> QED BY <1>4, <2>2, <2>4 DEF a
<1>10. g \in Frame /\ Keeps(g, Top) /\ g.noteCount = Top.noteCount
  <2>1. to \in Pos /\ Top.pos <= to
    <3>1. Top.pos \in Pos BY <1>7 DEF Frame
    <3> HIDE DEF entry
    <3> QED BY <1>6, <3>1 DEF Pos
  <2>2. nodes \in Nodes /\ more \in SUBSET ErrorKind BY <1>6
  <2> HIDE DEF to, nodes, more
  <2> QED BY <1>1, <2>1, <2>2, ConsumedKeeps
<1>11. FrameRight(exact, input, g, Len(frames), Kept(notes, g.noteCount), notes, up)
  <2> DEFINE f == Top
             k == Len(frames)
             before == Kept(notes, Top.noteCount)
             low == peak
             now == notes
  <2>1. /\ f \in Frame /\ k \in Nat \ {0} /\ k <= MaxDepth + 1 /\ before \in Seq(Note)
        /\ low \in Nat /\ up \in Nat /\ low <= up
        /\ FrameRight(exact, input, f, k, before, now, low) /\ f.phase = "rules"
        /\ Len(f.tried) < Count(input, f.pos)
        /\ a = Answers(input, f.pos, InContext(f, k))[Len(f.tried) + 1] /\ RefWon(a)
        /\ input \in Seq(Token)
    BY <1>7, <1>8, <1>9, RuleEngineAssumption DEF TryCtx
  <2>2. Kept(notes, g.noteCount) = before BY <1>10
  <2>3. now \o a.notes = now BY <1>9 DEF IInv
  <2>4. g = Consumed(f, a.to, a.nodes, more) BY <1>9
  <2> HIDE DEF f, k, before, low, now, a, more, up, g, to, nodes
  <2>5. FrameRight(exact, input, Consumed(f, a.to, a.nodes, more), k, before,
                   now \o a.notes, up)
    <3>1. CASE exact BY <1>9, <2>1, <3>1, FrameTakes
    <3>2. CASE ~exact BY <2>1, <3>2, FrameTakes
    <3> QED BY <3>1, <3>2
  <2>6. FrameRight(exact, input, g, k, before, now, up) BY <2>3, <2>4, <2>5
  <2> QED BY <2>2, <2>6 DEF k, now
<1>12. /\ input' = input /\ page' = page /\ notes' = notes /\ memos' = memos
       /\ frames' = Replaced(g) /\ peak' = up
  BY <1>2 DEF SucceededBefore
<1> HIDE DEF g, up
<1> QED BY <1>7, <1>10, <1>11, <1>12, MovesRight

LEMMA FallbackRight ==
  ASSUME IInv, NInv, NEW exact, EngineRight(exact), OnLimit(exact), Fallback
  PROVE  EngineRight(exact)'
<1>1. /\ FramesRight(exact) /\ Calling /\ page = "parsing" BY DEF EngineRight, Fallback, Calling
<1>2. Bodied BY <1>1, TopBodied DEF Calling
<1> DEFINE f == Top
           k == Len(frames)
           before == Kept(notes, Top.noteCount)
           to == Top.pos + 1
           nodes == <<Node("text", Page, Top.pos)>>
           more == ToSet(Top.tried)
           g == Consumed(Top, to, nodes, more)
           low == peak
           now == notes
<1>3. /\ FrameRight(exact, input, f, k, before, now, low) /\ f \in Frame /\ k \in Nat \ {0}
      /\ k <= MaxDepth + 1 /\ input \in Seq(Token) /\ f.phase = "rules" /\ low \in Nat
      /\ before \in Seq(Note) /\ now \in Seq(Note) /\ Here = RefToken(input, f.pos)
  BY <1>1, TopRight, HereIs DEF Calling, IInv
<1>4. OnPath(exact, RefBody(input, f.pos, InContext(f, k - 1)).top)
  BY <1>1, <1>2, PathHolds DEF BodyCtx
<1>5. Len(f.tried) >= Count(input, f.pos)
  <2>1. TriedRight(exact, input, f, k, low) BY <1>3 DEF FrameRight
  <2>2. Count(input, f.pos) \in Nat /\ Len(f.tried) \in Nat BY <1>3, <2>1, TriedHigher
  <2>3. Count(input, f.pos) = Len(Rules(Here)) BY <1>3 DEF Count, Turns
  <2> QED BY <2>2, <2>3 DEF Fallback, Untried
<1>6. RefToken(input, f.pos) # "end" /\ ~(f.tried # << >> /\ Last(f.tried) = "depth")
  BY <1>1, <1>3 DEF Fallback, LastTooDeep
<1>7. g \in Frame /\ Keeps(g, Top) /\ g.noteCount = Top.noteCount
  <2>1. Top.pos \in Pos /\ Top.tried \in Seq(ErrorKind) BY <1>3 DEF Frame
  <2>2. to \in Pos /\ Top.pos <= to BY <2>1 DEF Pos
  <2>3. nodes \in Nodes BY <2>1, NodeType, RuleEngineAssumption
  <2>4. more \in SUBSET ErrorKind BY <2>1 DEF ToSet
  <2> HIDE DEF to, nodes, more
  <2> QED BY <1>1, <2>2, <2>3, <2>4, ConsumedKeeps
<1>8. FrameRight(exact, input, g, Len(frames), Kept(notes, g.noteCount), notes, low)
  <2>1. Kept(notes, g.noteCount) = before BY <1>7
  <2>2. g = Consumed(f, f.pos + 1, <<Node("text", Page, f.pos)>>, ToSet(f.tried)) OBVIOUS
  <2> HIDE DEF f, k, before, low, now, g, to, nodes, more
  <2>3. FrameRight(exact, input,
                   Consumed(f, f.pos + 1, <<Node("text", Page, f.pos)>>, ToSet(f.tried)),
                   k, before, now, low)
    BY <1>3, <1>4, <1>5, <1>6, FrameText
  <2> QED BY <2>1, <2>2, <2>3 DEF k, now
<1>9. /\ input' = input /\ page' = page /\ notes' = notes /\ memos' = memos
      /\ frames' = Replaced(g) /\ peak' = low
  BY DEF Fallback
<1> HIDE DEF g, low
<1> QED BY <1>1, <1>2, <1>7, <1>8, <1>9, MovesRight

LEMMA StartRuleRight ==
  ASSUME IInv, NInv, NEW exact, EngineRight(exact), OnLimit(exact), StartRule
  PROVE  EngineRight(exact)'
<1>1. /\ FramesRight(exact) /\ Calling /\ Untried
      /\ MemosRight(exact)
  BY DEF EngineRight, StartRule, Fresh
<1> DEFINE q == Clone(Top, NextRule)
           k == Len(frames)
           up == Top.depth
           ns == notes
<1>2. /\ Top \in Frame /\ Top.phase = "rules" /\ Top.depth = k /\ k \in Nat \ {0}
      /\ k <= MaxDepth /\ Len(Top.tried) < Count(input, Top.pos)
      /\ NextRule = Turns(input, Top.pos)[Len(Top.tried) + 1]
      /\ NextRule \in Rule /\ NextRule # Page /\ Top.pos \in 1..Len(input)
      /\ Within(TryCtx) /\ TryCtx.depth = k /\ TryCtx.limit = MaxDepth
      /\ TryCtx.accepts = Top.accepts /\ TryCtx.zone = Top.zone
      /\ peak \in Nat /\ input \in Seq(Token) /\ notes \in Seq(Note)
      /\ NextAnswer.top \in Nat /\ OnPath(exact, NextAnswer.top) /\ page = "parsing"
  BY <1>1, CallingRight DEF IInv
<1>3. q \in Frame
  <2> DEFINE p == Top
             r == NextRule
  <2>1. p \in Frame /\ p.phase = "rules" /\ r \in Rule /\ k \in Nat \ {0} /\ Placed(p, k)
        /\ p.noteCount <= Len(notes)
    BY <1>2, TopFrame, StackIs
  <2> HIDE DEF p, r, k
  <2>2. Clone(p, r) \in Frame BY <2>1, CloneFrame
  <2> QED BY <2>2 DEF p, r
<1>4. /\ q.noteCount = Len(notes) /\ q.enclosing = peak /\ q.rule = NextRule
      /\ q.start = Top.pos /\ q.pos = Top.pos + 1 /\ q.nodes = << >> /\ q.errors = {}
      /\ q.visited = {} /\ q.phase = "body" /\ q.tried = << >>
      /\ q.accepts = (IF Shape[NextRule] = "group" THEN "item" ELSE Top.accepts)
      /\ q.zone = (IF Shape[NextRule] = "note" THEN "note" ELSE Top.zone)
  BY <1>2 DEF Clone, Frame
<1>5. q.accepts = RefInside(q.rule, TryCtx).accepts /\ q.zone = RefInside(q.rule, TryCtx).zone
  <2>1. TryCtx \in RefContexts BY <1>2 DEF Within
  <2> HIDE DEF q
  <2> QED BY <1>2, <1>4, <2>1, InsideFields
<1>6. InContext(q, k) = RefInside(NextRule, TryCtx)
  <2> DEFINE d == RefInside(NextRule, TryCtx)
             e == InContext(q, k)
  <2>1. Within(d) /\ d.depth = k /\ d.limit = MaxDepth /\ d.rule = NextRule
    <3> DEFINE c == TryCtx
               r == NextRule
    <3>1. Within(c) /\ r \in Rule /\ c.depth = k /\ c.limit = MaxDepth BY <1>2
    <3> HIDE DEF c, r, k
    <3>2. /\ Within(RefInside(r, c)) /\ RefInside(r, c).depth = c.depth
          /\ RefInside(r, c).limit = c.limit /\ RefInside(r, c).rule = r
      BY <3>1, InsideContext
    <3> QED BY <3>1, <3>2 DEF c, r
  <2>2. Within(e) /\ e.depth = k /\ e.limit = MaxDepth /\ e.rule = q.rule
        /\ e.accepts = q.accepts /\ e.zone = q.zone
    <3>1. q.rule \in Rule /\ q.accepts \in Accepts /\ q.zone \in Zones /\ k \in 0..MaxDepth
      BY <1>2, <1>3, RuleEngineAssumption DEF Frame
    <3> HIDE DEF q, k
    <3> QED BY <3>1, InContextIs
  <2>3. Alike(d, e) BY <1>4, <1>5, <2>1, <2>2 DEF Alike
  <2> HIDE DEF d, e
  <2>4. d = e BY <2>1, <2>2, <2>3, SameContext
  <2> QED BY <2>4 DEF d, e
<1>7. RunsFor(exact, input, Top, q, k)
  <2> DEFINE body == RefBody(input, q.start + 1, InContext(q, k))
  <2>1. ASSUME ~RefBodiless(q.rule, TryCtx) PROVE OnPath(exact, body.top)
    <3>1. NextAnswer = RefClosed(body, NextRule, Top.pos, TryCtx)
      BY <1>4, <1>6, <2>1 DEF NextAnswer, RefAttempt, RefAttemptOf
    <3> HIDE DEF body
    <3>2. NextAnswer.top = body.top BY <3>1, ClosedTop
    <3> QED BY <1>2, <3>2
  <2> HIDE DEF body
  <2>2. IF RefBodiless(q.rule, TryCtx)
          THEN q.phase = "body" /\ q.pos = q.start + 1 /\ q.errors = {}
          ELSE OnPath(exact, body.top)
    BY <1>4, <2>1
  <2> QED BY <1>2, <1>4, <1>5, <2>2 DEF RunsFor, TryCtx, body
<1>8. FrameRight(exact, input, q, k + 1, ns, ns, up)
  <2> DEFINE m == k + 1
  <2>1. /\ m \in Nat \ {0} /\ m <= MaxDepth + 1 /\ m - 1 = k /\ up \in Nat /\ m - 1 <= up
    BY <1>2, RuleEngineAssumption
  <2>2. /\ q.pos = FirstPos(q) /\ q.pos \in 1..(Len(input) + 1) /\ ns \in Seq(Note)
    BY <1>2, <1>4 DEF FirstPos
  <2> HIDE DEF q, k, up, ns, m
  <2>3. FrameRight(exact, input, q, m, ns, ns, up) BY <1>2, <1>3, <1>4, <2>1, <2>2, FrameStarts
  <2> QED BY <2>3 DEF m
<1>9. StackRight(exact, input, Append(frames, q), ns, up)
  <2>1. /\ q \in Frame /\ q.noteCount = Len(notes) /\ q.enclosing = peak
        /\ RunsFor(exact, input, Top, q, Len(frames))
        /\ FrameRight(exact, input, q, Len(frames) + 1, notes, notes, up)
    BY <1>3, <1>4, <1>7, <1>8
  <2> HIDE DEF q, up
  <2> QED BY <1>1, <2>1, ClonedRight
<1>10. /\ FailuresRight(exact, input, failures') /\ SuccessesRight(exact, input, successes')
       /\ WalksRight(exact, input, walks') /\ RefusalsRight(rejections')
       /\ BlocksRight(exact, blockFailures')
  BY <1>1 DEF MemosRight, memos, StartRule
<1> DEFINE fs == Append(frames, q)
<1>11. input' = input /\ page' = "parsing" /\ frames' = fs /\ notes' = ns /\ peak' = up
  BY <1>2 DEF StartRule
<1> HIDE DEF fs, ns, up
<1>12. StackRight(exact, input, fs, ns, up) BY <1>9 DEF fs
<1> QED BY <1>10, <1>11, <1>12, EngineArrives

--------------------
(* The page as a whole *)

LEMMA PageBody ==
  ASSUME IInv, NInv, NEW exact, FramesRight(exact),
         Len(frames) = 1
  PROVE  RefPage(input, MaxDepth) = RefBody(input, FirstPos(Top), BodyCtx)
<1>1. Top = frames[1] /\ frames[1].rule = Page BY FrameCounts
<1>2. Top.accepts = "none" /\ Top.zone = "page" /\ Top.rule = Page BY <1>1 DEF FramesRight, StackRight
<1>3. FirstPos(Top) = 1 BY <1>2 DEF FirstPos
<1>4. Len(frames) - 1 = 0 OBVIOUS
<1>5. BodyCtx = [rule |-> Page, depth |-> 0, accepts |-> "none", zone |-> "page",
                 limit |-> MaxDepth]
  BY <1>2, <1>4 DEF BodyCtx, InContext
<1> QED BY <1>3, <1>5 DEF RefPage

LEMMA EndsRight ==
  ASSUME NEW exact, EngineRight(exact), UNCHANGED <<input, frames, notes, peak, memos>>,
         Len(frames) = 1,
         LET ref == RefPage(input, MaxDepth)
         IN  \/ page' = "ok" /\ RefWon(ref) /\ Top.nodes = ref.nodes /\ notes = ref.notes
                /\ (exact => Top.errors = ref.errors)
             \/ page' = "error" /\ ~RefWon(ref) /\ ref.error = "depth"
  PROVE  EngineRight(exact)'
<1>1. FramesRight(exact)' /\ MemosRight(exact)'
  BY DEF EngineRight, FramesRight, StackRight, PlaceRight, NotesAt, PeakAt, MemosRight, FailuresRight,
    SuccessesRight, WalksRight, memos
<1>2. PageRight(exact)' BY DEF PageRight, Top, memos
<1> QED BY <1>1, <1>2 DEF EngineRight

LEMMA FinishPageRight ==
  ASSUME IInv, NInv, NEW exact, EngineRight(exact), FinishPage PROVE EngineRight(exact)'
<1>1. /\ FramesRight(exact) /\ BodyGoesOn
      /\ Here = "end" /\ Top.rule = Page
  BY DEF EngineRight, FinishPage
<1>2. Len(frames) = 1 /\ Top.noteCount = 0
  <2>1. ~(Len(frames) \in 2..Len(frames)) BY <1>1, FrameCounts
  <2>2. Len(frames) \in Nat \ {0} BY FrameCounts
  <2>3. Len(frames) = 1
    <3> DEFINE n == Len(frames)
    <3>1. n \in Nat \ {0} /\ ~(n \in 2..n) BY <2>1, <2>2
    <3> HIDE DEF n
    <3>2. n = 1 BY <3>1
    <3> QED BY <3>2 DEF n
  <2> QED BY <2>3, FrameCounts
<1>3. BodyCtx.rule = Page /\ notes \in Seq(Note) BY <1>1, TopRight DEF IInv
<1>4. RefBody(input, Top.pos, BodyCtx) = RefOk(Top.pos, << >>, {}, << >>, BodyCtx.depth)
  <2>1. ~Ungathered BY <1>1, RuleEngineAssumption DEF Ungathered, InBlock, BlockRule
  <2>2. ~AtNoteEnd /\ Here \notin Breaks BY <1>1, BodyGuards DEF AtNoteEnd
  <2>3. /\ ~RefCloses(BodyCtx, Here) /\ ~RefCut(BodyCtx, Here) /\ ~RefSteps(BodyCtx, Here)
        /\ RefRunsOut(BodyCtx, Here)
    BY <1>1, <2>1, <2>2, BodyGuards
  <2> QED BY <1>1, <1>3, <2>3, BodyHere
<1>5. PICK errs \in SUBSET ErrorKind, own \in Seq(Note), t \in Nat :
        /\ RefBody(input, FirstPos(Top), BodyCtx) = RefOk(Top.pos, Top.nodes, errs, own, t)
        /\ notes = Kept(notes, Top.noteCount) \o own
        /\ exact => errs = Top.errors /\ t <= peak
  BY <1>1, <1>4, WholeWon
<1>6. notes = own
  <2>1. Kept(notes, Top.noteCount) = << >> BY <1>2, <1>3 DEF Kept
  <2> QED BY <1>5, <2>1
<1> DEFINE ref == RefPage(input, MaxDepth)
<1>7. ref = RefOk(Top.pos, Top.nodes, errs, own, t) BY <1>1, <1>2, <1>5, PageBody
<1>8. RefWon(ref) /\ ref.nodes = Top.nodes /\ ref.notes = own /\ ref.errors = errs BY <1>7, OkFields
<1>9. page' = "ok" /\ UNCHANGED <<input, frames, notes, peak, memos>> BY DEF FinishPage
<1> HIDE DEF ref
<1>10. page' = "ok" /\ RefWon(ref) /\ Top.nodes = ref.nodes /\ notes = ref.notes
       /\ (exact => Top.errors = ref.errors)
  BY <1>5, <1>6, <1>8, <1>9
<1> QED BY <1>2, <1>9, <1>10, EndsRight DEF ref

LEMMA PageTooDeepRight ==
  ASSUME IInv, NInv, NEW exact, EngineRight(exact), PageTooDeep PROVE EngineRight(exact)'
<1>1. /\ FramesRight(exact) /\ LastTooDeep
      /\ Len(frames) = 1 /\ page' = "error" /\ UNCHANGED <<input, frames, notes, peak, memos>>
  BY DEF EngineRight, PageTooDeep, FailPage
<1> DEFINE error == "depth"
           top == peak
<1>2. BodyLost(exact, error, top) /\ top \in Nat /\ peak <= top BY <1>1, StuckLost DEF IInv
<1> HIDE DEF error, top
<1>3. /\ ~RefWon(RefBody(input, FirstPos(Top), BodyCtx))
      /\ RefBody(input, FirstPos(Top), BodyCtx).error = error
  BY <1>1, <1>2, WholeLost
<1>4. ~RefWon(RefPage(input, MaxDepth)) /\ RefPage(input, MaxDepth).error = "depth"
  BY <1>1, <1>3, PageBody DEF error
<1> QED BY <1>1, <1>4, EndsRight

\* A page that has not been begun.
LEMMA StartRight ==
  ASSUME Starts, rejections = {}, NEW exact PROVE EngineRight(exact)
<1> DEFINE f == PageFrame
           k == 1
           before == << >>
           top == 0
           fs == <<PageFrame>>
<1>1. IInv BY StartEstablishes
<1>2. frames = fs /\ Len(fs) = 1 /\ fs[1] = f /\ notes = << >> /\ peak = 0 /\ input \in Seq(Token)
  BY DEF Starts
<1>3. f \in Frame BY <1>1, <1>2, TopFrame
<1>4. FrameRight(exact, input, f, k, before, before, top)
  <2>1. /\ k \in Nat \ {0} /\ k <= MaxDepth + 1 /\ before \in Seq(Note) /\ top \in Nat
        /\ k - 1 <= top
    BY RuleEngineAssumption
  <2>2. /\ f.pos = FirstPos(f) /\ f.pos \in 1..(Len(input) + 1)
        /\ f.nodes = << >> /\ f.errors = {} /\ f.visited = {} /\ f.phase = "body"
        /\ f.tried = << >>
    <3>1. Len(input) \in Nat BY <1>2
    <3> QED BY <3>1 DEF PageFrame, FirstPos
  <2> HIDE DEF f, k, before, top
  <2> QED BY <1>2, <1>3, <2>1, <2>2, FrameStarts
<1>5. FramesRight(exact)
  <2>1. PlaceRight(exact, input, fs, << >>, 0, 1)
    <3>1. NotesAt(fs, << >>, 1) = << >> /\ PeakAt(fs, 0, 1) = 0 BY <1>2 DEF NotesAt, PeakAt
    <3>2. Kept(<< >>, fs[1].noteCount) = << >> BY <1>2 DEF Kept, PageFrame
    <3> QED BY <1>2, <1>4, <3>1, <3>2 DEF PlaceRight
  <2>2. fs[1].accepts = "none" /\ fs[1].zone = "page" BY <1>2 DEF PageFrame
  <2>3. 1..Len(fs) = {1} /\ 1..(Len(fs) - 1) = {} BY <1>2
  <2> HIDE DEF fs
  <2> QED BY <1>2, <2>1, <2>2, <2>3 DEF FramesRight, StackRight
<1>6. MemosRight(exact)
  BY DEF Starts, MemosRight, FailuresRight, SuccessesRight, WalksRight, RefusalsRight, BlocksRight
<1>7. PageRight(exact) BY DEF Starts, PageRight
<1> QED BY <1>5, <1>6, <1>7 DEF EngineRight

--------------------
(* The memos change nothing *)

\* A rule that is passed over with an answer of the reference's.
LEMMA SparedRight ==
  ASSUME IInv, NInv, EngineRight(TRUE),
         RejectedBefore \/ BlockEndedBefore \/ BlockTooDeepBefore, SparesExactly
  PROVE  EngineRight(TRUE)'
<1>1. OnLimit(TRUE) BY DEF OnLimit, OnPath
<1>2. /\ FramesRight(TRUE) /\ Calling /\ Untried
      /\ input' = input /\ page' = page /\ notes' = notes /\ memos' = memos
  BY DEF EngineRight, RejectedBefore, BlockEndedBefore, BlockTooDeepBefore, Fresh
<1>3. TryCtx = Ctx(Top) /\ peak \in Nat BY <1>1, <1>2, CallingRight DEF TryCtx, InContext, Ctx
<1>4. ASSUME NEW error \in ErrorKind, NEW up \in Nat, peak <= up, peak' = up,
             frames' = Replaced(Failed(Top, error)), Spared(error)
      PROVE  EngineRight(TRUE)'
  <2>1. LostRight(TRUE, NextAnswer, error, up) BY <1>3, <1>4 DEF Spared, LostRight, NextAnswer
  <2> QED BY <1>1, <1>2, <1>4, <2>1, FailedHere
<1>5. CASE RejectedBefore
  <2> DEFINE error == "partial"
  <2>1. error \in ErrorKind /\ frames' = Replaced(Failed(Top, error)) /\ Spared(error)
    BY <1>5 DEF RejectedBefore, ErrorKind, SparesExactly
  <2>2. peak' = peak /\ peak <= peak BY <1>3, <1>5 DEF RejectedBefore
  <2> HIDE DEF error
  <2> QED BY <1>3, <1>4, <2>1, <2>2
<1>6. CASE BlockEndedBefore
  <2> DEFINE error == "end"
  <2>1. error \in ErrorKind /\ frames' = Replaced(Failed(Top, error)) /\ Spared(error)
    BY <1>6 DEF BlockEndedBefore, ErrorKind, SparesExactly
  <2>2. peak' = peak /\ peak <= peak BY <1>3, <1>6 DEF BlockEndedBefore
  <2> HIDE DEF error
  <2> QED BY <1>3, <1>4, <2>1, <2>2
<1>7. CASE BlockTooDeepBefore
  <2> DEFINE error == "depth"
             up == Larger(peak, MaxDepth + 1)
  <2>1. error \in ErrorKind /\ frames' = Replaced(Failed(Top, error)) /\ Spared(error)
    BY <1>7 DEF BlockTooDeepBefore, ErrorKind, SparesExactly
  <2>2. peak' = up BY <1>7 DEF BlockTooDeepBefore
  <2>3. up \in Nat /\ peak <= up
    <3> DEFINE b == MaxDepth + 1
    <3>1. b \in Nat BY RuleEngineAssumption
    <3> HIDE DEF b
    <3>2. Larger(peak, b) \in Nat /\ Larger(peak, b) >= peak BY <1>3, <3>1, LargerType
    <3> QED BY <1>3, <3>2 DEF b
  <2> HIDE DEF error, up
  <2> QED BY <1>4, <2>1, <2>2, <2>3
<1> QED BY <1>5, <1>6, <1>7

\* Every other step keeps to the reference.
LEMMA PreciseRight ==
  ASSUME IInv, NInv, NEW exact, EngineRight(exact), OnLimit(exact), [Next]_vars,
         ~RejectedBefore, ~BlockEndedBefore, ~BlockTooDeepBefore
  PROVE  EngineRight(exact)'
<1>1. CASE CloseAccepted BY <1>1, CloseAcceptedRight
<1>2. CASE CloseRejected BY <1>2, CloseRejectedRight
<1>3. CASE RefuseNested BY <1>3, RefuseNestedRight
<1>4. CASE MeetBreak \/ MeetNoteEnd BY <1>4, CutRight
<1>5. CASE MeetEnd BY <1>5, MeetEndRight
<1>6. CASE FinishPage BY <1>6, FinishPageRight
<1>7. CASE StepBreak BY <1>7, StepBreakRight
<1>8. CASE KnownWalk BY <1>8, KnownWalkRight
<1>9. CASE TooDeep BY <1>9, TooDeepRight
<1>10. CASE Consume BY <1>10, ConsumeRight
<1>11. CASE FailedBefore BY <1>11, FailedBeforeRight
<1>12. CASE SucceededBefore BY <1>12, SucceededBeforeRight
<1>13. CASE StartRule BY <1>13, StartRuleRight
<1>14. CASE FallbackTooDeep \/ RunOffEnd BY <1>14, StuckRight
<1>15. CASE PageTooDeep BY <1>15, PageTooDeepRight
<1>16. CASE Fallback BY <1>16, FallbackRight
<1>17. CASE UNCHANGED vars
  <2>1. UNCHANGED <<input, frames, notes, peak, page, failures, successes, walks, rejections,
                    blockFailures>>
    BY <1>17 DEF vars, memos
  <2>2. FramesRight(exact)' BY <2>1 DEF EngineRight, FramesRight
  <2>3. MemosRight(exact)' BY <2>1 DEF EngineRight, MemosRight
  <2>4. PageRight(exact)' BY <2>1 DEF EngineRight, PageRight, Top
  <2> QED BY <2>2, <2>3, <2>4 DEF EngineRight
<1> QED BY <1>1, <1>2, <1>3, <1>4, <1>5, <1>6, <1>7, <1>8, <1>9, <1>10, <1>11, <1>12, <1>13,
     <1>14, <1>15, <1>16, <1>17 DEF Next

LEMMA UsedMayUse ==
  ASSUME NEW memo, NEW key \in MemoKey, key \in DOMAIN memo, memo[key].height \in Nat,
         NEW depth \in UsedAt(memo, key)
  PROVE  MayUse(key, memo[key].height, depth) /\ Lookup(key, KeyCtx(key, depth), depth)
<1>1. key.depth = {} \/ \E d \in 0..MaxDepth : key.depth = {d} BY DEF MemoKey
<1>2. MaxDepth \in Nat BY RuleEngineAssumption
<1>3. depth \in 0..MaxDepth /\ MayUse(key, memo[key].height, depth)
  <2>1. CASE key.depth = {} BY <1>2, <2>1 DEF UsedAt, MayUse
  <2>2. CASE key.depth # {}
    <3>1. PICK d \in 0..MaxDepth : key.depth = {d} BY <1>1, <2>2
    <3>2. depth = d BY <2>2, <3>1 DEF UsedAt
    <3> QED BY <3>1, <3>2 DEF MayUse
  <2> QED BY <2>1, <2>2
<1> QED BY <1>3, KeyContexts

LEMMA FailuresRead ==
  ASSUME IInv, NEW exact, EngineRight(exact) PROVE FailuresFollow(exact)
<1> SUFFICES ASSUME NEW key \in DOMAIN failures, NEW depth \in UsedAt(failures, key),
                    OnPath(exact, RefAttempt(input, key.rule, key.pos, KeyCtx(key, depth)).top)
             PROVE  /\ ~RefWon(RefAttempt(input, key.rule, key.pos, KeyCtx(key, depth)))
                    /\ RefAttempt(input, key.rule, key.pos, KeyCtx(key, depth)).error
                          = failures[key].error
  BY DEF FailuresFollow
<1> DEFINE entry == failures[key]
           c == KeyCtx(key, depth)
           up == depth + entry.height
<1>1. /\ key \in MemoKey /\ entry \in FailureEntries /\ FailureRight(exact, input, key, entry)
      /\ input \in Seq(Token)
  BY DEF IInv, MemosOK, Memo, EngineRight, MemosRight, FailuresRight
<1>2. entry.height \in Nat BY <1>1 DEF FailureEntries
<1>3. MayUse(key, entry.height, depth) /\ Lookup(key, c, depth) BY <1>1, <1>2, UsedMayUse
<1>4. up \in Nat /\ depth + entry.height <= up
  <2>1. depth \in Nat BY <1>3 DEF MayUse
  <2> QED BY <1>2, <2>1
<1> HIDE DEF entry, c, up
<1>5. /\ LostRight(exact, RefAttempt(input, key.rule, key.pos, c), entry.error, up)
      /\ RefAttempt(input, key.rule, key.pos, c).error = entry.error
  BY <1>1, <1>3, <1>4, UseFailure DEF c
<1> QED BY <1>5 DEF LostRight, entry, c

LEMMA SuccessesRead ==
  ASSUME IInv, NEW exact, EngineRight(exact) PROVE SuccessesFollow(exact)
<1> SUFFICES ASSUME NEW key \in DOMAIN successes, NEW depth \in UsedAt(successes, key),
                    OnPath(exact, RefAttempt(input, key.rule, key.pos, KeyCtx(key, depth)).top)
             PROVE  LET ref == RefAttempt(input, key.rule, key.pos, KeyCtx(key, depth))
                    IN  /\ RefWon(ref) /\ ref.nodes = successes[key].nodes
                        /\ ref.to = key.pos + successes[key].length
                        /\ exact => ref.errors = successes[key].errors
  BY DEF SuccessesFollow
<1> DEFINE entry == successes[key]
           c == KeyCtx(key, depth)
<1>1. /\ key \in MemoKey /\ entry \in SuccessEntries
      /\ SuccessRight(exact, input, key, entry) /\ input \in Seq(Token)
  BY DEF IInv, MemosOK, Memo, EngineRight, MemosRight, SuccessesRight
<1>2. entry.height \in Nat BY <1>1 DEF SuccessEntries
<1>3. MayUse(key, entry.height, depth) /\ Lookup(key, c, depth) BY <1>1, <1>2, UsedMayUse
<1> HIDE DEF entry, c
<1>4. SavedRight(exact, RefAttempt(input, key.rule, key.pos, c), entry,
                 key.pos + entry.length, depth + entry.height)
  BY <1>1, <1>3, UseSuccess DEF c
<1> QED BY <1>4 DEF SavedRight, entry, c

\* What KnownWalk refuses would fail, and run to the end of the input.
LEMMA WalksRead ==
  ASSUME IInv, NInv, NEW exact, EngineRight(exact), OnLimit(exact) PROVE WalksFollow
<1> SUFFICES ASSUME AtToken, WalkEntry # {}
             PROVE  /\ ~RefWon(RefBody(input, Top.pos, Ctx(Top)))
                    /\ RefBody(input, Top.pos, Ctx(Top)).error = "end"
  BY DEF WalksFollow
<1>1. /\ FramesRight(exact) /\ WalksRight(exact, input, walks) BY DEF EngineRight, MemosRight
<1>2. PICK key \in WalkEntry : TRUE OBVIOUS
<1> DEFINE error == "end"
           top == Larger(peak, Top.depth + walks[key].height)
<1>3. BodyLost(exact, error, top) BY <1>1, <1>2, KnownLost
<1>4. BodyCtx = Ctx(Top)
  <2>1. Top.depth = Len(frames) - 1 BY <1>1, BodyGuards DEF AtToken
  <2> QED BY <2>1 DEF BodyCtx, InContext, Ctx
<1> QED BY <1>3, <1>4 DEF BodyLost

LEMMA PageRead ==
  ASSUME IInv, NEW exact, EngineRight(exact) PROVE PageFollows
<1> SUFFICES ASSUME page # "parsing" PROVE OutcomeMatches(RefPage(input, MaxDepth))
  BY DEF PageFollows
<1>1. PageRight(exact) /\ page \in {"parsing", "ok", "error"} BY DEF EngineRight, IInv
<1> QED BY <1>1 DEF PageRight, OutcomeMatches

\* Followed exactly, the reference is what the properties ask for.
LEMMA ExactSound ==
  ASSUME IInv, NInv, EngineRight(TRUE)
  PROVE  PageExact /\ FailuresFollow(TRUE) /\ SuccessesFollow(TRUE) /\ WalksFollow
<1>1. /\ PageFollows /\ FailuresFollow(TRUE) /\ SuccessesFollow(TRUE) /\ WalksFollow
  BY PageRead, FailuresRead, SuccessesRead, WalksRead DEF OnLimit, OnPath
<1>2. PageExact
  <2>1. PageRight(TRUE) BY DEF EngineRight
  <2> SUFFICES ASSUME page # "parsing"
               PROVE  /\ OutcomeMatches(RefPage(input, MaxDepth))
                      /\ RefWon(RefPage(input, MaxDepth)) =>
                            Top.errors = RefPage(input, MaxDepth).errors
    BY DEF PageExact
  <2> QED BY <1>1, <2>1 DEF PageFollows, PageRight, OutcomeMatches
<1> QED BY <1>1, <1>2

LEMMA UnaskedSound ==
  ASSUME IInv, NInv, EngineRight(TRUE) PROVE FailuresSound /\ SuccessesSound
<1>1. FailuresFollow(TRUE) /\ SuccessesFollow(TRUE) BY ExactSound
<1>2. \A top : OnPath(TRUE, top) BY DEF OnPath
<1> QED BY <1>1, <1>2 DEF FailuresFollow, FailuresSound, SuccessesFollow, SuccessesSound

LEMMA InitStarts ==
  ASSUME Init, NEW exact PROVE IInv /\ NInv /\ EngineRight(exact)
<1>1. input \in Seq(Token)
  <2>1. PICK n \in 0..MaxTokens : input \in [1..n -> Token] BY DEF Init
  <2> QED BY <2>1
<1>2. Starts /\ rejections = {} BY <1>1 DEF Init, Starts
<1> QED BY <1>2, StartEstablishes, StartsFit, StartRight

LEMMA MemosGrow ==
  ASSUME [Next]_vars
  PROVE  /\ rejections \subseteq rejections' /\ blockFailures \subseteq blockFailures'
         /\ input' = input
<1>1. CASE UNCHANGED vars BY <1>1 DEF vars, memos
<1>2. CASE CloseAccepted \/ CloseRejected BY <1>2 DEF CloseAccepted, CloseRejected
<1>3. CASE RefuseNested \/ MeetBreak \/ MeetNoteEnd \/ MeetEnd \/ KnownWalk \/ TooDeep
           \/ FallbackTooDeep \/ RunOffEnd
  <2>1. ASSUME NEW f, NEW error, NEW top, Fail(f, error, top)
        PROVE  rejections \subseteq rejections' /\ blockFailures \subseteq blockFailures'
    BY <2>1 DEF Fail, BlockFailures
  <2> QED
    BY <1>3, <2>1 DEF RefuseNested, MeetBreak, MeetNoteEnd, MeetEnd, KnownWalk, TooDeep,
      FallbackTooDeep, RunOffEnd
<1>4. CASE FinishPage \/ PageTooDeep BY <1>4 DEF FinishPage, PageTooDeep, FailPage, memos
<1>5. CASE \/ StepBreak \/ Consume \/ RejectedBefore \/ FailedBefore \/ SucceededBefore
           \/ BlockEndedBefore \/ BlockTooDeepBefore \/ StartRule \/ Fallback
  BY <1>5 DEF StepBreak, Consume, RejectedBefore, FailedBefore, SucceededBefore, BlockEndedBefore,
    BlockTooDeepBefore, StartRule, Fallback, memos
<1> QED BY <1>1, <1>2, <1>3, <1>4, <1>5 DEF Next

LEMMA LimitStays ==
  ASSUME input' = input
  PROVE  /\ OnLimit(FALSE) <=> WithinLimit
         /\ WithinLimit' <=> WithinLimit
  BY DEF OnLimit, OnPath, WithinLimit

\* While nothing is asked of the two memos, every step keeps to the reference.
LEMMA UnaskedStep ==
  ASSUME IInv, NInv, Unasked => EngineRight(TRUE), [Next]_vars
  PROVE  (Unasked => EngineRight(TRUE))'
<1> SUFFICES ASSUME Unasked' PROVE EngineRight(TRUE)' OBVIOUS
<1>1. Unasked /\ EngineRight(TRUE) BY MemosGrow DEF Unasked
<1>2. ~RejectedBefore /\ ~BlockEndedBefore /\ ~BlockTooDeepBefore
  BY <1>1 DEF Unasked, RejectedBefore, BlockEndedBefore, BlockTooDeepBefore, EndedBefore,
    TooDeepBefore
<1>3. OnLimit(TRUE) BY DEF OnLimit, OnPath
<1> QED BY <1>1, <1>2, <1>3, PreciseRight

\* Within the limit refusals do no harm.
LEMMA LimitStep ==
  ASSUME IInv, NInv, WithinLimit => EngineRight(FALSE), [Next]_vars,
         BlockEndedBefore => BlockFailuresDeterministic
  PROVE  (WithinLimit => EngineRight(FALSE))'
<1>1. input' = input BY MemosGrow
<1> SUFFICES ASSUME WithinLimit PROVE EngineRight(FALSE)' BY <1>1, LimitStays
<1>2. EngineRight(FALSE) /\ OnLimit(FALSE) BY <1>1, LimitStays
<1>3. CASE RejectedBefore BY <1>2, <1>3, RejectedBeforeRight
<1>4. CASE BlockEndedBefore BY <1>2, <1>4, BlockEndedBeforeRight
<1>5. ~BlockTooDeepBefore BY <1>2, NotTooDeepBefore
<1> QED BY <1>2, <1>3, <1>4, <1>5, PreciseRight

\* What the innermost parser, or its parent, goes on with.
LEMMA UnwarnedOn ==
  ASSUME IInv, \A k \in 1..Len(frames) : Unwarned(frames[k].errors),
         NEW g, Unwarned(g.errors),
         frames' = Replaced(g) \/ (frames' = Returned(g) /\ Len(frames) > 1)
  PROVE  \A k \in 1..Len(frames') : Unwarned(frames'[k].errors)
<1>1. frames \in Seq(Frame) /\ Len(frames) \in Nat /\ Len(frames) > 0 BY DEF IInv, Stack
<1>2. CASE frames' = Replaced(g)
  <2>1. Len(frames') = Len(frames)
        /\ \A k \in 1..Len(frames) : frames'[k] = IF k = Len(frames) THEN g ELSE frames[k]
    BY <1>1, <1>2 DEF Replaced
  <2> QED BY <2>1
<1>3. CASE frames' = Returned(g) /\ Len(frames) > 1
  <2> DEFINE s == SubSeq(frames, 1, Len(frames) - 2)
  <2>1. s \in Seq(Frame \cup {g}) /\ s \in Seq(Frame) /\ Len(frames) - 2 \in Nat
    <3>1. s \in Seq(Frame) /\ Len(frames) - 2 \in Nat BY <1>1, <1>3
    <3> HIDE DEF s
    <3>2. s \in Seq(Frame \cup {g}) BY <3>1
    <3> QED BY <3>1, <3>2
  <2>2. Len(s) = Len(frames) - 2
    <3>1. \A n \in Nat : n <= Len(frames) => Len(SubSeq(frames, 1, n)) = n BY <1>1
    <3>2. Len(frames) - 2 <= Len(frames) BY <1>1
    <3> QED BY <2>1, <3>1, <3>2
  <2>3. \A k \in 1..(Len(frames) - 2) : s[k] = frames[k] BY <1>1, <2>1
  <2>4. frames' = Append(s, g) BY <1>3 DEF Returned
  <2> HIDE DEF s
  <2>5. /\ Len(frames') = Len(frames) - 1
        /\ \A k \in 1..(Len(frames) - 1) :
              frames'[k] = IF k = Len(frames) - 1 THEN g ELSE frames[k]
    BY <1>1, <2>1, <2>2, <2>3, <2>4
  <2> QED BY <1>1, <2>5
<1> QED BY <1>2, <1>3

\* A rule fails, or is passed over: warnings are only gathered by what succeeds.
LEMMA FailedUnwarned ==
  ASSUME IInv, NoDepthWarning, NEW error, successes' = successes,
         \/ frames' = Replaced(Failed(Top, error))
         \/ Len(frames) > 1 /\ frames' = Returned(Failed(Parent, error))
  PROVE  NoDepthWarning'
<1>1. /\ \A k \in 1..Len(frames) : frames[k] \in Frame /\ Unwarned(frames[k].errors)
      /\ Top = frames[Len(frames)] /\ Len(frames) \in Nat \ {0}
  BY TopFrame DEF IInv, Stack, NoDepthWarning
<1>2. ASSUME NEW k \in 1..Len(frames) PROVE Unwarned(Failed(frames[k], error).errors)
  <2>1. frames[k] \in Frame /\ Unwarned(frames[k].errors) BY <1>1
  <2>2. Failed(frames[k], error).errors = frames[k].errors BY <2>1 DEF Failed, Frame
  <2> QED BY <2>1, <2>2
<1>3. CASE frames' = Replaced(Failed(Top, error))
  <2>1. Unwarned(Failed(Top, error).errors) BY <1>1, <1>2
  <2>2. \A k \in 1..Len(frames') : Unwarned(frames'[k].errors)
    BY <1>3, <2>1, UnwarnedOn DEF NoDepthWarning
  <2> QED BY <2>2 DEF NoDepthWarning
<1>4. CASE Len(frames) > 1 /\ frames' = Returned(Failed(Parent, error))
  <2>1. Len(frames) - 1 \in 1..Len(frames) BY <1>1, <1>4
  <2>2. Unwarned(Failed(Parent, error).errors) BY <1>2, <2>1 DEF Parent
  <2>3. \A k \in 1..Len(frames') : Unwarned(frames'[k].errors)
    BY <1>4, <2>2, UnwarnedOn DEF NoDepthWarning
  <2> QED BY <2>3 DEF NoDepthWarning
<1> QED BY <1>3, <1>4

\* A rule succeeds, or a token is text.
LEMMA ConsumedUnwarned ==
  ASSUME IInv, NoDepthWarning, NEW k \in 1..Len(frames), NEW to, NEW nodes,
         NEW errors, Unwarned(errors),
         LET g == Consumed(frames[k], to, nodes, errors)
         IN  frames' = Replaced(g) \/ (frames' = Returned(g) /\ Len(frames) > 1)
  PROVE  \A i \in 1..Len(frames') : Unwarned(frames'[i].errors)
<1> DEFINE f == frames[k]
           g == Consumed(f, to, nodes, errors)
<1>1. f \in Frame /\ Unwarned(f.errors) BY DEF IInv, Stack, NoDepthWarning
<1>2. g.errors = f.errors \cup errors BY <1>1, ConsumedFields
<1>3. Unwarned(g.errors) BY <1>1, <1>2 DEF Unwarned
<1>4. frames' = Replaced(g) \/ (frames' = Returned(g) /\ Len(frames) > 1) OBVIOUS
<1> HIDE DEF g
<1> QED BY <1>3, <1>4, UnwarnedOn DEF NoDepthWarning

\* None of the rules tried has met the limit.
LEMMA TriedUnwarned ==
  ASSUME IInv, NInv, EngineRight(FALSE), Calling
  PROVE  Unwarned(ToSet(Top.tried)) /\ ToSet(Top.tried) \in SUBSET ErrorKind
<1>1. FramesRight(FALSE) BY DEF EngineRight
<1>2. FrameRight(FALSE, input, Top, Len(frames), Kept(notes, Top.noteCount), notes, peak)
      /\ Top \in Frame
  BY <1>1, TopRight
<1>3. TriedRight(FALSE, input, Top, Len(frames), peak) BY <1>2 DEF Calling, FrameRight
<1>4. Top.tried \in Seq(ErrorKind) BY <1>2 DEF Frame
<1>5. \A j \in 1..Len(Top.tried) : Top.tried[j] # "depth" /\ Top.tried[j] \in ErrorKind
  BY <1>3, <1>4 DEF TriedRight, LostRight
<1>6. ToSet(Top.tried) = {Top.tried[j] : j \in 1..Len(Top.tried)} BY <1>4 DEF ToSet
<1> QED BY <1>5, <1>6 DEF Unwarned

LEMMA NoDepthStep ==
  ASSUME IInv, NInv, EngineRight(FALSE), NoDepthWarning, [Next]_vars PROVE NoDepthWarning'
<1>1. /\ Top = frames[Len(frames)] /\ Len(frames) \in Nat \ {0} /\ Top \in Frame
      /\ \A k \in 1..Len(frames) : Unwarned(frames[k].errors)
  BY TopFrame DEF NoDepthWarning
<1>2. CASE CloseAccepted
  <2>1. Len(frames) > 1 /\ Len(frames) - 1 \in 1..Len(frames) /\ Len(frames) \in 1..Len(frames)
    <3>1. BodyCloses(Top) BY <1>2 DEF CloseAccepted
    <3> QED BY <1>1, <3>1, ClosingFrame
  <2>2. Unwarned(Top.errors) BY <1>1, <2>1
  <2>3. frames' = Returned(Consumed(frames[Len(frames) - 1], EndOf(Top), Result(Top), Top.errors))
    BY <1>2 DEF CloseAccepted
  <2>4. \A k \in 1..Len(frames') : Unwarned(frames'[k].errors) BY <2>1, <2>2, <2>3, ConsumedUnwarned
  <2>5. \A key \in DOMAIN successes' : Unwarned(successes'[key].errors)
    <3>1. CASE successes' = successes BY <3>1 DEF NoDepthWarning
    <3>2. CASE successes' # successes
      <4> DEFINE p == frames[Len(frames) - 1]
                 entry == Outcome(Top, p)
      <4>1. entry.errors = Top.errors BY DEF Outcome
      <4>2. PICK s : successes' = With(successes, {s}, entry)
        BY <1>2, <3>2 DEF CloseAccepted, Remember
      <4> HIDE DEF entry
      <4> QED BY <2>2, <4>1, <4>2 DEF With, NoDepthWarning
    <3> QED BY <3>1, <3>2
  <2> QED BY <2>4, <2>5 DEF NoDepthWarning
<1>3. CASE CloseRejected
  <2>1. Len(frames) > 1 BY <1>1, <1>3, ClosingFrame DEF CloseRejected
  <2> QED BY <1>3, <2>1, FailedUnwarned DEF CloseRejected, Parent
<1>4. CASE \/ RefuseNested \/ MeetBreak \/ MeetNoteEnd \/ MeetEnd \/ KnownWalk \/ TooDeep
           \/ FallbackTooDeep \/ RunOffEnd
  <2>1. ASSUME NEW f, NEW error, NEW top, Fail(f, error, top) PROVE NoDepthWarning'
    <3>1. /\ frames' = Returned(Failed(Parent, error)) /\ Len(frames) > 1
          /\ successes' = successes
      BY <2>1 DEF Fail, Parent
    <3> QED BY <3>1, FailedUnwarned
  <2> QED
    BY <1>4, <2>1 DEF RefuseNested, MeetBreak, MeetNoteEnd, MeetEnd, KnownWalk, TooDeep,
      FallbackTooDeep, RunOffEnd
<1>5. CASE FinishPage \/ PageTooDeep \/ UNCHANGED vars
  BY <1>5 DEF FinishPage, PageTooDeep, FailPage, vars, memos, NoDepthWarning
<1>6. CASE StepBreak \/ Consume
  <2>1. PICK g : frames' = Replaced(g) /\ g.errors = Top.errors
    <3>1. CASE StepBreak
      <4> DEFINE g == [Top EXCEPT !.pos = @ + 1]
      <4>1. frames' = Replaced(g) /\ g.errors = Top.errors BY <1>1, <3>1 DEF StepBreak, Frame
      <4> QED BY <4>1
    <3>2. CASE Consume
      <4> DEFINE g == [Top EXCEPT !.depth = @ + 1, !.phase = "rules",
                                  !.visited = IF AsksWalk THEN @ \cup {Top.pos} ELSE @]
      <4>1. frames' = Replaced(g) /\ g.errors = Top.errors BY <1>1, <3>2 DEF Consume, Frame
      <4> QED BY <4>1
    <3> QED BY <1>6, <3>1, <3>2
  <2>2. successes' = successes /\ Unwarned(g.errors)
    BY <1>1, <1>6, <2>1 DEF StepBreak, Consume, memos
  <2> QED BY <1>1, <2>1, <2>2, UnwarnedOn DEF NoDepthWarning
<1>7. CASE RejectedBefore \/ FailedBefore \/ BlockEndedBefore \/ BlockTooDeepBefore
  <2>1. PICK error : frames' = Replaced(Failed(Top, error))
    BY <1>7 DEF RejectedBefore, FailedBefore, BlockEndedBefore, BlockTooDeepBefore
  <2>2. successes' = successes
    BY <1>7 DEF RejectedBefore, FailedBefore, BlockEndedBefore, BlockTooDeepBefore, memos
  <2> QED BY <2>1, <2>2, FailedUnwarned
<1>8. CASE SucceededBefore
  <2>1. PICK key \in DOMAIN successes :
          frames' = Replaced(Consumed(Top, Top.pos + successes[key].length,
                                      successes[key].nodes, successes[key].errors))
    BY <1>8 DEF SucceededBefore, SuccessEntry, Usable
  <2>2. successes' = successes /\ Unwarned(successes[key].errors) /\ Len(frames) \in 1..Len(frames)
    BY <1>1, <1>8, <2>1 DEF SucceededBefore, memos, NoDepthWarning
  <2>3. \A k \in 1..Len(frames') : Unwarned(frames'[k].errors) BY <1>1, <2>1, <2>2, ConsumedUnwarned
  <2> QED BY <2>2, <2>3 DEF NoDepthWarning
<1>9. CASE StartRule
  <2>1. frames' = Append(frames, Clone(Top, NextRule)) /\ successes' = successes
    BY <1>9 DEF StartRule, memos
  <2>2. Clone(Top, NextRule).errors = {} /\ frames \in Seq(Frame)
    BY <1>1 DEF Clone, Frame, IInv, Stack
  <2> DEFINE g == Clone(Top, NextRule)
  <2> HIDE DEF g
  <2>3. frames \in Seq(Frame \cup {g}) BY <2>2
  <2>4. /\ Len(frames') = Len(frames) + 1 /\ frames'[Len(frames) + 1] = g
        /\ \A k \in 1..Len(frames) : frames'[k] = frames[k]
    BY <1>1, <2>1, <2>3 DEF g
  <2>5. Unwarned(g.errors) BY <2>2 DEF g, Unwarned
  <2>6. ASSUME NEW k \in 1..Len(frames') PROVE Unwarned(frames'[k].errors)
    <3>1. k = Len(frames) + 1 \/ k \in 1..Len(frames) BY <1>1, <2>4
    <3> QED BY <1>1, <2>4, <2>5, <3>1
  <2> QED BY <2>1, <2>6 DEF NoDepthWarning
<1>10. CASE Fallback
  <2>1. Unwarned(ToSet(Top.tried)) /\ successes' = successes /\ Len(frames) \in 1..Len(frames)
    BY <1>1, <1>10, TriedUnwarned DEF Fallback, memos
  <2>2. frames' = Replaced(Consumed(Top, Top.pos + 1, <<Node("text", Page, Top.pos)>>,
                                    ToSet(Top.tried)))
    BY <1>10 DEF Fallback
  <2>3. \A k \in 1..Len(frames') : Unwarned(frames'[k].errors) BY <1>1, <2>1, <2>2, ConsumedUnwarned
  <2> QED BY <2>1, <2>3 DEF NoDepthWarning
<1> QED BY <1>2, <1>3, <1>4, <1>5, <1>6, <1>7, <1>8, <1>9, <1>10 DEF Next

LEMMA FaithfulStarts ==
  ASSUME Starts, rejections = {} PROVE Faithful
<1>1. NoDepthWarning /\ blockFailures = {} BY DEF Starts, NoDepthWarning, PageFrame, Unwarned
<1> QED BY <1>1, StartRight DEF Faithful

LEMMA FaithfulStep ==
  ASSUME IInv, NInv, Faithful, [Next]_vars PROVE Faithful'
<1>1. input' = input /\ blockFailures \subseteq blockFailures' BY MemosGrow
<1>2. (Unasked => EngineRight(TRUE))' BY UnaskedStep DEF Faithful
<1>3. ASSUME NoneEnded', WithinLimit'
      PROVE  (EngineRight(FALSE) /\ blockFailures = {} /\ NoDepthWarning)'
  <2>1. NoneEnded /\ WithinLimit BY <1>1, <1>3, LimitStays DEF NoneEnded
  <2>2. EngineRight(FALSE) /\ blockFailures = {} /\ NoDepthWarning BY <2>1 DEF Faithful
  <2>3. ~BlockEndedBefore BY <2>2 DEF BlockEndedBefore, EndedBefore
  <2>4. (WithinLimit => EngineRight(FALSE))' BY <2>2, <2>3, LimitStep
  <2>5. EngineRight(FALSE)' BY <1>3, <2>4
  <2>6. blockFailures' = {}
    <3>1. \A b \in blockFailures' : b[3] = {} BY <2>5 DEF EngineRight, MemosRight, BlocksRight
    <3> QED BY <1>3, <3>1 DEF NoneEnded
  <2>7. NoDepthWarning' BY <2>2, NoDepthStep
  <2> QED BY <2>5, <2>6, <2>7
<1> QED BY <1>2, <1>3 DEF Faithful

LEMMA SparesStep ==
  ASSUME IInv, NInv, EngineRight(TRUE), [Next]_vars, [SparesExactly]_vars PROVE EngineRight(TRUE)'
<1>1. OnLimit(TRUE) BY DEF OnLimit, OnPath
<1>2. CASE RejectedBefore \/ BlockEndedBefore \/ BlockTooDeepBefore
  <2>1. CASE SparesExactly BY <1>2, <2>1, SparedRight
  <2>2. CASE UNCHANGED vars
    <3>1. CASE ~RejectedBefore /\ ~BlockEndedBefore /\ ~BlockTooDeepBefore BY <1>2, <3>1
    <3>2. frames' # frames
      <4>1. PICK error : frames' = Replaced(Failed(Top, error)) /\ Calling
        BY <1>2 DEF RejectedBefore, BlockEndedBefore, BlockTooDeepBefore, Fresh
      <4>2. frames \in Seq(Frame) /\ Len(frames) \in Nat \ {0} /\ Top \in Frame
            /\ Top = frames[Len(frames)]
        BY FrameCounts
      <4>3. frames'[Len(frames)] = Failed(Top, error) BY <4>1, <4>2 DEF Replaced
      <4>4. Failed(Top, error).tried = Append(Top.tried, error) /\ Top.tried \in Seq(ErrorKind)
        BY <4>2 DEF Failed, Frame
      <4>5. Append(Top.tried, error) # Top.tried
        <5>1. Len(Append(Top.tried, error)) = Len(Top.tried) + 1 /\ Len(Top.tried) \in Nat BY <4>4
        <5> QED BY <5>1
      <4> QED BY <4>2, <4>3, <4>4, <4>5
    <3> QED BY <2>2, <3>2 DEF vars
  <2> QED BY <2>1, <2>2
<1>3. CASE ~RejectedBefore /\ ~BlockEndedBefore /\ ~BlockTooDeepBefore BY <1>1, <1>3, PreciseRight
<1> QED BY <1>2, <1>3

--------------------

\* The reference is followed while the two memos stay empty, and within the limit while no
\* block is known to run to the end.
LEMMA Followed == Spec => [](IInv /\ NInv /\ Faithful)
<1>1. Init => IInv /\ NInv /\ Faithful
  <2> SUFFICES ASSUME Init PROVE IInv /\ NInv /\ Faithful OBVIOUS
  <2>1. IInv /\ NInv BY InitStarts
  <2>2. Starts /\ rejections = {} BY <2>1 DEF IInv, Init, Starts
  <2> QED BY <2>1, <2>2, FaithfulStarts
<1>2. IInv /\ NInv /\ Faithful /\ [Next]_vars => (IInv /\ NInv /\ Faithful)'
  BY StepKeeps, NotesStep, FaithfulStep
<1> QED BY <1>1, <1>2, PTL DEF Spec

\* The page with memos is the page without, up to the first refusal or block failure,
\* and on a page within the limit up to the first block that runs to the end: outcome,
\* elements and footnotes; and the warnings as well, if no element was refused.
THEOREM MemosChangeNothing == Spec => []PageMatches
<1>1. ASSUME IInv, NInv, Faithful, Unasked PROVE PageExact BY <1>1, ExactSound DEF Faithful
<1>2. ASSUME IInv, NInv, Faithful, ~Unasked, NoneEnded, WithinLimit
      PROVE  PageFollows /\ rejections # {}
  <2>1. EngineRight(FALSE) /\ blockFailures = {} BY <1>2 DEF Faithful
  <2> QED BY <1>2, <2>1, PageRead DEF Unasked
<1>3. IInv /\ NInv /\ Faithful => PageMatches
  BY <1>1, <1>2 DEF PageExact, PageFollows, PageMatches
<1> QED BY <1>3, Followed, PTL

\* A remembered failure is one, wherever it may be used, and for the same reason, up to
\* the first refusal or block failure.
THEOREM FailureMemoSound == Spec => [](Unasked => FailuresSound)
<1>1. IInv /\ NInv /\ Faithful => (Unasked => FailuresSound) BY UnaskedSound DEF Faithful
<1> QED BY <1>1, Followed, PTL

\* A remembered success is one, wherever it may be used, with the same elements, warnings
\* and length, up to the first refusal or block failure.
THEOREM SuccessMemoSound == Spec => [](Unasked => SuccessesSound)
<1>1. IInv /\ NInv /\ Faithful => (Unasked => SuccessesSound) BY UnaskedSound DEF Faithful
<1> QED BY <1>1, Followed, PTL

\* A body refused for what is remembered of its walk never meets its closer.
THEOREM WalkMemoSound == Spec => [](Unasked \/ (NoneEnded /\ WithinLimit) => WalksSound)
<1>1. ASSUME IInv, NInv, Faithful, Unasked PROVE WalksFollow BY <1>1, ExactSound DEF Faithful
<1>2. ASSUME IInv, NInv, Faithful, NoneEnded, WithinLimit PROVE WalksFollow
  BY <1>2, WalksRead DEF Faithful, WithinLimit, OnLimit, OnPath
<1>3. IInv /\ NInv /\ Faithful => (Unasked \/ (NoneEnded /\ WithinLimit) => WalksSound)
  BY <1>1, <1>2 DEF WalksFollow, WalksSound
<1> QED BY <1>3, Followed, PTL

\* Within the limit refusals harm no memo: whatever a failure or a success may be used
\* for would fail, or succeed with the same elements, if it stays within the limit too.
THEOREM MemosWithinLimit ==
  Spec => [](NoneEnded /\ WithinLimit => FailuresFollow(FALSE) /\ SuccessesFollow(FALSE))
<1>1. IInv /\ NInv /\ Faithful =>
        (NoneEnded /\ WithinLimit => FailuresFollow(FALSE) /\ SuccessesFollow(FALSE))
  BY FailuresRead, SuccessesRead DEF Faithful
<1> QED BY <1>1, Followed, PTL

\* Block failures that would be failures without what encloses the block change nothing
\* on a page within the limit: its outcome, elements and footnotes, and every other
\* memo, are as the reference has them.
THEOREM BlocksWithinLimit ==
  Spec /\ []BlockFailuresDeterministic =>
      [](WithinLimit => /\ PageFollows /\ WalksFollow
                        /\ FailuresFollow(FALSE) /\ SuccessesFollow(FALSE))
<1> DEFINE J == IInv /\ NInv /\ (WithinLimit => EngineRight(FALSE))
<1>1. Init => J BY InitStarts
<1>2. J /\ BlockFailuresDeterministic /\ [Next]_vars => J'
  <2> SUFFICES ASSUME J, BlockFailuresDeterministic, [Next]_vars PROVE J' OBVIOUS
  <2>1. IInv' /\ NInv' BY StepKeeps, NotesStep
  <2>2. (WithinLimit => EngineRight(FALSE))' BY LimitStep
  <2> QED BY <2>1, <2>2
<1>3. ASSUME J, WithinLimit
      PROVE  PageFollows /\ WalksFollow /\ FailuresFollow(FALSE) /\ SuccessesFollow(FALSE)
  BY <1>3, PageRead, WalksRead, FailuresRead, SuccessesRead DEF WithinLimit, OnLimit, OnPath
<1>4. J => (WithinLimit => /\ PageFollows /\ WalksFollow
                           /\ FailuresFollow(FALSE) /\ SuccessesFollow(FALSE))
  BY <1>3
<1> HIDE DEF J
<1> QED BY <1>1, <1>2, <1>4, PTL DEF Spec

\* Where every refusal and every block failure is used for an attempt that would fail so,
\* and no deeper than the peak accounts for, the page, the failures, successes and walks are
\* those of the reference, limit met or not.
THEOREM MemosSound ==
  Spec /\ [][SparesExactly]_vars =>
      [](PageExact /\ FailuresFollow(TRUE) /\ SuccessesFollow(TRUE) /\ WalksFollow)
<1> DEFINE J == IInv /\ NInv /\ EngineRight(TRUE)
<1>1. Init => J BY InitStarts
<1>2. J /\ [Next]_vars /\ [SparesExactly]_vars => J' BY StepKeeps, NotesStep, SparesStep
<1>3. J => PageExact /\ FailuresFollow(TRUE) /\ SuccessesFollow(TRUE) /\ WalksFollow
  BY ExactSound
<1> HIDE DEF J
<1> QED BY <1>1, <1>2, <1>3, PTL DEF Spec

--------------------
(* For the driver, which parses a page at two limits *)

LEMMA PageContext ==
  ASSUME NEW limit \in Nat
  PROVE  LET c == [rule |-> Page, depth |-> 0, accepts |-> "none", zone |-> "page",
                   limit |-> limit]
         IN  Within(c) /\ c.depth = 0 /\ c.limit = limit
  BY RuleEngineAssumption DEF Within, RefContexts

\* A page answers with a depth error only above its limit.
LEMMA PageTyped ==
  ASSUME NEW text \in Seq(Token), NEW limit \in Nat
  PROVE  /\ RefPage(text, limit).top \in Nat
         /\ RefPage(text, limit).error = "depth" \/ "depth" \in RefPage(text, limit).errors
              => RefPage(text, limit).top > limit
<1> DEFINE c == [rule |-> Page, depth |-> 0, accepts |-> "none", zone |-> "page",
                 limit |-> limit]
           o == RefPage(text, limit)
<1>1. Within(c) /\ c.limit = limit BY PageContext
<1>2. o = RefBody(text, 1, c) /\ 1 \in 1..(Len(text) + 1)
  <2>1. Len(text) \in Nat OBVIOUS
  <2> QED BY <2>1 DEF RefPage
<1> HIDE DEF c
<1>3. Typed(RefBody(text, 1, c), c, 1, Len(text) + 1) BY <1>1, <1>2, BodyOutcome
<1>4. Typed(o, c, 1, Len(text) + 1) BY <1>2, <1>3
<1> HIDE DEF o
<1>5. o.top \in Nat /\ (o.error = "depth" \/ "depth" \in o.errors => o.top > limit)
  BY <1>1, <1>4 DEF Typed, RefOutcome
<1> QED BY <1>5 DEF o

\* A page that keeps below two limits is the same at both.
LEMMA LimitPlaysNoPart ==
  ASSUME NEW text \in Seq(Token), NEW l \in Nat, NEW m \in Nat,
         RefPage(text, l).top <= l, RefPage(text, l).top <= m
  PROVE  Moved(RefPage(text, l), RefPage(text, m), 0, 0)
<1> DEFINE c == [rule |-> Page, depth |-> 0, accepts |-> "none", zone |-> "page", limit |-> l]
           e == [rule |-> Page, depth |-> 0, accepts |-> "none", zone |-> "page", limit |-> m]
<1>1. /\ Within(c) /\ c.limit = l /\ c.depth = 0 /\ Within(e) /\ e.limit = m /\ e.depth = 0
      /\ Alike(c, e)
  BY PageContext DEF Alike
<1>2. RefPage(text, l) = RefBody(text, 1, c) /\ RefPage(text, m) = RefBody(text, 1, e)
      /\ 1 \in 1..(Len(text) + 1)
  <2>1. Len(text) \in Nat OBVIOUS
  <2> QED BY <2>1 DEF RefPage
<1> HIDE DEF c, e
<1>3. RefBody(text, 1, c).top \in Nat BY <1>1, <1>2, BodyOutcome
<1>4. Room(RefBody(text, 1, c), c, e) BY <1>1, <1>2, <1>3 DEF Room
<1>5. BodiesMove(text, 1) BY <1>2, BodyMoved
<1>6. Moved(RefBody(text, 1, c), RefBody(text, 1, e), c.depth, e.depth)
  BY <1>1, <1>4, <1>5 DEF BodiesMove
<1> QED BY <1>1, <1>2, <1>6

\* What the driver takes from a page that has been parsed.
LEMMA PageTaken ==
  ASSUME IInv, EngineRight(TRUE), page # "parsing"
  PROVE  LET ref == RefPage(input, MaxDepth)
         IN  /\ page = "ok" => /\ frames[1].nodes = ref.nodes /\ notes = ref.notes
                               /\ frames[1].errors = ref.errors
             /\ page # "ok" => ref.error = "depth"
             /\ ref.error = "depth" \/ "depth" \in ref.errors => ref.top > MaxDepth
             /\ ref.top \in Nat
<1> DEFINE ref == RefPage(input, MaxDepth)
<1>1. PageRight(TRUE) /\ page \in {"ok", "error"} /\ input \in Seq(Token) BY DEF EngineRight, IInv
<1>2. Len(frames) = 1 /\ Top = frames[1] BY <1>1 DEF PageRight, Top, Last
<1>3. /\ ref.error = "depth" \/ "depth" \in ref.errors => ref.top > MaxDepth
      /\ ref.top \in Nat
  BY <1>1, PageTyped, RuleEngineAssumption
<1> QED BY <1>1, <1>2, <1>3 DEF PageRight

\* No page that keeps within the limit ends with an error or a warning of it, as long as
\* no block is known to run to the end.
LEMMA NoDepthTaken ==
  ASSUME IInv, Faithful, NoneEnded, WithinLimit, page # "parsing"
  PROVE  page = "ok" /\ "depth" \notin frames[1].errors
<1>1. PageRight(FALSE) /\ NoDepthWarning /\ page \in {"ok", "error"} /\ input \in Seq(Token)
  BY DEF Faithful, EngineRight, IInv
<1>2. page # "error"
  <2>1. RefPage(input, MaxDepth).error = "depth" => RefPage(input, MaxDepth).top > MaxDepth
    BY <1>1, PageTyped, RuleEngineAssumption
  <2>2. RefPage(input, MaxDepth).top \in Nat /\ RefPage(input, MaxDepth).top <= MaxDepth
    BY <1>1, PageTyped, RuleEngineAssumption DEF WithinLimit
  <2>3. page = "error" => RefPage(input, MaxDepth).error = "depth" BY <1>1 DEF PageRight
  <2> QED BY <2>1, <2>2, <2>3, RuleEngineAssumption
<1>3. 1 \in 1..Len(frames) BY TopFrame
<1> QED BY <1>1, <1>2, <1>3 DEF NoDepthWarning, Unwarned

=============================================================================
