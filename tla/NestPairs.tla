------------------------------ MODULE NestPairs ------------------------------
(***************************************************************************)
(* The pairs of heads and closers of a block that nests (block_pairs.rs,   *)
(* pair_nest).  Wikidot matches these with a recursive, lazy, backtracking *)
(* pattern; the code finds the same pairs with a tree of sums over the     *)
(* events and a stack of ranges.  In a range with more heads than closers  *)
(* the last heads are struck out, then the first head pairs with the       *)
(* closer that brings the balance back to zero; what is inside and what is *)
(* behind are ranges of their own.                                         *)
(*                                                                         *)
(* An event is "head" or "close".  A range <<lo, hi>> ends before hi.      *)
(***************************************************************************)
EXTENDS Integers, Sequences, FiniteSets, SequencesExt, FiniteSetsExt

VARIABLES events,
          tree,   \* NestTree; the leaf of event i is the node LeafOf(i)
          ranges, \* the ranges to do, the one at work last
          out     \* the pairs found

nestVars == <<events, tree, ranges, out>>

None == 0
Count == Len(events)
Width == CHOOSE w \in {1, 2, 4, 8, 16} : w >= Count /\ (w = 1 \/ w \div 2 < Count)
LeafOf(i) == Width + i - 1
Lesser(a, b) == IF a < b THEN a ELSE b

-----------------------------------------------------------------------------
(* NestTree. *)

Pull(t, k) ==
    [sum     |-> [t.sum EXCEPT ![k] = t.sum[2 * k] + t.sum[2 * k + 1]],
     low     |-> [t.low EXCEPT ![k] =
                     Lesser(t.low[2 * k], t.sum[2 * k] + t.low[2 * k + 1])],
     heads   |-> [t.heads EXCEPT ![k] = t.heads[2 * k] + t.heads[2 * k + 1]],
     closers |-> [t.closers EXCEPT ![k] = t.closers[2 * k] + t.closers[2 * k + 1]]]

NewTree(evs) ==
    LET At(kind, value) ==
            [k \in 1..(2 * Width - 1) |->
                IF k \in LeafOf(1)..LeafOf(Count) /\ evs[k - Width + 1] = kind
                  THEN value ELSE 0]
        value == [k \in 1..(2 * Width - 1) |-> At("head", 1)[k] + At("close", -1)[k]]
    IN  FoldLeft(Pull,
                 [sum |-> value, low |-> value,
                  heads |-> At("head", 1), closers |-> At("close", 1)],
                 Reverse([k \in 1..(Width - 1) |-> k]))

Above(k) == SelectSeq(Reverse([j \in 1..(Width - 1) |-> j]),
                      LAMBDA j : \E s \in 1..4 : k \div 2 ^ s = j)

Kill(t, i) ==
    FoldLeft(Pull,
             [sum     |-> [t.sum EXCEPT ![LeafOf(i)] = 0],
              low     |-> [t.low EXCEPT ![LeafOf(i)] = 0],
              heads   |-> [t.heads EXCEPT ![LeafOf(i)] = 0],
              closers |-> [t.closers EXCEPT ![LeafOf(i)] = 0]],
             Above(LeafOf(i)))

IsAliveHead(t, i) == t.heads[LeafOf(i)] = 1

\* The nodes range_count and range_sum add up, level by level.
RECURSIVE Covering(_, _)
Covering(l, r) ==
    IF l >= r THEN {}
    ELSE {k \in {l, r - 1} : (k = l /\ l % 2 = 1) \/ (k = r - 1 /\ r % 2 = 1)}
         \cup Covering((l + 1) \div 2, r \div 2)

RangeSum(values, lo, hi) ==
    FoldSet(LAMBDA k, s : s + values[k], 0, Covering(LeafOf(lo), LeafOf(hi)))

\* find_first and find_balance, in the node that spans <<l, r>>.
RECURSIVE FindFirst(_, _, _, _, _, _)
FindFirst(t, node, l, r, lo, hi) ==
    LET mid == (l + r) \div 2
    IN  IF r <= lo \/ l >= hi \/ t.heads[node] = 0 THEN None
        ELSE IF r - l = 1 THEN l
        ELSE LET left == FindFirst(t, 2 * node, l, mid, lo, hi)
             IN  IF left # None THEN left
                 ELSE FindFirst(t, 2 * node + 1, mid, r, lo, hi)

FirstHead(t, lo, hi) == FindFirst(t, 1, 1, Width + 1, lo, hi)

RECURSIVE FindBalance(_, _, _, _, _, _, _)
FindBalance(t, node, l, r, lo, hi, acc) ==
    LET mid == (l + r) \div 2
        from == Max({l, lo})
        to == Min({mid, hi})
    IN  IF r <= lo \/ l >= hi THEN None
        ELSE IF lo <= l /\ r <= hi /\ acc + t.low[node] > 0 THEN None
        ELSE IF r - l = 1 THEN IF acc + t.sum[node] = 0 THEN l ELSE None
        ELSE LET left == FindBalance(t, 2 * node, l, mid, lo, hi, acc)
             IN  IF left # None THEN left
                 ELSE FindBalance(t, 2 * node + 1, mid, r, lo, hi,
                                  acc + (IF from < to THEN RangeSum(t.sum, from, to) ELSE 0))

Balance(t, lo, hi) == FindBalance(t, 1, 1, Width + 1, lo, hi, 0)

-----------------------------------------------------------------------------
(* pair_nest. *)

Working == ranges # << >>
Lo == Last(ranges)[1]
Hi == Last(ranges)[2]
HeadAtWork == FirstHead(tree, Lo, Hi)

\* Mutated form: the first heads are struck out.
TrimmedFirst(t, h, hi) ==
    LET surplus == RangeSum(t.heads, h, hi) - RangeSum(t.closers, h, hi)
        Strike(a, k) == IF a.left > 0 /\ IsAliveHead(a.tree, k)
                          THEN [tree |-> Kill(a.tree, k), left |-> a.left - 1] ELSE a
    IN  FoldLeft(Strike, [tree |-> t, left |-> surplus],
                 [k \in 1..(hi - h) |-> h + k - 1]).tree

\* Where there are more heads than closers, the last heads are struck out.
Trimmed(t, h, hi) ==
    LET surplus == RangeSum(t.heads, h, hi) - RangeSum(t.closers, h, hi)
        Strike(a, k) == IF a.left > 0 /\ IsAliveHead(a.tree, k)
                          THEN [tree |-> Kill(a.tree, k), left |-> a.left - 1] ELSE a
    IN  FoldLeft(Strike, [tree |-> t, left |-> surplus],
                 Reverse([k \in 1..(hi - h) |-> h + k - 1])).tree

NestInit ==
    /\ events \in Seq({"head", "close"})
    /\ tree = NewTree(events)
    /\ ranges = <<<<1, Count + 1>>>>
    /\ out = {}

RangeDone ==
    /\ Working /\ HeadAtWork = None
    /\ ranges' = Front(ranges)
    /\ UNCHANGED <<events, tree, out>>

\* No closer is left for the head either.
HeadStruck ==
    /\ Working /\ HeadAtWork # None
    /\ \E t \in {Trimmed(tree, HeadAtWork, Hi)} :
          ~IsAliveHead(t, HeadAtWork) /\ tree' = t
    /\ UNCHANGED <<events, ranges, out>>

\* What is behind the pair waits; what is inside is next.
HeadPaired ==
    /\ Working /\ HeadAtWork # None
    /\ \E t \in {Trimmed(tree, HeadAtWork, Hi)}, h \in {HeadAtWork} :
          /\ IsAliveHead(t, h)
          /\ \E p \in {Balance(t, h, Hi)} :
                IF p = None
                  THEN tree' = Kill(t, h) /\ UNCHANGED <<ranges, out>>
                  ELSE /\ tree' = t
                       /\ out' = out \cup {<<h, p>>}
                       /\ ranges' = Front(ranges)
                              \o (IF p + 1 < Hi THEN <<<<p + 1, Hi>>>> ELSE << >>)
                              \o <<<<h + 1, p>>>>
    /\ UNCHANGED events

NestNext == RangeDone \/ HeadStruck \/ HeadPaired

-----------------------------------------------------------------------------
(* The matcher the pairs stand for: a head, lazily anything or a nested     *)
(* match, a closer.  Ends lists where a match may end, in the order it is   *)
(* tried; the first head that is left takes the first end.                  *)

Ends(e) ==
    LET From[p \in 1..(Len(e) + 1)] ==
            IF p > Len(e) THEN << >>
            ELSE IF e[p] = "close" THEN <<p>> \o From[p + 1]
            ELSE FlattenSeq([k \in DOMAIN From[p + 1] |-> From[From[p + 1][k] + 1]])
                 \o From[p + 1]
    IN  From[1]

RECURSIVE Lazily(_, _)
Lazily(evs, left) ==
    LET heads == {i \in left : evs[i] = "head"}
        head == Min(heads)
        behind == SelectSeq([i \in DOMAIN evs |-> i], LAMBDA i : i > head /\ i \in left)
        ends == Ends([k \in DOMAIN behind |-> evs[behind[k]]])
    IN  IF heads = {} THEN {}
        ELSE IF ends = << >> THEN Lazily(evs, left \ {head})
        ELSE {<<head, behind[ends[1]]>>} \cup Lazily(evs, left \ {head, behind[ends[1]]})

\* The pairs are those of the matcher, head for head and closer for closer, and a sum
\* above the events is never out of date: a head struck out counts nowhere.
NestPairsExact ==
    /\ \A k \in 1..(Width - 1) : Pull(tree, k) = tree
    /\ ~Working => out = Lazily(events, DOMAIN events)

=============================================================================
