--------------------------- MODULE ScanMemosProofs ---------------------------
(***************************************************************************)
(* Proofs about ScanMemos, for every page, whatever the probes claim and   *)
(* in whatever order and contexts the rules ask.                           *)
(***************************************************************************)
EXTENDS ScanMemos, SequenceTheorems, WellFoundedInduction, TLAPS

-----------------------------------------------------------------------------
(* The inductive invariant: what each memo holds is so of the tokens. *)

TokensOK ==
    /\ tokens \in Seq(Token \cup {"end"}) /\ tokens # << >>
    /\ \A i \in 1..(Len0 - 1) : tokens[i] \in Token

\* From its start on no closer comes, and its break is the last.
Fits(p, d) ==
    /\ p \in Proof
    /\ p.start # 0 =>
         /\ p.start \in 1..Len0
         /\ \A i \in p.start..Len0 : Kind(i) # d
         /\ p.break # 0 => p.break \in p.start..Len0 /\ Kind(p.break) = "break"
         /\ \A i \in p.start..Len0 : Kind(i) = "break" => i <= p.break

\* What was learnt where block ends matter was learnt without one.
AbsencesFit ==
    /\ plain \in [Delims -> Proof] /\ free \in [Delims -> Proof]
    /\ \A d \in Delims :
         /\ Fits(plain[d], d) /\ Fits(free[d], d)
         /\ plain[d].start # 0 => \A i \in plain[d].start..Len0 : Kind(i) \notin BlockTokens

\* A walk for a closer has met what it says and nothing that would have ended it.
DelimiterWalk ==
    [for : {"delimiter"}, closer : Delims, start : Nat, at : Nat, context : Contexts,
     open : Seq(Names), paired : {0, 1}, break : Nat]
Met(i) == i \in walk.start..(walk.at - 1)
DelimiterWalkFits ==
    walk.for = "delimiter" =>
        /\ walk \in DelimiterWalk
        /\ walk.start \in 1..Len0 /\ walk.at \in walk.start..Len0
        /\ \A i \in Nat : Met(i) => Kind(i) # walk.closer
        /\ BlocksMatter /\ walk.paired = 0 =>
              \A i \in Nat : Met(i) => Kind(i) \notin BlockTokens
        /\ walk.break # 0 => Met(walk.break) /\ Kind(walk.break) = "break"
        /\ \A i \in Nat : Met(i) /\ Kind(i) = "break" => i <= walk.break

MathWalk == [for : {"math"}, start : Nat, at : Nat, jumped : {0, 1}]
Opaque == {"math", "break", "raw"}
MathFits ==
    /\ math \in 0..Len0
    /\ math # 0 => \A i \in math..(Len0 - 1) : Kind(i) \notin Opaque
    /\ walk.for = "math" =>
         /\ walk \in MathWalk
         /\ walk.start \in 1..Len0 /\ walk.at \in walk.start..Len0
         /\ walk.jumped = 0 => \A i \in Nat : Met(i) => Kind(i) \notin Opaque

SearchesFit ==
    /\ found \in [Needle -> [from : Nat, at : Nat]]
    /\ \A k \in Needle :
         found[k].from # 0 => /\ found[k].from \in 1..Len0
                              /\ found[k].at = FirstOf(Stops[k], found[k].from)

RegionFits ==
    /\ region \in [from : Nat, at : Nat]
    /\ region.from # 0 => region.from \in 1..Len0 /\ region.at = RegionEnd(region.from)

\* A scan that saw no head is kept for all contexts, others for the one they are of.
HeadsFit ==
    /\ DOMAIN heads \subseteq Nat \X (Probes \cup {"none"})
    /\ \A key \in DOMAIN heads : heads[key] \in [from : Nat, head : Nat]
    /\ \A e \in Nat, c \in Probes \cup {"none"} :
         <<e, c>> \in DOMAIN heads =>
            LET scan == heads[<<e, c>>]
            IN  /\ scan.from # 0
                /\ c = "none" => scan.head = 0 /\ HeadsIn(scan.from, e) = {}
                /\ c # "none" => scan.head = Claimed(scan.from, e, c)

\* The first token that ends the label, seen from where it begins.
FailsFrom(s, f) ==
    \E stop \in s..Len0 :
        /\ LabelFails(stop, f)
        /\ \A i \in s..(stop - 1) : ~LabelEnds(i, f)
LabelsFit ==
    /\ labels \subseteq (DOMAIN tokens) \X LabelFlags
    /\ \A s \in DOMAIN tokens, f \in LabelFlags : <<s, f>> \in labels => FailsFrom(s, f)

IInv ==
    /\ TokensOK /\ AbsencesFit /\ DelimiterWalkFits /\ MathFits
    /\ SearchesFit /\ RegionFits /\ HeadsFit /\ LabelsFit

-----------------------------------------------------------------------------
(* Tokens, and the least of some positions *)

LEMMA LeastIs ==
    ASSUME NEW S \in SUBSET Nat
    PROVE  /\ S = {} => Least(S) = 0
           /\ S # {} => Least(S) \in S /\ \A j \in S : Least(S) <= j
           /\ Least(S) \in Nat
<1>1. CASE S = {}
  BY <1>1 DEF Least
<1>2. CASE S # {}
  <2>1. PICK x \in S : \A y \in S : ~(<<y, x>> \in OpToRel(<, Nat))
    BY <1>2, WFMin, NatLessThanWellFounded
  <2>2. \A y \in S : x <= y
    <3> SUFFICES ASSUME NEW y \in S PROVE x <= y
      OBVIOUS
    <3>1. ~(y < x)
      BY <2>1 DEF OpToRel
    <3> QED
      BY <3>1
  <2> QED
    BY <1>2, <2>2 DEF Least
<1> QED
  BY <1>1, <1>2

\* The least is the one that is in the set and below which there is none.
LEMMA LeastUnique ==
    ASSUME NEW S \in SUBSET Nat, NEW x \in S, \A j \in S : x <= j
    PROVE  Least(S) = x
<1>1. Least(S) \in S /\ Least(S) <= x /\ x <= Least(S)
  BY LeastIs
<1>2. Least(S) \in Nat /\ x \in Nat
  BY <1>1
<1> QED
  BY <1>1, <1>2

LEMMA GreatestIs ==
    ASSUME NEW n \in Nat, NEW S \in SUBSET (1..n), S # {}
    PROVE  (CHOOSE i \in S : \A j \in S : j <= i) \in S
<1> DEFINE T == {n - i : i \in S}
<1>1. T \in SUBSET Nat /\ T # {}
  <2>1. \A i \in S : i \in 1..n /\ n - i \in Nat
    OBVIOUS
  <2> QED
    BY <2>1
<1>2. Least(T) \in T /\ \A j \in T : Least(T) <= j
  BY <1>1, LeastIs
<1>3. PICK i \in S : Least(T) = n - i
  BY <1>2
<1>4. \A j \in S : j <= i
  <2> SUFFICES ASSUME NEW j \in S PROVE j <= i
    OBVIOUS
  <2>1. n - i <= n - j
    BY <1>2, <1>3
  <2> QED
    BY <2>1
<1> QED
  BY <1>4

LEMMA KindIs ==
    ASSUME TokensOK
    PROVE  /\ Len0 \in Nat \ {0} /\ DOMAIN tokens = 1..Len0
           /\ Kind(Len0) = "end"
           /\ \A i \in 1..(Len0 - 1) : Kind(i) \in STRING \ {"end"}
<1>1. Len0 \in Nat \ {0} /\ DOMAIN tokens = 1..Len0
  BY EmptySeq, LenProperties DEF TokensOK, Len0
<1>2. \A i \in 1..(Len0 - 1) : Kind(i) \in STRING \ {"end"}
  <2> SUFFICES ASSUME NEW i \in 1..(Len0 - 1) PROVE Kind(i) \in STRING \ {"end"}
    OBVIOUS
  <2>1. i # Len0 /\ tokens[i] \in Token
    BY <1>1 DEF TokensOK
  <2> QED
    BY <2>1, ScanMemosAssumption DEF Kind
<1> QED
  BY <1>1, <1>2 DEF Kind

\* As long as the tokens are the same, so is what is read of them.
LEMMA SameTokens ==
    ASSUME tokens' = tokens
    PROVE  /\ Len0' = Len0
           /\ \A i : Kind(i)' = Kind(i)
           /\ TokensOK <=> TokensOK'
<1>1. Len0' = Len0
  BY DEF Len0
<1> QED
  BY <1>1 DEF Kind, TokensOK

-----------------------------------------------------------------------------
(* Closers that do not come *)

\* A walk that has reached the end of the input proves what is recorded of it.
LEMMA WalkProves ==
    ASSUME TokensOK, DelimiterWalkFits, walk.for = "delimiter", Kind(walk.at) = "end"
    PROVE  /\ Fits([start |-> walk.start, break |-> walk.break], walk.closer)
           /\ BlocksMatter /\ walk.paired = 0 =>
                 \A i \in walk.start..Len0 : Kind(i) \notin BlockTokens
<1>1. /\ walk \in DelimiterWalk
      /\ walk.start \in 1..Len0 /\ walk.at \in walk.start..Len0
      /\ Len0 \in Nat
  BY KindIs DEF DelimiterWalkFits
<1>2. walk.at = Len0
  BY <1>1, KindIs
<1>3. \A i \in walk.start..Len0 : i \in Nat /\ (Met(i) \/ Kind(i) = "end")
  BY <1>1, <1>2, KindIs DEF Met
<1>4. walk.closer \in Delims /\ walk.closer # "end" /\ walk.start \in Nat /\ walk.break \in Nat
  BY <1>1, ScanMemosAssumption DEF DelimiterWalk
<1>5. \A i \in walk.start..Len0 : Kind(i) # walk.closer
  BY <1>3, <1>4 DEF DelimiterWalkFits
<1>6. walk.break # 0 => walk.break \in walk.start..Len0 /\ Kind(walk.break) = "break"
  BY <1>1, <1>4 DEF DelimiterWalkFits, Met
<1>7. \A i \in walk.start..Len0 : Kind(i) = "break" => i <= walk.break
  BY <1>3 DEF DelimiterWalkFits
<1>8. Fits([start |-> walk.start, break |-> walk.break], walk.closer)
  BY <1>1, <1>4, <1>5, <1>6, <1>7 DEF Fits, Proof
<1>9. BlocksMatter /\ walk.paired = 0 =>
         \A i \in walk.start..Len0 : Kind(i) \notin BlockTokens
  BY <1>3 DEF DelimiterWalkFits, BlockTokens
<1> QED
  BY <1>8, <1>9

\* What is recorded where nothing was, or in place of something, is one of the two.
LEMMA RecordedIs ==
    ASSUME NEW memo \in [Delims -> Proof], NEW d \in Delims, NEW p \in Proof
    PROVE  /\ Recorded(memo, d, p) \in [Delims -> Proof]
           /\ \A x \in Delims : (Recorded(memo, d, p)[x] = memo[x])
                               \/ (x = d /\ Recorded(memo, d, p)[x] = p)
<1>1. Recorded(memo, d, p) = memo \/ Recorded(memo, d, p) = [memo EXCEPT ![d] = p]
  BY Zenon DEF Recorded
<1>2. CASE Recorded(memo, d, p) = memo
  BY <1>2
<1>3. CASE Recorded(memo, d, p) = [memo EXCEPT ![d] = p]
  BY <1>3
<1> QED
  BY <1>1, <1>2, <1>3

\* Where the tokens stay, so does what fits them.
LEMMA FitsStays ==
    ASSUME tokens' = tokens, NEW p, NEW d
    PROVE  Fits(p, d)' <=> Fits(p, d)
  BY SameTokens DEF Fits

\* A step of a walk that goes on past a token that is no closer.
LEMMA WalkGoesOn ==
    ASSUME TokensOK, DelimiterWalkFits, tokens' = tokens,
           walk.for = "delimiter",
           walk' \in DelimiterWalk,
           walk'.closer = walk.closer, walk'.start = walk.start,
           walk'.at = walk.at + 1, walk'.context = walk.context,
           Kind(walk.at) \notin {"end", walk.closer},
           walk'.paired = walk.paired \/ walk'.paired = 1,
           Kind(walk.at) \in BlockTokens /\ BlocksMatter => walk'.paired = 1,
           walk'.break = IF Kind(walk.at) = "break" THEN walk.at ELSE walk.break
    PROVE  DelimiterWalkFits'
<1>1. /\ walk \in DelimiterWalk
      /\ walk.start \in 1..Len0 /\ walk.at \in walk.start..Len0
      /\ Len0 \in Nat /\ walk.start \in Nat /\ walk.at \in Nat
      /\ walk.break \in Nat
  BY KindIs DEF DelimiterWalkFits, DelimiterWalk
<1>2. walk.at # Len0
  BY KindIs
<1>3. Len0' = Len0 /\ \A i : Kind(i)' = Kind(i)
  BY SameTokens
<1>4. \A i \in Nat : Met(i)' <=> Met(i) \/ i = walk.at
  BY <1>1 DEF Met
<1>5. BlocksMatter' = BlocksMatter
  BY DEF BlocksMatter
<1>6. walk'.start \in 1..Len0 /\ walk'.at \in walk'.start..Len0
  BY <1>1, <1>2
<1>7. (\A i \in Nat : Met(i) => Kind(i) # walk.closer)'
  BY <1>3, <1>4 DEF DelimiterWalkFits
<1>8. (BlocksMatter /\ walk.paired = 0 => \A i \in Nat : Met(i) => Kind(i) \notin BlockTokens)'
  BY <1>3, <1>4, <1>5 DEF DelimiterWalkFits, BlockTokens
<1>9. (walk.break # 0 => Met(walk.break) /\ Kind(walk.break) = "break")'
  <2>1. CASE Kind(walk.at) = "break"
    BY <1>1, <1>3, <1>4, <2>1
  <2>2. CASE Kind(walk.at) # "break"
    BY <1>1, <1>3, <1>4, <2>2 DEF DelimiterWalkFits
  <2> QED
    BY <2>1, <2>2
<1>10. (\A i \in Nat : Met(i) /\ Kind(i) = "break" => i <= walk.break)'
  <2> SUFFICES ASSUME NEW i \in Nat, Met(i)', Kind(i) = "break" PROVE i <= walk'.break
    BY <1>3
  <2>1. CASE i = walk.at
    BY <1>1, <2>1
  <2>2. CASE Met(i)
    <3>1. i <= walk.break /\ i <= walk.at
      BY <1>1, <2>2 DEF DelimiterWalkFits, Met
    <3> QED
      BY <1>1, <3>1
  <2> QED
    BY <1>4, <2>1, <2>2
<1>11. (walk \in DelimiterWalk /\ walk.start \in 1..Len0 /\ walk.at \in walk.start..Len0)'
  BY <1>3, <1>6 DEF DelimiterWalk
<1> QED
  BY <1>7, <1>8, <1>9, <1>10, <1>11, Zenon DEF DelimiterWalkFits

\* A walk that has gone on is one.
LEMMA WalkTyped ==
    ASSUME walk \in DelimiterWalk, NEW opened \in Seq(Names), NEW seen \in {0, 1},
           NEW last \in Nat,
           walk' = [for |-> "delimiter", closer |-> walk.closer, start |-> walk.start,
                    at |-> walk.at + 1, context |-> walk.context, open |-> opened,
                    paired |-> seen, break |-> last]
    PROVE  walk' \in DelimiterWalk
<1>1. /\ walk.closer \in Delims /\ walk.start \in Nat /\ walk.at + 1 \in Nat
      /\ walk.context \in Contexts
  BY DEF DelimiterWalk
<1> QED
  BY <1>1 DEF DelimiterWalk

LEMMA DelimiterKeeps ==
    ASSUME TokensOK, AbsencesFit, DelimiterWalkFits, DelimiterStep
    PROVE  AbsencesFit' /\ DelimiterWalkFits' /\ walk'.for # "math"
<1>1. tokens' = tokens
  BY DEF DelimiterStep, AskDelimiter, WalkCloser, WalkBreak, WalkBlockStart, WalkBlockEnd,
         WalkPast, WalkEnd, Walking
<1>2. Len0' = Len0 /\ \A i : Kind(i)' = Kind(i)
  BY <1>1, SameTokens
<1>3. UNCHANGED <<plain, free>> => AbsencesFit'
  BY <1>1, <1>2, FitsStays DEF AbsencesFit
<1>4. walk' = NoWalk => DelimiterWalkFits' /\ walk'.for # "math"
  BY DEF NoWalk, DelimiterWalkFits
<1>5. ASSUME NEW d \in Delims, NEW s \in DOMAIN tokens, NEW c \in Contexts,
             AskDelimiter(d, s, c)
      PROVE  AbsencesFit' /\ DelimiterWalkFits' /\ walk'.for # "math"
  <2>1. walk' = [for |-> "delimiter", closer |-> d, start |-> s, at |-> s, context |-> c,
                 open |-> << >>, paired |-> 0, break |-> 0]
    BY <1>5 DEF AskDelimiter
  <2>2. s \in 1..Len0 /\ Len0 \in Nat /\ s \in Nat
    BY KindIs
  <2>3. walk' \in DelimiterWalk
    BY <2>1, <2>2 DEF DelimiterWalk
  <2>4. \A i \in Nat : ~Met(i)'
    BY <2>1, <2>2 DEF Met
  <2>5. DelimiterWalkFits'
    BY <1>2, <2>1, <2>2, <2>3, <2>4 DEF DelimiterWalkFits
  <2> QED
    BY <1>3, <1>5, <2>1, <2>5 DEF AskDelimiter
<1>6. CASE WalkCloser
  BY <1>3, <1>4, <1>6 DEF WalkCloser
<1>7. ASSUME walk.for = "delimiter"
      PROVE  /\ walk \in DelimiterWalk
             /\ walk.at \in Nat /\ walk.closer \notin {"end", "break", "open", "close", "link"}
             /\ walk.open \in Seq(Names)
  BY <1>7, KindIs, ScanMemosAssumption DEF DelimiterWalkFits, DelimiterWalk
<1>8. CASE WalkBreak
  <2>1. walk.for = "delimiter" /\ Kind(walk.at) = "break"
    BY <1>8 DEF WalkBreak, Walking
  <2>2. walk' = [walk EXCEPT !.at = @ + 1, !.break = walk.at]
    BY <1>8 DEF WalkBreak
  <2>3. walk' \in DelimiterWalk
    BY <1>7, <2>1, <2>2, WalkTyped DEF DelimiterWalk
  <2>4. DelimiterWalkFits' /\ walk'.for # "math"
    BY <1>1, <1>7, <2>1, <2>2, <2>3, WalkGoesOn DEF BlockTokens, DelimiterWalk
  <2> QED
    BY <1>3, <1>8, <2>4 DEF WalkBreak
<1>9. CASE WalkBlockStart
  <2>1. walk.for = "delimiter" /\ Kind(walk.at) \in {"open", "link"}
    BY <1>9 DEF WalkBlockStart, Walking
  <2> DEFINE name == NameOf[tokens[walk.at]]
             opened == IF name \in Names THEN Append(walk.open, name) ELSE walk.open
  <2>2. walk' = [walk EXCEPT !.at = @ + 1, !.paired = 1, !.open = opened]
    BY <1>9 DEF WalkBlockStart
  <2>3. opened \in Seq(Names)
    BY <1>7, <2>1
  <2> HIDE DEF opened
  <2>4. walk' \in DelimiterWalk
    BY <1>7, <2>1, <2>2, <2>3, WalkTyped DEF DelimiterWalk
  <2>5. DelimiterWalkFits' /\ walk'.for # "math"
    BY <1>1, <1>7, <2>1, <2>2, <2>4, WalkGoesOn DEF BlockTokens, DelimiterWalk
  <2> QED
    BY <1>3, <1>9, <2>5 DEF WalkBlockStart
<1>10. CASE WalkBlockEnd
  <2>1. walk.for = "delimiter" /\ Kind(walk.at) = "close"
    BY <1>10 DEF WalkBlockEnd, Walking
  <2>2. CASE walk' = NoWalk
    BY <1>3, <1>4, <1>10, <2>2 DEF WalkBlockEnd
  <2>3. CASE walk' # NoWalk
    <3> DEFINE name == NameOf[tokens[walk.at]]
               openers == {i \in DOMAIN walk.open : walk.open[i] = name}
               inner == CHOOSE i \in openers : \A j \in openers : j <= i
               opened == IF openers = {} THEN walk.open ELSE SubSeq(walk.open, 1, inner - 1)
    <3>1. walk' = [walk EXCEPT !.at = @ + 1, !.paired = 1, !.open = opened]
      BY <1>10, <2>3 DEF WalkBlockEnd
    <3>2. opened \in Seq(Names)
      <4>1. CASE openers = {}
        BY <1>7, <2>1, <4>1
      <4>2. CASE openers # {}
        <5>1. /\ DOMAIN walk.open = 1..Len(walk.open) /\ Len(walk.open) \in Nat
              /\ openers \in SUBSET (1..Len(walk.open))
          BY <1>7, <2>1, LenProperties
        <5>2. inner \in openers
          BY <4>2, <5>1, GreatestIs
        <5>3. inner \in 1..Len(walk.open) /\ Len(walk.open) \in Nat
          BY <5>1, <5>2
        <5>4. \A i \in 1..(inner - 1) : walk.open[i] \in Names
          BY <1>7, <2>1, <5>3, ElementOfSeq
        <5>5. SubSeq(walk.open, 1, inner - 1) \in Seq(Names)
          BY <5>3, <5>4, SubSeqProperties
        <5> QED
          BY <4>2, <5>5
      <4> QED
        BY <4>1, <4>2
    <3> HIDE DEF opened
    <3>3. walk' \in DelimiterWalk
      BY <1>7, <2>1, <3>1, <3>2, WalkTyped DEF DelimiterWalk
    <3>4. DelimiterWalkFits' /\ walk'.for # "math"
      BY <1>1, <1>7, <2>1, <3>1, <3>3, WalkGoesOn DEF BlockTokens, DelimiterWalk
    <3> QED
      BY <1>3, <1>10, <3>4 DEF WalkBlockEnd
  <2> QED
    BY <2>2, <2>3
<1>11. CASE WalkPast
  <2>1. /\ walk.for = "delimiter" /\ Kind(walk.at) \notin {"end", "break", walk.closer}
        /\ Kind(walk.at) \in BlockTokens => ~BlocksMatter
    BY <1>11 DEF WalkPast
  <2>2. walk' = [walk EXCEPT !.at = @ + 1] /\ walk' \in DelimiterWalk
    BY <1>7, <1>11, <2>1 DEF WalkPast, DelimiterWalk
  <2>3. DelimiterWalkFits' /\ walk'.for # "math"
    BY <1>1, <1>7, <2>1, <2>2, WalkGoesOn DEF DelimiterWalk
  <2> QED
    BY <1>3, <1>11, <2>3 DEF WalkPast
<1>12. CASE WalkEnd
  <2> DEFINE p == [start |-> walk.start, break |-> walk.break]
             d == walk.closer
  <2>1. walk.for = "delimiter" /\ Kind(walk.at) = "end" /\ walk' = NoWalk
    BY <1>12 DEF WalkEnd, Walking
  <2>2. /\ plain' = IF BlocksMatter /\ walk.paired = 0 THEN Recorded(plain, d, p) ELSE plain
        /\ free' = IF ~BlocksMatter THEN Recorded(free, d, p) ELSE free
    BY <1>12 DEF WalkEnd
  <2>3. /\ Fits(p, d)
        /\ BlocksMatter /\ walk.paired = 0 =>
              \A i \in p.start..Len0 : Kind(i) \notin BlockTokens
    BY <2>1, WalkProves
  <2>4. d \in Delims /\ p \in Proof
    BY <1>7, <2>1 DEF DelimiterWalk, Proof
  <2> HIDE DEF p, d
  <2>r. ASSUME NEW memo \in {plain, free}
        PROVE  /\ Recorded(memo, d, p) \in [Delims -> Proof]
               /\ \A x \in Delims : (Recorded(memo, d, p)[x] = memo[x])
                                   \/ (x = d /\ Recorded(memo, d, p)[x] = p)
    <3>1. memo \in [Delims -> Proof]
      BY DEF AbsencesFit
    <3> QED
      BY <2>4, <3>1, RecordedIs
  <2>5. plain' \in [Delims -> Proof] /\ free' \in [Delims -> Proof]
    BY <2>2, <2>r DEF AbsencesFit
  <2>6. ASSUME NEW x \in Delims
        PROVE  /\ Fits(plain'[x], x) /\ Fits(free'[x], x)
               /\ plain'[x].start # 0 =>
                     \A i \in plain'[x].start..Len0 : Kind(i) \notin BlockTokens
    <3>1. \/ plain'[x] = plain[x]
          \/ x = d /\ plain'[x] = p /\ BlocksMatter /\ walk.paired = 0
      BY <2>2, <2>r
    <3>2. free'[x] = free[x] \/ (x = d /\ free'[x] = p)
      BY <2>2, <2>r
    <3> QED
      BY <2>3, <3>1, <3>2 DEF AbsencesFit
  <2>7. \A x \in Delims : Fits(plain[x], x)' /\ Fits(free[x], x)'
    BY <1>2, <2>6 DEF Fits, Proof
  <2>8. AbsencesFit'
    BY <1>2, <2>5, <2>6, <2>7 DEF AbsencesFit, BlockTokens
  <2> QED
    BY <1>4, <2>1, <2>8
<1> QED
  BY <1>5, <1>6, <1>8, <1>9, <1>10, <1>11, <1>12 DEF DelimiterStep

LEMMA DelimiterAnswersAre == TokensOK /\ AbsencesFit => DelimiterAnswersFresh
<1> SUFFICES ASSUME TokensOK, AbsencesFit,
                    NEW d \in Delims, NEW s \in DOMAIN tokens, NEW c \in Contexts,
                    Sound(c), DelimiterAnswer(d, s, c) # "walk"
             PROVE  /\ PassesAll(d, s, c)
                    /\ DelimiterAnswer(d, s, c) =
                          IF \E i \in s..Len0 : Kind(i) = "break" THEN "failed" ELSE "end"
  BY DEF DelimiterAnswersFresh
<1>1. Len0 \in Nat \ {0} /\ s \in 1..Len0
  BY KindIs
<1>2. PICK p \in Replays(d, s, c) : Replays(d, s, c) = {p}
  BY DEF DelimiterAnswer, Replays
<1>3. /\ Covers(p, s) /\ Fits(p, d)
      /\ c.blocks = "matter" => \A i \in p.start..Len0 : Kind(i) \notin BlockTokens
  <2>1. \/ p = plain[d] /\ Covers(plain[d], s)
        \/ p = free[d] /\ Covers(free[d], s) /\ c.blocks = "pass"
    BY <1>2 DEF Replays
  <2>2. Covers(p, s) => p.start # 0
    BY DEF Covers
  <2> QED
    BY <2>1, <2>2 DEF AbsencesFit
<1>4. p.start \in 1..s /\ p.break \in Nat
  BY <1>1, <1>3 DEF Covers, Fits, Proof
<1>5. PassesAll(d, s, c)
  BY <1>1, <1>3, <1>4 DEF PassesAll, Fits
<1>6. (\E i \in s..Len0 : Kind(i) = "break") <=> s <= p.break
  BY <1>1, <1>3, <1>4 DEF Fits
<1>7. DelimiterAnswer(d, s, c) = IF s <= p.break THEN "failed" ELSE "end"
  BY <1>2 DEF DelimiterAnswer
<1> QED
  BY <1>5, <1>6, <1>7

-----------------------------------------------------------------------------
(* The closer of a formula *)

LEMMA MathKeeps ==
    ASSUME TokensOK, MathFits, MathStep
    PROVE  MathFits' /\ walk'.for # "delimiter"
<1>1. tokens' = tokens
  BY DEF MathStep, AskMath, MathStop, MathJump, MathPast, MathEnd, WalkingMath
<1>2. Len0' = Len0 /\ \A i : Kind(i)' = Kind(i)
  BY <1>1, SameTokens
<1>3. Len0 \in Nat \ {0} /\ DOMAIN tokens = 1..Len0
  BY KindIs
<1>4. ASSUME math' = math, walk' = NoWalk PROVE MathFits' /\ walk'.for # "delimiter"
  BY <1>2, <1>4 DEF MathFits, NoWalk
<1>5. ASSUME walk.for = "math"
      PROVE  /\ walk \in MathWalk /\ walk.start \in Nat /\ walk.at \in Nat
             /\ walk.start \in 1..Len0 /\ walk.at \in walk.start..Len0
             /\ walk.jumped \in {0, 1}
  BY <1>5 DEF MathFits, MathWalk
<1>6. ASSUME math' = math, walk' \in MathWalk, walk'.start \in 1..Len0,
             walk'.at \in walk'.start..Len0,
             walk'.jumped = 0 => \A i \in walk'.start..(walk'.at - 1) : Kind(i) \notin Opaque
      PROVE  MathFits' /\ walk'.for # "delimiter"
  <2>1. (math \in 0..Len0 /\ (math # 0 => \A i \in math..(Len0 - 1) : Kind(i) \notin Opaque))'
    BY <1>2, <1>6 DEF MathFits, Opaque
  <2>2. (/\ walk \in MathWalk
         /\ walk.start \in 1..Len0 /\ walk.at \in walk.start..Len0
         /\ walk.jumped = 0 => \A i \in Nat : Met(i) => Kind(i) \notin Opaque)'
    BY <1>2, <1>6 DEF Met, MathWalk, Opaque
  <2>3. walk'.for # "delimiter"
    BY <1>6 DEF MathWalk
  <2> QED
    BY <2>1, <2>2, <2>3 DEF MathFits
<1>7. ASSUME NEW s \in DOMAIN tokens, AskMath(s)
      PROVE  MathFits' /\ walk'.for # "delimiter"
  BY <1>3, <1>6, <1>7 DEF AskMath, MathWalk
<1>8. CASE MathStop
  BY <1>4, <1>8 DEF MathStop
<1>9. CASE MathJump
  <2>1. walk.for = "math" /\ math' = math
    BY <1>9 DEF MathJump, WalkingMath
  <2>2. PICK to \in (walk.at + 1)..Len0 : walk' = [walk EXCEPT !.at = to, !.jumped = 1]
    BY <1>9 DEF MathJump
  <2>3. to \in Nat /\ to \in walk.start..Len0
    BY <1>3, <1>5, <2>1
  <2>4. /\ walk'.start = walk.start /\ walk'.at = to /\ walk'.jumped = 1
        /\ walk' \in MathWalk
    BY <1>5, <2>1, <2>2, <2>3 DEF MathWalk
  <2> QED
    BY <1>5, <1>6, <2>1, <2>3, <2>4
<1>10. CASE MathPast
  <2>1. /\ walk.for = "math" /\ math' = math /\ walk' = [walk EXCEPT !.at = @ + 1]
        /\ Kind(walk.at) \notin Opaque /\ Kind(walk.at) # "end"
    BY <1>10 DEF MathPast, Opaque
  <2>2. /\ walk'.start = walk.start /\ walk'.at = walk.at + 1
        /\ walk'.jumped = walk.jumped /\ walk' \in MathWalk
    BY <1>5, <2>1 DEF MathWalk
  <2>3. walk.at # Len0
    BY <2>1, KindIs
  <2>4. walk'.jumped = 0 => \A i \in walk'.start..(walk'.at - 1) : Kind(i) \notin Opaque
    <3> SUFFICES ASSUME walk.jumped = 0, NEW i \in walk.start..walk.at
                 PROVE  Kind(i) \notin Opaque
      BY <1>5, <2>1, <2>2
    <3>1. CASE i = walk.at
      BY <2>1, <3>1
    <3>2. CASE i # walk.at
      BY <1>5, <2>1, <3>2 DEF MathFits, Met
    <3> QED
      BY <3>1, <3>2
  <2> QED
    BY <1>3, <1>5, <1>6, <2>1, <2>2, <2>3, <2>4
<1>11. CASE MathEnd
  <2>1. /\ walk.for = "math" /\ Kind(walk.at) = "end" /\ walk' = NoWalk
        /\ math' = math \/ (math' = walk.start /\ walk.jumped = 0)
    BY <1>11 DEF MathEnd, WalkingMath
  <2>2. CASE math' = math
    BY <1>4, <2>1, <2>2
  <2>3. CASE math' = walk.start /\ walk.jumped = 0
    <3>1. walk.at = Len0
      BY <1>5, <2>1, KindIs
    <3>2. \A i \in walk.start..(Len0 - 1) : Kind(i) \notin Opaque
      BY <1>3, <1>5, <2>1, <2>3, <3>1 DEF MathFits, Met
    <3> QED
      BY <1>2, <1>5, <2>1, <2>3, <3>2 DEF MathFits, NoWalk, Opaque
  <2> QED
    BY <2>1, <2>2, <2>3
<1> QED
  BY <1>7, <1>8, <1>9, <1>10, <1>11 DEF MathStep

LEMMA MathAnswersAre ==
    ASSUME TokensOK, MathFits, NEW s \in DOMAIN tokens, MathAbsent(s)
    PROVE  FirstOf({"math", "break", "raw", "end"}, s) = Len0
<1> DEFINE S == {i \in s..Len0 : Kind(i) \in {"math", "break", "raw", "end"}}
<1>1. Len0 \in Nat \ {0} /\ s \in 1..Len0 /\ Kind(Len0) = "end"
  BY KindIs
<1>2. S \in SUBSET Nat /\ Len0 \in S
  BY <1>1
<1>3. \A j \in S : Len0 <= j
  BY <1>1, KindIs DEF MathFits, MathAbsent, Opaque
<1> HIDE DEF S
<1>4. Least(S) = Len0
  BY <1>2, <1>3, LeastUnique
<1> QED
  BY <1>4 DEF FirstOf, S

-----------------------------------------------------------------------------
(* Searches and regions *)

LEMMA FirstOfIs ==
    ASSUME TokensOK, NEW kinds, NEW s \in DOMAIN tokens
    PROVE  /\ FirstOf(kinds, s) \in Nat
           /\ FirstOf(kinds, s) # 0 =>
                 /\ FirstOf(kinds, s) \in s..Len0 /\ Kind(FirstOf(kinds, s)) \in kinds
                 /\ \A i \in s..Len0 : Kind(i) \in kinds => FirstOf(kinds, s) <= i
           /\ FirstOf(kinds, s) = 0 => \A i \in s..Len0 : Kind(i) \notin kinds
<1> DEFINE S == {i \in s..Len0 : Kind(i) \in kinds}
<1>1. Len0 \in Nat \ {0} /\ s \in 1..Len0
  BY KindIs
<1>2. S \in SUBSET Nat /\ 0 \notin S
  BY <1>1
<1>3. \A i \in s..Len0 : Kind(i) \in kinds <=> i \in S
  OBVIOUS
<1>4. \A i \in S : i \in s..Len0
  OBVIOUS
<1>5. FirstOf(kinds, s) = Least(S)
  BY DEF FirstOf
<1> HIDE DEF S
<1>6. /\ S = {} => Least(S) = 0
      /\ S # {} => Least(S) \in S /\ \A j \in S : Least(S) <= j
      /\ Least(S) \in Nat
  BY <1>2, LeastIs
<1> QED
  BY <1>2, <1>3, <1>4, <1>5, <1>6

\* A search that began earlier and found nothing earlier is as good as a new one.
LEMMA SearchesAre ==
    ASSUME TokensOK, SearchesFit, NEW k \in Needle, NEW s \in DOMAIN tokens, Searched(k, s)
    PROVE  found[k].at = FirstOf(Stops[k], s)
<1> DEFINE from == found[k].from
           f == FirstOf(Stops[k], from)
           g == FirstOf(Stops[k], s)
<1>1. /\ from \in 1..s /\ from \in DOMAIN tokens /\ found[k].at = f
      /\ f = 0 \/ f >= s
  BY KindIs DEF SearchesFit, Searched
<1>2. Len0 \in Nat \ {0} /\ s \in 1..Len0
  BY KindIs
<1>3. /\ f \in Nat
      /\ f # 0 => f \in from..Len0 /\ Kind(f) \in Stops[k]
                 /\ \A i \in from..Len0 : Kind(i) \in Stops[k] => f <= i
      /\ f = 0 => \A i \in from..Len0 : Kind(i) \notin Stops[k]
  BY <1>1, FirstOfIs
<1>4. /\ g \in Nat
      /\ g # 0 => g \in s..Len0 /\ Kind(g) \in Stops[k]
                 /\ \A i \in s..Len0 : Kind(i) \in Stops[k] => g <= i
      /\ g = 0 => \A i \in s..Len0 : Kind(i) \notin Stops[k]
  BY FirstOfIs
<1> HIDE DEF from, f, g
<1>5. \A i \in s..Len0 : i \in from..Len0
  BY <1>1, <1>2
<1>6. CASE f = 0
  BY <1>1, <1>3, <1>4, <1>5, <1>6 DEF g
<1>7. CASE f # 0
  <2>1. f \in s..Len0 /\ g # 0 /\ g <= f
    BY <1>1, <1>2, <1>3, <1>4, <1>7
  <2>2. f <= g
    BY <1>3, <1>4, <1>5, <1>7, <2>1
  <2> QED
    BY <1>1, <1>3, <1>4, <2>1, <2>2 DEF g
<1> QED
  BY <1>6, <1>7

EndsRegion(s, i) ==
    \/ Kind(i) \in {"break", "end"}
    \/ Kind(i) = "rbr" /\ \E j \in s..(i - 1) : Kind(j) = "blank"

LEMMA RegionEndIs ==
    ASSUME TokensOK, NEW s \in DOMAIN tokens
    PROVE  /\ RegionEnd(s) \in s..Len0 /\ RegionEnd(s) \in Nat
           /\ EndsRegion(s, RegionEnd(s))
           /\ \A i \in s..Len0 : EndsRegion(s, i) => RegionEnd(s) <= i
<1> DEFINE S == {i \in s..Len0 : EndsRegion(s, i)}
<1>1. Len0 \in Nat \ {0} /\ s \in 1..Len0 /\ Kind(Len0) = "end"
  BY KindIs
<1>2. S \in SUBSET Nat /\ Len0 \in S
  BY <1>1 DEF EndsRegion
<1>3. RegionEnd(s) = Least(S)
  BY DEF RegionEnd, EndsRegion
<1>4. Least(S) \in S /\ \A j \in S : Least(S) <= j
  BY <1>2, LeastIs
<1> QED
  BY <1>2, <1>3, <1>4

\* Without a blank on the way the region ends where it did.
LEMMA RegionIs ==
    ASSUME TokensOK, RegionFits, NEW s \in DOMAIN tokens, RegionKnown(s)
    PROVE  region.at = RegionEnd(s)
<1> DEFINE from == region.from
           at == region.at
<1>1. Len0 \in Nat \ {0} /\ s \in 1..Len0 /\ DOMAIN tokens = 1..Len0
  BY KindIs
<1>2. /\ from \in 1..s /\ at = RegionEnd(from) /\ s <= at
      /\ \A i \in from..(s - 1) : Kind(i) # "blank"
  BY <1>1 DEF RegionFits, RegionKnown
<1>3. /\ at \in from..Len0 /\ at \in Nat /\ EndsRegion(from, at)
      /\ \A i \in from..Len0 : EndsRegion(from, i) => at <= i
  BY <1>1, <1>2, RegionEndIs
<1>4. \A i \in s..Len0 : EndsRegion(from, i) <=> EndsRegion(s, i)
  <2> SUFFICES ASSUME NEW i \in s..Len0
               PROVE  (\E j \in from..(i - 1) : Kind(j) = "blank")
                          <=> (\E j \in s..(i - 1) : Kind(j) = "blank")
    BY DEF EndsRegion
  <2>1. \A j \in from..(i - 1) : j \in from..(s - 1) \/ j \in s..(i - 1)
    BY <1>1, <1>2
  <2>2. \A j \in s..(i - 1) : j \in from..(i - 1)
    BY <1>1, <1>2
  <2> QED
    BY <1>2, <2>1, <2>2
<1>5. /\ RegionEnd(s) \in s..Len0 /\ RegionEnd(s) \in Nat /\ EndsRegion(s, RegionEnd(s))
      /\ \A i \in s..Len0 : EndsRegion(s, i) => RegionEnd(s) <= i
  BY RegionEndIs
<1>6. at \in s..Len0 /\ RegionEnd(s) \in from..Len0
  BY <1>1, <1>2, <1>3, <1>5
<1> HIDE DEF from, at
<1>7. at <= RegionEnd(s) /\ RegionEnd(s) <= at
  BY <1>3, <1>4, <1>5, <1>6
<1>8. at = RegionEnd(s)
  BY <1>3, <1>5, <1>7
<1> QED
  BY <1>8 DEF at

-----------------------------------------------------------------------------
(* Block heads *)

LEMMA ClaimedIs ==
    ASSUME NEW s \in Nat \ {0}, NEW e \in Nat, NEW c
    PROVE  /\ Claimed(s, e, c) \in Nat
           /\ Claimed(s, e, c) # 0 =>
                 Claimed(s, e, c) \in HeadsIn(s, e) /\ <<Claimed(s, e, c), c>> \in claims
           /\ Claimed(s, e, c) = 0 => \A i \in HeadsIn(s, e) : <<i, c>> \notin claims
<1> DEFINE S == {i \in HeadsIn(s, e) : <<i, c>> \in claims}
<1>1. S \in SUBSET Nat /\ 0 \notin S
  BY DEF HeadsIn
<1>2. Claimed(s, e, c) = Least(S)
  BY DEF Claimed
<1>3. /\ S = {} => Least(S) = 0
      /\ S # {} => Least(S) \in S
      /\ Least(S) \in Nat
  BY <1>1, LeastIs
<1> QED
  BY <1>1, <1>2, <1>3

\* What a remembered scan says of a later start in its region.
LEMMA HeadAnswersAre ==
    ASSUME TokensOK, HeadsFit, NEW s \in DOMAIN tokens, NEW e \in Nat,
           NEW c \in Probes \cup {"none"}
    PROVE  /\ HeadAnswer(s, e, c) = "yes" => c # "none" /\ Claimed(s, e, c) # 0
           /\ HeadAnswer(s, e, c) = "no" =>
                 IF c = "none" THEN HeadsIn(s, e) = {} ELSE Claimed(s, e, c) = 0
<1>1. Len0 \in Nat \ {0} /\ s \in 1..Len0 /\ s \in Nat \ {0}
  BY KindIs
<1>2. "none" \notin Probes
  BY DEF Probes
<1>3. ASSUME NEW from \in Nat \ {0}, from <= s
      PROVE  /\ \A i \in HeadsIn(s, e) : i \in HeadsIn(from, e)
             /\ \A i \in HeadsIn(from, e) : s <= i => i \in HeadsIn(s, e)
  BY <1>1, <1>3 DEF HeadsIn
<1>4. CASE <<e, c>> \in DOMAIN heads
  <2> DEFINE scan == heads[<<e, c>>]
  <2>1. /\ scan.from \in Nat \ {0} /\ scan.head \in Nat
        /\ c = "none" => scan.head = 0 /\ HeadsIn(scan.from, e) = {}
        /\ c # "none" => scan.head = Claimed(scan.from, e, c)
    BY <1>4 DEF HeadsFit
  <2>2. HeadAnswer(s, e, c) = Known(scan, s)
    BY <1>4 DEF HeadAnswer
  <2> HIDE DEF scan
  <2>3. CASE HeadAnswer(s, e, c) = "yes"
    <3>1. scan.head # 0 /\ s <= scan.head /\ scan.from <= s
      BY <1>1, <2>1, <2>2, <2>3 DEF Known
    <3>2. /\ c # "none" /\ scan.head \in HeadsIn(scan.from, e)
          /\ <<scan.head, c>> \in claims
      BY <2>1, <3>1, ClaimedIs
    <3>3. scan.head \in HeadsIn(s, e)
      BY <1>3, <2>1, <3>1, <3>2
    <3> QED
      BY <1>1, <2>3, <3>2, <3>3, ClaimedIs
  <2>4. CASE HeadAnswer(s, e, c) = "no"
    <3>1. scan.head = 0 /\ scan.from <= s
      BY <1>1, <2>1, <2>2, <2>4 DEF Known
    <3>2. \A i \in HeadsIn(s, e) : i \in HeadsIn(scan.from, e)
      BY <1>3, <2>1, <3>1
    <3>3. CASE c = "none"
      BY <2>1, <2>4, <3>2, <3>3
    <3>4. CASE c # "none"
      <4>1. \A i \in HeadsIn(scan.from, e) : <<i, c>> \notin claims
        BY <2>1, <3>1, <3>4, ClaimedIs
      <4> QED
        BY <1>1, <2>4, <3>2, <3>4, <4>1, ClaimedIs
    <3> QED
      BY <3>3, <3>4
  <2> QED
    BY <2>3, <2>4
<1>5. CASE <<e, c>> \notin DOMAIN heads /\ <<e, "none">> \in DOMAIN heads
  <2> DEFINE scan == heads[<<e, "none">>]
  <2>1. /\ scan.from \in Nat \ {0}
        /\ scan.head = 0 /\ HeadsIn(scan.from, e) = {}
    BY <1>5 DEF HeadsFit
  <2>2. HeadAnswer(s, e, c) = Known(scan, s)
    BY <1>5 DEF HeadAnswer
  <2> HIDE DEF scan
  <2>3. HeadAnswer(s, e, c) # "yes"
    BY <2>1, <2>2 DEF Known
  <2>4. HeadAnswer(s, e, c) = "no" => HeadsIn(s, e) = {}
    <3> SUFFICES ASSUME HeadAnswer(s, e, c) = "no" PROVE HeadsIn(s, e) = {}
      OBVIOUS
    <3>1. scan.from <= s
      BY <1>1, <2>1, <2>2 DEF Known
    <3> QED
      BY <1>3, <2>1, <3>1
  <2> QED
    BY <1>1, <2>3, <2>4, ClaimedIs
<1>6. CASE <<e, c>> \notin DOMAIN heads /\ <<e, "none">> \notin DOMAIN heads
  BY <1>6 DEF HeadAnswer
<1> QED
  BY <1>4, <1>5, <1>6

LEMMA HeadsKeep ==
    ASSUME TokensOK, HeadsFit, NEW s \in DOMAIN tokens, NEW c \in Probes \cup {"none"},
           ScanHeads(s, RegionEnd(s), c)
    PROVE  HeadsFit'
<1> DEFINE e == RegionEnd(s)
           saw == HeadsIn(s, e) # {}
           key == <<e, IF saw THEN c ELSE "none">>
           scan == [from |-> s, head |-> IF saw THEN Claimed(s, e, c) ELSE 0]
<1>1. UNCHANGED <<tokens, claims>>
  BY DEF ScanHeads
<1>2. Len0' = Len0 /\ \A i : Kind(i)' = Kind(i)
  BY <1>1, SameTokens
<1>3. /\ \A from, to : HeadsIn(from, to)' = HeadsIn(from, to)
      /\ \A from, to, k : Claimed(from, to, k)' = Claimed(from, to, k)
  BY <1>1, <1>2 DEF HeadsIn, Claimed
<1>4. s \in Nat \ {0} /\ e \in Nat
  BY KindIs, RegionEndIs
<1>5. CASE saw /\ c = "none"
  <2>1. heads' = heads
    BY <1>5 DEF ScanHeads
  <2> QED
    BY <1>3, <2>1 DEF HeadsFit
<1>6. CASE ~(saw /\ c = "none")
  <2>1. heads' = [k \in DOMAIN heads \cup {key} |-> IF k = key THEN scan ELSE heads[k]]
    BY <1>6 DEF ScanHeads
  <2>2. /\ key \in Nat \X (Probes \cup {"none"}) /\ scan \in [from : Nat, head : Nat]
        /\ scan.from = s
        /\ key[2] = "none" => scan.head = 0 /\ HeadsIn(s, e) = {}
        /\ key[2] # "none" => scan.head = Claimed(s, e, key[2])
        /\ key[1] = e
    <3>1. CASE saw
      BY <1>4, <1>6, <3>1, ClaimedIs
    <3>2. CASE ~saw
      BY <1>4, <3>2
    <3> QED
      BY <3>1, <3>2
  <2> HIDE DEF key, scan, saw
  <2>3. DOMAIN heads' = DOMAIN heads \cup {key}
    BY <2>1
  <2>4. \A k \in DOMAIN heads' : heads'[k] = IF k = key THEN scan ELSE heads[k]
    BY <2>1
  <2>5. DOMAIN heads' \subseteq Nat \X (Probes \cup {"none"})
    BY <2>2, <2>3 DEF HeadsFit
  <2>6. \A k \in DOMAIN heads' : heads'[k] \in [from : Nat, head : Nat]
    BY <2>2, <2>3, <2>4 DEF HeadsFit
  <2>7. ASSUME NEW x \in Nat, NEW k \in Probes \cup {"none"}, <<x, k>> \in DOMAIN heads'
        PROVE  /\ heads'[<<x, k>>].from # 0
               /\ k = "none" => /\ heads'[<<x, k>>].head = 0
                               /\ HeadsIn(heads'[<<x, k>>].from, x) = {}
               /\ k # "none" =>
                     heads'[<<x, k>>].head = Claimed(heads'[<<x, k>>].from, x, k)
    <3>1. CASE <<x, k>> = key
      <4>1. x = e /\ k = key[2]
        BY <2>2, <3>1
      <4> QED
        BY <1>4, <2>2, <2>4, <2>7, <3>1, <4>1
    <3>2. CASE <<x, k>> # key
      <4>1. <<x, k>> \in DOMAIN heads /\ heads'[<<x, k>>] = heads[<<x, k>>]
        BY <2>3, <2>4, <2>7, <3>2
      <4> QED
        BY <4>1 DEF HeadsFit
    <3> QED
      BY <3>1, <3>2
  <2> QED
    BY <1>3, <2>5, <2>6, <2>7 DEF HeadsFit, Probes
<1> QED
  BY <1>5, <1>6

-----------------------------------------------------------------------------
(* Labels *)

LEMMA LabelsKeep ==
    ASSUME TokensOK, LabelsFit, NEW s \in DOMAIN tokens, NEW f \in LabelFlags, AskLabel(s, f)
    PROVE  LabelsFit'
<1> DEFINE S == {i \in s..Len0 : <<i, f>> \in labels \/ LabelEnds(i, f)}
           stop == LabelStop(s, f)
<1>1. tokens' = tokens /\ labels' = labels \cup FailedFrom(s, f)
  BY DEF AskLabel
<1>2. Len0' = Len0 /\ \A i : Kind(i)' = Kind(i)
  BY <1>1, SameTokens
<1>3. /\ Len0 \in Nat \ {0} /\ s \in 1..Len0 /\ DOMAIN tokens = 1..Len0
      /\ Kind(Len0) = "end"
  BY KindIs
<1>4. S \in SUBSET Nat /\ Len0 \in S
  BY <1>3 DEF LabelEnds, LabelFails
<1>5. stop \in S /\ \A j \in S : stop <= j
  BY <1>4, LeastIs DEF LabelStop
<1>6. /\ stop \in s..Len0 /\ stop \in Nat
      /\ \A i \in s..(stop - 1) : ~LabelEnds(i, f)
  <2>1. /\ \A j \in S : j \in s..Len0
        /\ \A j \in s..Len0 : LabelEnds(j, f) => j \in S
    OBVIOUS
  <2> HIDE DEF S, stop
  <2>2. stop \in s..Len0 /\ stop \in Nat
    BY <1>3, <1>5, <2>1
  <2>3. \A i \in s..(stop - 1) : i \in s..Len0 /\ ~(stop <= i)
    BY <1>3, <2>2
  <2> QED
    BY <1>5, <2>1, <2>2, <2>3
<1> HIDE DEF S, stop
<1>p. s \in Nat /\ stop \in Nat /\ Len0 \in Nat /\ 1 <= s /\ s <= stop /\ stop <= Len0
  BY <1>3, <1>6
<1>7. ASSUME NEW i \in s..stop, <<i, f>> \in FailedFrom(s, f)
      PROVE  FailsFrom(i, f)
  <2>1. i \in Nat /\ s <= i /\ i <= stop
    BY <1>p
  <2>2. CASE LabelFails(stop, f)
    <3>1. stop \in i..Len0 /\ \A j \in i..(stop - 1) : j \in s..(stop - 1)
      BY <1>p, <2>1
    <3> QED
      BY <1>6, <2>2, <3>1 DEF FailsFrom
  <2>3. CASE <<stop, f>> \in labels
    <3>1. PICK t \in stop..Len0 :
              LabelFails(t, f) /\ \A j \in stop..(t - 1) : ~LabelEnds(j, f)
      BY <1>3, <1>6, <2>3 DEF LabelsFit, FailsFrom
    <3>2. t \in i..Len0
      BY <1>p, <2>1
    <3>3. \A j \in i..(t - 1) : j \in s..(stop - 1) \/ j \in stop..(t - 1)
      BY <1>p, <2>1
    <3> QED
      BY <1>6, <3>1, <3>2, <3>3 DEF FailsFrom
  <2> QED
    BY <1>7, <2>2, <2>3 DEF FailedFrom, stop
<1>8. \A l \in FailedFrom(s, f) : \E i \in s..stop : l = <<i, f>>
  BY DEF FailedFrom, stop
<1>9. s..stop \subseteq DOMAIN tokens
  <2>1. s..stop \subseteq 1..Len0
    BY <1>p
  <2> QED
    BY <1>3, <2>1
<1>10. labels' \subseteq (DOMAIN tokens) \X LabelFlags
  BY <1>1, <1>8, <1>9 DEF LabelsFit
<1>11. ASSUME NEW t \in DOMAIN tokens, NEW g \in LabelFlags, <<t, g>> \in labels'
       PROVE  FailsFrom(t, g)
  <2>1. CASE <<t, g>> \in labels
    BY <2>1 DEF LabelsFit
  <2>2. CASE <<t, g>> \in FailedFrom(s, f)
    <3>1. PICK i \in s..stop : <<t, g>> = <<i, f>>
      BY <1>8, <2>2
    <3>2. t = i /\ g = f
      BY <3>1
    <3> QED
      BY <1>7, <2>2, <3>2
  <2> QED
    BY <1>1, <1>11, <2>1, <2>2
<1>12. \A t, g : FailsFrom(t, g)' <=> FailsFrom(t, g)
  BY <1>2 DEF FailsFrom, LabelFails, LabelEnds
<1> QED
  BY <1>1, <1>10, <1>11, <1>12 DEF LabelsFit

LEMMA LabelAnswersAre ==
    ASSUME TokensOK, NEW s \in DOMAIN tokens, NEW f, FailsFrom(s, f)
    PROVE  LabelFails(Least({i \in s..Len0 : LabelEnds(i, f)}), f)
<1> DEFINE S == {i \in s..Len0 : LabelEnds(i, f)}
<1>1. Len0 \in Nat \ {0} /\ s \in 1..Len0
  BY KindIs
<1>2. PICK stop \in s..Len0 : LabelFails(stop, f) /\ \A i \in s..(stop - 1) : ~LabelEnds(i, f)
  BY DEF FailsFrom
<1>3. S \in SUBSET Nat /\ stop \in S /\ \A j \in S : stop <= j
  BY <1>1, <1>2 DEF LabelEnds
<1>4. Least(S) = stop
  BY <1>3, LeastUnique
<1> QED
  BY <1>2, <1>4

-----------------------------------------------------------------------------
(* The steps *)

LEMMA InitIInv == Init => IInv
<1> SUFFICES ASSUME Init PROVE IInv
  OBVIOUS
<1>1. TokensOK
  BY DEF Init, TokensOK
<1>2. \A d : Fits(NoProof, d)
  BY DEF Fits, NoProof, Proof
<1>3. AbsencesFit
  BY <1>2 DEF Init, AbsencesFit, NoProof, Proof
<1>4. DelimiterWalkFits /\ MathFits
  BY <1>1, KindIs DEF Init, DelimiterWalkFits, MathFits, NoWalk
<1>5. SearchesFit /\ RegionFits
  BY DEF Init, SearchesFit, RegionFits, NotSearched
<1>6. HeadsFit
  BY DEF Init, HeadsFit
<1>7. LabelsFit
  BY DEF Init, LabelsFit
<1> QED
  BY <1>1, <1>3, <1>4, <1>5, <1>6, <1>7 DEF IInv

\* What a step leaves alone fits the tokens as it did.
LEMMA Untouched ==
    ASSUME IInv, tokens' = tokens
    PROVE  /\ TokensOK'
           /\ UNCHANGED <<plain, free>> => AbsencesFit'
           /\ UNCHANGED walk => DelimiterWalkFits'
           /\ UNCHANGED <<math, walk>> => MathFits'
           /\ UNCHANGED found => SearchesFit'
           /\ UNCHANGED region => RegionFits'
           /\ UNCHANGED <<heads, claims>> => HeadsFit'
           /\ UNCHANGED labels => LabelsFit'
<1>1. Len0' = Len0 /\ (\A i : Kind(i)' = Kind(i)) /\ TokensOK'
  BY SameTokens DEF IInv
<1>2. UNCHANGED <<plain, free>> => AbsencesFit'
  BY <1>1, FitsStays DEF IInv, AbsencesFit, BlockTokens
<1>3. UNCHANGED walk => DelimiterWalkFits'
  BY <1>1 DEF IInv, DelimiterWalkFits, DelimiterWalk, Met, BlocksMatter, BlockTokens
<1>4. UNCHANGED <<math, walk>> => MathFits'
  BY <1>1 DEF IInv, MathFits, MathWalk, Met, Opaque
<1>5. \A k, s : FirstOf(k, s)' = FirstOf(k, s)
  BY <1>1 DEF FirstOf
<1>6. UNCHANGED found => SearchesFit'
  BY <1>1, <1>5 DEF IInv, SearchesFit
<1>7. \A s : RegionEnd(s)' = RegionEnd(s)
  BY <1>1 DEF RegionEnd
<1>8. UNCHANGED region => RegionFits'
  BY <1>1, <1>7 DEF IInv, RegionFits
<1>9. UNCHANGED <<heads, claims>> => HeadsFit'
  BY <1>1 DEF IInv, HeadsFit, HeadsIn, Claimed, Probes
<1>10. UNCHANGED labels => LabelsFit'
  BY <1>1 DEF IInv, LabelsFit, FailsFrom, LabelFails, LabelEnds
<1> QED
  BY <1>1, <1>2, <1>3, <1>4, <1>6, <1>8, <1>9, <1>10

LEMMA NextIInv == IInv /\ [Next]_vars => IInv'
<1> SUFFICES ASSUME IInv, [Next]_vars PROVE IInv'
  OBVIOUS
<1>0. /\ TokensOK /\ Len0 \in Nat \ {0} /\ DOMAIN tokens = 1..Len0
      /\ Len0' = Len0 \/ tokens' # tokens
  BY KindIs, SameTokens DEF IInv
<1>1. CASE DelimiterStep
  <2>1. UNCHANGED <<tokens, math, found, region, heads, claims, labels>>
    BY <1>1 DEF DelimiterStep, AskDelimiter, WalkCloser, WalkBreak, WalkBlockStart,
                WalkBlockEnd, WalkPast, WalkEnd, Walking
  <2>2. AbsencesFit' /\ DelimiterWalkFits' /\ walk'.for # "math"
    BY <1>1, DelimiterKeeps DEF IInv
  <2>3. MathFits'
    <3>1. Len0' = Len0 /\ \A i : Kind(i)' = Kind(i)
      BY <2>1, SameTokens
    <3> QED
      BY <2>1, <2>2, <3>1 DEF IInv, MathFits, Opaque
  <2> QED
    BY <2>1, <2>2, <2>3, Untouched DEF IInv
<1>2. CASE MathStep
  <2>1. UNCHANGED <<tokens, plain, free, found, region, heads, claims, labels>>
    BY <1>2 DEF MathStep, AskMath, MathStop, MathJump, MathPast, MathEnd, WalkingMath
  <2>2. MathFits' /\ walk'.for # "delimiter"
    BY <1>2, MathKeeps DEF IInv
  <2>3. DelimiterWalkFits'
    BY <2>2 DEF DelimiterWalkFits
  <2> QED
    BY <2>1, <2>2, <2>3, Untouched DEF IInv
<1>3. ASSUME NEW k \in Needle, NEW s \in DOMAIN tokens, Find(k, s) PROVE IInv'
  <2>1. /\ UNCHANGED <<tokens, plain, free, math, walk, region, heads, claims, labels>>
        /\ found' = [found EXCEPT ![k] = [from |-> s, at |-> FirstOf(Stops[k], s)]]
    BY <1>3 DEF Find
  <2>2. \A x, y : FirstOf(x, y)' = FirstOf(x, y)
    BY <2>1, SameTokens DEF FirstOf
  <2>3. s \in Nat /\ FirstOf(Stops[k], s) \in Nat
    BY <1>0, FirstOfIs
  <2>4. found' \in [Needle -> [from : Nat, at : Nat]]
    BY <2>1, <2>3 DEF IInv, SearchesFit
  <2>5. ASSUME NEW x \in Needle, found'[x].from # 0
        PROVE  /\ found'[x].from \in 1..Len0
               /\ found'[x].at = FirstOf(Stops[x], found'[x].from)
    BY <1>0, <2>1, <2>5 DEF IInv, SearchesFit
  <2>6. SearchesFit'
    BY <1>0, <2>1, <2>2, <2>4, <2>5 DEF SearchesFit
  <2> QED
    BY <2>1, <2>6, Untouched DEF IInv
<1>4. ASSUME NEW s \in DOMAIN tokens, AskRegion(s) PROVE IInv'
  <2>1. /\ UNCHANGED <<tokens, plain, free, math, walk, found, heads, claims, labels>>
        /\ region' = [from |-> s, at |-> IF RegionKnown(s) THEN region.at ELSE RegionEnd(s)]
    BY <1>4 DEF AskRegion
  <2>2. RegionEnd(s)' = RegionEnd(s)
    BY <2>1, SameTokens DEF RegionEnd
  <2>3. region' = [from |-> s, at |-> RegionEnd(s)]
    BY <2>1, RegionIs DEF IInv
  <2>4. s \in Nat /\ RegionEnd(s) \in Nat
    BY <1>0, RegionEndIs
  <2>5. RegionFits'
    BY <1>0, <2>1, <2>2, <2>3, <2>4 DEF RegionFits
  <2> QED
    BY <2>1, <2>5, Untouched DEF IInv
<1>5. ASSUME NEW s \in DOMAIN tokens, NEW c \in Probes \cup {"none"},
             ScanHeads(s, RegionEnd(s), c)
      PROVE  IInv'
  <2>1. UNCHANGED <<tokens, plain, free, math, walk, found, region, labels>>
    BY <1>5 DEF ScanHeads
  <2>2. HeadsFit'
    BY <1>5, HeadsKeep DEF IInv
  <2> QED
    BY <2>1, <2>2, Untouched DEF IInv
<1>6. ASSUME NEW s \in DOMAIN tokens, NEW f \in LabelFlags, AskLabel(s, f) PROVE IInv'
  <2>1. UNCHANGED <<tokens, plain, free, math, walk, found, region, heads, claims>>
    BY <1>6 DEF AskLabel
  <2>2. LabelsFit'
    BY <1>6, LabelsKeep DEF IInv
  <2> QED
    BY <2>1, <2>2, Untouched DEF IInv
<1>7. CASE UNCHANGED vars
  BY <1>7, Untouched DEF vars, IInv
<1> QED
  BY <1>1, <1>2, <1>3, <1>4, <1>5, <1>6, <1>7
     DEF Next, FindStep, RegionStep, HeadStep, LabelStep

-----------------------------------------------------------------------------
(* Theorems *)

LEMMA IInvFresh == IInv => ScansFresh
<1> SUFFICES ASSUME IInv PROVE ScansFresh
  OBVIOUS
<1>1. \A k \in Needle, s \in DOMAIN tokens :
         Searched(k, s) => found[k].at = FirstOf(Stops[k], s)
  BY SearchesAre DEF IInv
<1>2. \A s \in DOMAIN tokens : RegionKnown(s) => region.at = RegionEnd(s)
  BY RegionIs DEF IInv
<1>3. ASSUME NEW s \in DOMAIN tokens, NEW c \in Probes \cup {"none"}
      PROVE  LET e == RegionEnd(s)
                 answer == HeadAnswer(s, e, c)
             IN  /\ answer = "yes" => c # "none" /\ Claimed(s, e, c) # 0
                 /\ answer = "no" => IF c = "none" THEN HeadsIn(s, e) = {}
                                     ELSE Claimed(s, e, c) = 0
  BY RegionEndIs, HeadAnswersAre DEF IInv
<1>4. ASSUME NEW l \in labels
      PROVE  LabelFails(Least({i \in l[1]..Len0 : LabelEnds(i, l[2])}), l[2])
  <2>1. PICK s \in DOMAIN tokens, f \in LabelFlags : l = <<s, f>>
    BY DEF IInv, LabelsFit
  <2>2. FailsFrom(s, f)
    BY <2>1 DEF IInv, LabelsFit
  <2>3. LabelFails(Least({i \in s..Len0 : LabelEnds(i, f)}), f)
    BY <2>2, LabelAnswersAre DEF IInv
  <2> QED
    BY <2>1, <2>3
<1>5. DelimiterAnswersFresh
  BY DelimiterAnswersAre DEF IInv
<1>6. \A s \in DOMAIN tokens :
         MathAbsent(s) => FirstOf({"math", "break", "raw", "end"}, s) = Len0
  BY MathAnswersAre DEF IInv
<1> QED
  BY <1>1, <1>2, <1>3, <1>4, <1>5, <1>6 DEF ScansFresh, LinkMemosFresh

\* On every page, whatever was asked before in whatever order and contexts, an answer
\* from memory is the one a scan of the tokens would give: of closers and the error their
\* absence makes (closer_scan.rs), of searches, regions, block heads and labels of links
\* (unmatched_close_scan.rs).
THEOREM MemoryIsFresh == Spec => []ScansFresh
  BY InitIInv, NextIInv, IInvFresh, PTL DEF Spec

=============================================================================
