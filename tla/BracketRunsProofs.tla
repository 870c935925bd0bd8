-------------------------- MODULE BracketRunsProofs --------------------------
(***************************************************************************)
(* Proofs about BracketRuns, for every page that its tokens tile and both  *)
(* layouts, whichever blocks parse.                                        *)
(***************************************************************************)
EXTENDS BracketRuns, SequenceTheorems, WellFoundedInduction, TLAPS

-----------------------------------------------------------------------------
(* Tokens and sequences *)

\* What the characters of the tokens are that are split or come of it.
LEMMA CharsAre ==
    /\ Chars("[") = <<"[">> /\ Width("[") = 1
    /\ Chars("[[") = <<"[", "[">> /\ Width("[[") = 2
    /\ Chars("[[[") = <<"[", "[", "[">> /\ Width("[[[") = 3
    /\ Chars("[!--") = <<"[", "!", "-", "-">> /\ Width("[!--") = 4
    /\ Chars("!") = <<"!">> /\ Width("!") = 1
    /\ Chars("--") = <<"-", "-">> /\ Width("--") = 2
  BY DEF Chars, Width

LEMMA TokIsToken ==
    ASSUME NEW start \in Nat
    PROVE  /\ Tok("[", start) \in Token
           /\ Tok("[[", start) \in Token
           /\ Tok("[!--", start) \in Token
  BY CharsAre DEF Tok, Token, Kind

LEMMA LeastIs ==
    ASSUME NEW S \in SUBSET Nat, S # {}
    PROVE  Least(S) \in S /\ \A j \in S : Least(S) <= j
<1>1. PICK x \in S : \A y \in S : ~(<<y, x>> \in OpToRel(<, Nat))
  BY WFMin, NatLessThanWellFounded
<1>2. \A y \in S : x <= y
  <2> SUFFICES ASSUME NEW y \in S PROVE x <= y
    OBVIOUS
  <2>1. <<y, x>> \in Nat \X Nat /\ ~(<<y, x>> \in OpToRel(<, Nat))
    BY <1>1
  <2>2. ~(y < x)
    BY <2>1 DEF OpToRel
  <2> QED
    BY <2>2
<1> QED
  BY <1>2 DEF Least

\* What putting tokens in the place of n others makes of a list.
LEMMA SplicedIs ==
    ASSUME tokens \in Seq(Token), index \in Nat \ {0},
           NEW n \in Nat, index + n <= Len(tokens) + 1,
           NEW with \in Seq(Token)
    PROVE  /\ Spliced(n, with) \in Seq(Token)
           /\ Len(Spliced(n, with)) = Len(tokens) - n + Len(with)
           /\ \A i \in 1..(Len(tokens) - n + Len(with)) :
                Spliced(n, with)[i] =
                    IF i < index THEN tokens[i]
                    ELSE IF i < index + Len(with) THEN with[i - index + 1]
                    ELSE tokens[i + n - Len(with)]
<1> DEFINE before == SubSeq(tokens, 1, index - 1)
           after  == SubSeq(tokens, index + n, Len(tokens))
<1>1. Len(tokens) \in Nat /\ Len(with) \in Nat
  BY LenProperties
<1>2. /\ before \in Seq(Token) /\ Len(before) = index - 1
      /\ \A i \in 1..(index - 1) : before[i] = tokens[i]
  <2>1. \A i \in 1..(index - 1) : tokens[i] \in Token
    BY <1>1, ElementOfSeq
  <2> QED
    BY <2>1, SubSeqProperties
<1>3. /\ after \in Seq(Token) /\ Len(after) = Len(tokens) - (index + n) + 1
      /\ \A i \in 1..(Len(tokens) - (index + n) + 1) : after[i] = tokens[index + n + i - 1]
  <2>1. \A i \in (index + n)..Len(tokens) : tokens[i] \in Token
    BY <1>1, ElementOfSeq
  <2> QED
    BY <1>1, <2>1, SubSeqProperties
<1>4. Spliced(n, with) = before \o with \o after
  BY DEF Spliced
<1> HIDE DEF before, after
<1> DEFINE front == before \o with
<1>5. /\ front \in Seq(Token) /\ Len(front) = index - 1 + Len(with)
      /\ \A i \in 1..(index - 1 + Len(with)) :
            front[i] = IF i <= index - 1 THEN before[i] ELSE with[i - (index - 1)]
  <2>1. /\ front \in Seq(Token) /\ Len(front) = Len(before) + Len(with)
        /\ \A i \in 1..(Len(before) + Len(with)) :
            front[i] = IF i <= Len(before) THEN before[i] ELSE with[i - Len(before)]
    BY <1>2, ConcatProperties
  <2>2. Len(before) = index - 1
    BY <1>2
  <2> HIDE DEF front
  <2> QED
    BY <2>1, <2>2
<1>6. Spliced(n, with) = front \o after
  BY <1>4
<1> HIDE DEF front
<1>7. /\ Spliced(n, with) \in Seq(Token)
      /\ Len(Spliced(n, with)) = Len(tokens) - n + Len(with)
      /\ \A i \in 1..(Len(tokens) - n + Len(with)) :
            Spliced(n, with)[i] = IF i < index + Len(with) THEN front[i]
                                  ELSE after[i - (index - 1 + Len(with))]
  <2>1. /\ front \o after \in Seq(Token) /\ Len(front \o after) = Len(front) + Len(after)
        /\ \A i \in 1..(Len(front) + Len(after)) :
            (front \o after)[i] = IF i <= Len(front) THEN front[i] ELSE after[i - Len(front)]
    BY <1>3, <1>5, ConcatProperties
  <2>2. Len(front) + Len(after) = Len(tokens) - n + Len(with)
    BY <1>1, <1>3, <1>5
  <2>3. \A i \in 1..(Len(tokens) - n + Len(with)) : i <= Len(front) <=> i < index + Len(with)
    BY <1>1, <1>5
  <2>4. Len(front) = index - 1 + Len(with)
    BY <1>5
  <2> QED
    BY <1>6, <2>1, <2>2, <2>3, <2>4
<1>8. ASSUME NEW i \in 1..(Len(tokens) - n + Len(with))
      PROVE  Spliced(n, with)[i] =
                    IF i < index THEN tokens[i]
                    ELSE IF i < index + Len(with) THEN with[i - index + 1]
                    ELSE tokens[i + n - Len(with)]
  <2>0. /\ i \in Nat \ {0} /\ i <= Len(tokens) - n + Len(with)
        /\ Spliced(n, with)[i] = IF i < index + Len(with) THEN front[i]
                                  ELSE after[i - (index - 1 + Len(with))]
    BY <1>1, <1>7
  <2>1. CASE i < index
    <3>1. i \in 1..(index - 1) /\ i \in 1..(index - 1 + Len(with))
      BY <2>0, <2>1, <1>1
    <3>2. Spliced(n, with)[i] = front[i]
      BY <2>0, <2>1, <1>1
    <3>3. front[i] = tokens[i]
      BY <3>1, <1>2, <1>5
    <3> QED
      BY <2>1, <3>2, <3>3
  <2>2. CASE i >= index /\ i < index + Len(with)
    <3>1. i \in 1..(index - 1 + Len(with)) /\ ~(i <= index - 1) /\ ~(i < index)
          /\ i - (index - 1) = i - index + 1
      BY <2>0, <2>2, <1>1
    <3>2. front[i] = with[i - (index - 1)]
      BY <3>1, <1>5
    <3> QED
      BY <2>0, <2>2, <3>1, <3>2
  <2>3. CASE i >= index + Len(with)
    <3> DEFINE k == i - (index - 1 + Len(with))
    <3>1. ~(i < index + Len(with)) /\ ~(i < index)
      BY <2>0, <2>3, <1>1
    <3>2. k \in 1..(Len(tokens) - (index + n) + 1) /\ index + n + k - 1 = i + n - Len(with)
      BY <2>0, <2>3, <1>1
    <3>3. after[k] = tokens[index + n + k - 1]
      BY <3>2, <1>3
    <3> QED
      BY <2>0, <3>1, <3>2, <3>3
  <2> QED
    BY <2>0, <2>1, <2>2, <2>3, <1>1
<1> QED
  BY <1>7, <1>8

-----------------------------------------------------------------------------
(* The invariant *)

\* What the head gate remembers: a token that can end a head, up to which it has
\* looked, or that no token can that is still asked about.
GateFits ==
    /\ gate.next # 0 => CanEndHead(tokens, gate.next) /\ gate.scanned = gate.next + 1
    /\ gate.next = 0 /\ gate.scanned > index => HeadEnds(tokens, index + 2) = {}

IInv == TypeOK /\ TokensTile /\ GateFits

-----------------------------------------------------------------------------
(* What the gate answers *)

LEMMA AskedIs ==
    ASSUME TypeOK, GateFits, NEW from \in Nat, from >= index + 2
    PROVE  /\ Asked(from) \in [next : Nat, scanned : Nat]
           /\ Asked(from).next # 0 =>
                /\ Asked(from).next \in HeadEnds(tokens, from)
                /\ Asked(from).scanned = Asked(from).next + 1
           /\ Asked(from).next = 0 => HeadEnds(tokens, from) = {}
<1> DEFINE at   == IF gate.scanned > from THEN gate.scanned ELSE from
           ends == HeadEnds(tokens, at)
<1>1. /\ Len(tokens) \in Nat /\ DOMAIN tokens = 1..Len(tokens)
      /\ index \in Nat \ {0} /\ gate \in [next : Nat, scanned : Nat]
      /\ gate.next # 0 => gate.next \in DOMAIN tokens
  BY LenProperties DEF TypeOK
<1>2. CASE gate.next >= from
  <2>1. Asked(from) = gate
    BY <1>2 DEF Asked
  <2>2. gate.next # 0 /\ gate.next \in HeadEnds(tokens, from)
    BY <1>1, <1>2 DEF GateFits, HeadEnds
  <2> QED
    BY <1>1, <2>1, <2>2 DEF GateFits
<1>3. CASE gate.next = 0 /\ gate.scanned > from
  <2>1. Asked(from) = gate
    BY <1>3 DEF Asked
  <2>2. HeadEnds(tokens, index + 2) = {}
    BY <1>1, <1>3 DEF GateFits
  <2>3. HeadEnds(tokens, from) \subseteq HeadEnds(tokens, index + 2)
    BY <1>1 DEF HeadEnds
  <2> QED
    BY <1>1, <1>3, <2>1, <2>2, <2>3
<1>4. CASE ~(gate.next >= from) /\ ~(gate.next = 0 /\ gate.scanned > from)
  <2>1. at = from
    BY <1>1, <1>4 DEF GateFits
  <2>2. ends \in SUBSET Nat /\ ends = HeadEnds(tokens, from)
    BY <1>1, <2>1 DEF HeadEnds
  <2>3. Asked(from) = IF ends = {} THEN [next |-> 0, scanned |-> Len(tokens) + 1]
                      ELSE [next |-> Least(ends), scanned |-> Least(ends) + 1]
    BY <1>4 DEF Asked
  <2> HIDE DEF ends
  <2>4. CASE ends = {}
    BY <1>1, <2>2, <2>3, <2>4
  <2>5. CASE ends # {}
    <3>1. Least(ends) \in ends /\ Least(ends) \in Nat
      BY <2>2, <2>5, LeastIs
    <3>2. Least(ends) # 0
      BY <3>1, <2>2, <1>1 DEF HeadEnds
    <3> QED
      BY <2>2, <2>3, <2>5, <3>1, <3>2
  <2> QED
    BY <2>4, <2>5
<1> QED
  BY <1>2, <1>3, <1>4

\* So it answers as if it had looked at all the tokens.
LEMMA AnswersExactly ==
    ASSUME TypeOK, GateFits, NEW from \in Nat, from >= index + 2
    PROVE  Exact(from)
<1>1. Asked(from).next # 0 => HeadEnds(tokens, from) # {}
  BY AskedIs
<1>2. Asked(from).next = 0 => HeadEnds(tokens, from) = {}
  BY AskedIs
<1> QED
  BY <1>1, <1>2 DEF Exact, HeadMayEnd

-----------------------------------------------------------------------------
(* The readings tile the text *)

\* Some tokens hold the same text as the n at the index.
Fits(n, with) ==
    /\ n \in Nat \ {0} /\ index + n <= Len(tokens) + 1
    /\ with \in Seq(Token) /\ Len(with) > 0
    /\ with[1].start = Here
    /\ with[Len(with)].end = tokens[index + n - 1].end
    /\ \A i \in 2..Len(with) : with[i].start = with[i - 1].end
    /\ \A i \in 1..Len(with) : Holds(with[i], source)

LEMMA TilesSpliced ==
    ASSUME tokens \in Seq(Token), index \in Nat \ {0}, TokensTile,
           NEW n, NEW with, Fits(n, with)
    PROVE  Tiles(Spliced(n, with), source)
<1>0. /\ n \in Nat \ {0} /\ index + n <= Len(tokens) + 1
      /\ with \in Seq(Token) /\ Len(with) > 0
      /\ with[1].start = Here
      /\ with[Len(with)].end = tokens[index + n - 1].end
      /\ \A i \in 2..Len(with) : with[i].start = with[i - 1].end
      /\ \A i \in 1..Len(with) : Holds(with[i], source)
  BY DEF Fits
<1> USE <1>0
<1> DEFINE c == Spliced(n, with)
           m == Len(with)
<1>1. Len(tokens) \in Nat /\ m \in Nat \ {0} /\ DOMAIN tokens = 1..Len(tokens)
  BY LenProperties
<1>2. /\ c \in Seq(Token)
      /\ Len(c) = Len(tokens) - n + m
      /\ \A i \in 1..(Len(tokens) - n + m) :
            c[i] = IF i < index THEN tokens[i]
                   ELSE IF i < index + m THEN with[i - index + 1]
                   ELSE tokens[i + n - m]
  BY SplicedIs
<1> HIDE DEF c, m
<1>3. DOMAIN c = 1..(Len(tokens) - n + m)
  BY <1>2, LenProperties
<1>4. /\ \A i \in 1..Len(tokens) :
            /\ tokens[i].start = IF i = 1 THEN 0 ELSE tokens[i - 1].end
            /\ Holds(tokens[i], source)
      /\ Len(source) = tokens[Len(tokens)].end
  <2>1. tokens # << >>
    BY <1>1
  <2> QED
    BY <1>1, <2>1 DEF TokensTile, Tiles
<1>5. ASSUME NEW i \in 1..(Len(tokens) - n + m)
      PROVE  c[i].start = (IF i = 1 THEN 0 ELSE c[i - 1].end) /\ Holds(c[i], source)
  <2>0. i \in Nat \ {0} /\ i <= Len(tokens) - n + m
    BY <1>1
  <2>1. CASE i < index
    <3>1. c[i] = tokens[i] /\ i \in 1..Len(tokens)
      BY <1>1, <1>2, <2>0, <2>1
    <3>2. i # 1 => c[i - 1] = tokens[i - 1]
      <4>1. i # 1 => i - 1 \in 1..(Len(tokens) - n + m) /\ i - 1 < index
        BY <1>1, <2>0, <2>1
      <4> QED
        BY <4>1, <1>2
    <3> QED
      BY <3>1, <3>2, <1>4
  <2>2. CASE i = index
    <3>1. c[i] = with[1] /\ 1 \in 1..m /\ index \in 1..Len(tokens)
      <4>1. ~(i < index) /\ i < index + m /\ i - index + 1 = 1 /\ 1 \in 1..m
        BY <1>1, <2>0, <2>2
      <4>2. index \in 1..Len(tokens)
        BY <1>1
      <4> QED
        BY <4>1, <4>2, <1>2
    <3>2. i # 1 => c[i - 1] = tokens[i - 1]
      <4>1. i # 1 => i - 1 \in 1..(Len(tokens) - n + m) /\ i - 1 < index
        BY <1>1, <2>0, <2>2
      <4> QED
        BY <4>1, <1>2
    <3>3. Holds(with[1], source)
      BY <3>1 DEF m
    <3> QED
      BY <3>1, <3>2, <3>3, <2>2, <1>4 DEF Here
  <2>3. CASE i > index /\ i < index + m
    <3> DEFINE k == i - index + 1
    <3>1. c[i] = with[k] /\ k \in 2..m /\ k \in 1..m
      <4>1. ~(i < index) /\ k \in 2..m /\ k \in 1..m
        BY <1>1, <2>0, <2>3
      <4> QED
        BY <4>1, <2>3, <1>2
    <3>2. c[i - 1] = with[k - 1]
      <4>1. /\ i - 1 \in 1..(Len(tokens) - n + m) /\ ~(i - 1 < index)
            /\ i - 1 < index + m /\ (i - 1) - index + 1 = k - 1
        BY <1>1, <2>0, <2>3
      <4>2. c[i - 1] = with[(i - 1) - index + 1]
        BY <4>1, <1>2
      <4> QED
        BY <4>1, <4>2
    <3>3. i # 1
      BY <2>3, <2>0
    <3> QED
      BY <3>1, <3>2, <3>3 DEF m
  <2>4. CASE i = index + m
    <3>1. c[i] = tokens[index + n] /\ index + n \in 1..Len(tokens)
      <4>1. ~(i < index) /\ ~(i < index + m) /\ i + n - m = index + n
            /\ index + n \in 1..Len(tokens)
        BY <1>1, <2>0, <2>4
      <4>2. c[i] = tokens[i + n - m]
        BY <4>1, <1>2
      <4> QED
        BY <4>1, <4>2
    <3>2. c[i - 1] = with[m]
      <4>1. /\ i - 1 \in 1..(Len(tokens) - n + m) /\ ~(i - 1 < index)
            /\ i - 1 < index + m /\ (i - 1) - index + 1 = m
        BY <1>1, <2>0, <2>4
      <4>2. c[i - 1] = with[(i - 1) - index + 1]
        BY <4>1, <1>2
      <4> QED
        BY <4>1, <4>2
    <3>3. i # 1 /\ index + n # 1
      BY <2>4, <1>1
    <3>4. with[m].end = tokens[index + n - 1].end
      BY DEF m
    <3>5. /\ tokens[index + n].start = tokens[index + n - 1].end
          /\ Holds(tokens[index + n], source)
      BY <3>1, <3>3, <1>4
    <3> QED
      BY <3>1, <3>2, <3>3, <3>4, <3>5
  <2>5. CASE i > index + m
    <3> DEFINE k == i + n - m
    <3>1. c[i] = tokens[k] /\ k \in 1..Len(tokens)
      <4>1. ~(i < index) /\ ~(i < index + m) /\ k \in 1..Len(tokens)
        BY <1>1, <2>0, <2>5
      <4> QED
        BY <4>1, <1>2
    <3>2. c[i - 1] = tokens[k - 1]
      <4>1. /\ i - 1 \in 1..(Len(tokens) - n + m) /\ ~(i - 1 < index)
            /\ ~(i - 1 < index + m) /\ (i - 1) + n - m = k - 1
        BY <1>1, <2>0, <2>5
      <4>2. c[i - 1] = tokens[(i - 1) + n - m]
        BY <4>1, <1>2
      <4> QED
        BY <4>1, <4>2
    <3>3. i # 1 /\ k # 1
      BY <2>5, <1>1
    <3>4. tokens[k].start = tokens[k - 1].end /\ Holds(tokens[k], source)
      BY <3>1, <3>3, <1>4
    <3> QED
      BY <3>1, <3>2, <3>3, <3>4
  <2> QED
    BY <2>0, <2>1, <2>2, <2>3, <2>4, <2>5, <1>1
<1>6. c # << >> /\ Len(source) = c[Len(c)].end
  <2>1. Len(c) \in 1..(Len(tokens) - n + m) /\ ~(Len(c) < index)
    BY <1>1, <1>2
  <2>2. c # << >>
    BY <1>1, <1>2
  <2>3. CASE index + n = Len(tokens) + 1
    <3>1. Len(c) < index + m /\ Len(c) - index + 1 = m /\ index + n - 1 = Len(tokens)
      <4>1. Len(c) = Len(tokens) - n + m
        BY <1>2
      <4> QED
        BY <4>1, <2>3, <1>1
    <3>2. c[Len(c)] = with[Len(c) - index + 1]
      BY <2>1, <3>1, <1>2
    <3>3. with[m].end = tokens[index + n - 1].end
      BY DEF m
    <3> QED
      BY <2>2, <3>1, <3>2, <3>3, <1>4
  <2>4. CASE index + n <= Len(tokens)
    <3>1. ~(Len(c) < index + m) /\ Len(c) + n - m = Len(tokens)
      BY <2>4, <1>1, <1>2
    <3>2. c[Len(c)] = tokens[Len(c) + n - m]
      BY <2>1, <3>1, <1>2
    <3> QED
      BY <2>2, <3>1, <3>2, <1>4
  <2> QED
    BY <2>3, <2>4, <1>1
<1>7. Tiles(c, source)
  BY <1>3, <1>5, <1>6 DEF Tiles
<1> QED
  BY <1>7 DEF c

\* A token of a list that tiles the text, and the characters of those that are split.
LEMMA TokenAt ==
    ASSUME tokens \in Seq(Token), TokensTile, NEW i \in 1..Len(tokens)
    PROVE  /\ tokens[i].start \in Nat
           /\ tokens[i].start = IF i = 1 THEN 0 ELSE tokens[i - 1].end
           /\ Holds(tokens[i], source)
<1>1. tokens[i] \in Token /\ i \in DOMAIN tokens
  BY ElementOfSeq, LenProperties
<1> QED
  BY <1>1 DEF TokensTile, Tiles, Token

LEMMA CharsHeld ==
    ASSUME NEW t, t.start \in Nat, Holds(t, source)
    PROVE  /\ t.token = "[" => t.end = t.start + 1 /\ source[t.start + 1] = "["
           /\ t.token = "[[[" => /\ t.end = t.start + 3
                                /\ source[t.start + 1] = "[" /\ source[t.start + 2] = "["
                                /\ source[t.start + 3] = "["
           /\ t.token = "!" => t.end = t.start + 1 /\ source[t.start + 1] = "!"
           /\ t.token = "--" => /\ t.end = t.start + 2
                               /\ source[t.start + 1] = "-" /\ source[t.start + 2] = "-"
  BY CharsAre DEF Holds

LEMMA PairReadings ==
    ASSUME TypeOK, TokensTile, Pair
    PROVE  /\ AsSegment \in Seq(Token) /\ Tiles(AsSegment, source)
           /\ AsPrefix \in Seq(Token) /\ Tiles(AsPrefix, source)
<1>1. /\ tokens \in Seq(Token) /\ Len(tokens) \in Nat /\ DOMAIN tokens = 1..Len(tokens)
      /\ index \in 1..Len(tokens) /\ index + 1 \in 1..Len(tokens)
      /\ tokens[index].token = "[" /\ tokens[index + 1].token = "[[["
  BY LenProperties DEF TypeOK, Pair, PairsOf, Is
<1>2. /\ Here \in Nat /\ Here = tokens[index].start
      /\ tokens[index].end = Here + 1 /\ source[Here + 1] = "["
  BY <1>1, TokenAt, CharsHeld DEF Here
<1>21. /\ tokens[index + 1].start \in Nat /\ Holds(tokens[index + 1], source)
       /\ tokens[index + 1].start = Here + 1
  <2>1. index + 1 # 1 /\ (index + 1) - 1 = index
    BY <1>1
  <2> QED
    BY <1>1, <1>2, <2>1, TokenAt
<1>3. /\ tokens[index + 1].end = Here + 4
      /\ source[Here + 2] = "[" /\ source[Here + 3] = "[" /\ source[Here + 4] = "["
  <2> DEFINE t == tokens[index + 1]
  <2>1. /\ t.end = t.start + 3
        /\ source[t.start + 1] = "[" /\ source[t.start + 2] = "[" /\ source[t.start + 3] = "["
    BY <1>1, <1>21, CharsHeld
  <2>2. t.start + 1 = Here + 2 /\ t.start + 2 = Here + 3 /\ t.start + 3 = Here + 4
    BY <1>2, <1>21
  <2> QED
    BY <2>1, <2>2
<1>4. /\ Holds(Tok("[", Here), source) /\ Holds(Tok("[", Here + 1), source)
      /\ Holds(Tok("[[", Here), source) /\ Holds(Tok("[[", Here + 2), source)
  BY <1>2, <1>3, CharsAre DEF Holds, Tok
<1>5. AsSegment \in Seq(Token) /\ Tiles(AsSegment, source)
  <2> DEFINE with == <<Tok("[[", Here), Tok("[[", Here + 2)>>
  <2>1. with \in Seq(Token) /\ Len(with) = 2
    BY <1>2, TokIsToken
  <2>2. /\ with[1].start = Here /\ with[2].start = with[1].end
        /\ with[2].end = tokens[index + 1].end
    BY <1>2, <1>3, CharsAre DEF Tok
  <2>3. /\ \A i \in 1..2 : Holds(with[i], source)
        /\ \A i \in 2..2 : with[i].start = with[i - 1].end
    BY <1>4, <2>2
  <2>4. /\ index \in Nat \ {0} /\ index + 2 <= Len(tokens) + 1 /\ index + 2 - 1 = index + 1
        /\ AsSegment = Spliced(2, with)
    BY <1>1 DEF AsSegment
  <2> HIDE DEF with
  <2>5. AsSegment \in Seq(Token)
    BY <1>1, <2>1, <2>4, SplicedIs
  <2>6. /\ Len(with) > 0 /\ with[Len(with)].end = tokens[index + 2 - 1].end
        /\ \A i \in 2..Len(with) : with[i].start = with[i - 1].end
        /\ \A i \in 1..Len(with) : Holds(with[i], source)
    BY <2>1, <2>2, <2>3, <2>4
  <2>7. Fits(2, with)
    BY <1>1, <2>1, <2>2, <2>4, <2>6 DEF Fits
  <2>8. Tiles(Spliced(2, with), source)
    BY <1>1, <2>4, <2>7, TilesSpliced
  <2> QED
    BY <2>4, <2>5, <2>8
<1>6. AsPrefix \in Seq(Token) /\ Tiles(AsPrefix, source)
  <2> DEFINE with == <<Tok("[", Here), Tok("[", Here + 1), Tok("[[", Here + 2)>>
  <2>1. with \in Seq(Token) /\ Len(with) = 3
    BY <1>2, TokIsToken
  <2>2. /\ with[1].start = Here /\ with[2].start = with[1].end
        /\ with[3].start = with[2].end /\ with[3].end = tokens[index + 1].end
    BY <1>2, <1>3, CharsAre DEF Tok
  <2>3. /\ \A i \in 1..3 : Holds(with[i], source)
        /\ \A i \in 2..3 : with[i].start = with[i - 1].end
    BY <1>4, <2>2
  <2>4. /\ index \in Nat \ {0} /\ index + 2 <= Len(tokens) + 1 /\ index + 2 - 1 = index + 1
        /\ AsPrefix = Spliced(2, with)
    BY <1>1 DEF AsPrefix
  <2> HIDE DEF with
  <2>5. AsPrefix \in Seq(Token)
    BY <1>1, <2>1, <2>4, SplicedIs
  <2>6. /\ Len(with) > 0 /\ with[Len(with)].end = tokens[index + 2 - 1].end
        /\ \A i \in 2..Len(with) : with[i].start = with[i - 1].end
        /\ \A i \in 1..Len(with) : Holds(with[i], source)
    BY <2>1, <2>2, <2>3, <2>4
  <2>7. Fits(2, with)
    BY <1>1, <2>1, <2>2, <2>4, <2>6 DEF Fits
  <2>8. Tiles(Spliced(2, with), source)
    BY <1>1, <2>4, <2>7, TilesSpliced
  <2> QED
    BY <2>4, <2>5, <2>8
<1> QED
  BY <1>5, <1>6

LEMMA CommentReadings ==
    ASSUME TypeOK, TokensTile, CommentHead
    PROVE  AsComment \in Seq(Token) /\ Tiles(AsComment, source)
<1>1. /\ tokens \in Seq(Token) /\ Len(tokens) \in Nat /\ DOMAIN tokens = 1..Len(tokens)
      /\ index \in 1..Len(tokens) /\ index + 1 \in 1..Len(tokens)
      /\ index + 2 \in 1..Len(tokens) /\ tokens[index].token = "[[["
      /\ tokens[index + 1].token = "!" /\ tokens[index + 2].token = "--"
  BY LenProperties DEF TypeOK, CommentHead, Is
<1>2. /\ Here \in Nat /\ Here = tokens[index].start
      /\ tokens[index].end = Here + 3
      /\ source[Here + 1] = "[" /\ source[Here + 2] = "[" /\ source[Here + 3] = "["
  BY <1>1, TokenAt, CharsHeld DEF Here
<1>21. tokens[index + 1].end = Here + 4 /\ source[Here + 4] = "!"
  <2>1. index + 1 # 1 /\ (index + 1) - 1 = index
    BY <1>1
  <2>2. /\ tokens[index + 1].start \in Nat /\ Holds(tokens[index + 1], source)
        /\ tokens[index + 1].start = Here + 3
    BY <1>1, <1>2, <2>1, TokenAt
  <2>3. /\ tokens[index + 1].end = tokens[index + 1].start + 1
        /\ source[tokens[index + 1].start + 1] = "!"
    BY <1>1, <2>2, CharsHeld
  <2>4. tokens[index + 1].start + 1 = Here + 4
    BY <1>2, <2>2
  <2> QED
    BY <2>3, <2>4
<1>3. tokens[index + 2].end = Here + 6 /\ source[Here + 5] = "-" /\ source[Here + 6] = "-"
  <2>1. index + 2 # 1 /\ (index + 2) - 1 = index + 1
    BY <1>1
  <2>2. /\ tokens[index + 2].start \in Nat /\ Holds(tokens[index + 2], source)
        /\ tokens[index + 2].start = Here + 4
    BY <1>1, <1>21, <2>1, TokenAt
  <2> DEFINE t == tokens[index + 2]
  <2>3. t.end = t.start + 2 /\ source[t.start + 1] = "-" /\ source[t.start + 2] = "-"
    BY <1>1, <2>2, CharsHeld
  <2>4. t.start + 1 = Here + 5 /\ t.start + 2 = Here + 6
    BY <1>2, <2>2
  <2> QED
    BY <2>3, <2>4
<1>4. Holds(Tok("[[", Here), source) /\ Holds(Tok("[!--", Here + 2), source)
  BY <1>2, <1>21, <1>3, CharsAre DEF Holds, Tok
<1> DEFINE with == <<Tok("[[", Here), Tok("[!--", Here + 2)>>
<1>5. with \in Seq(Token) /\ Len(with) = 2
  BY <1>2, TokIsToken
<1>6. /\ with[1].start = Here /\ with[2].start = with[1].end
      /\ with[2].end = tokens[index + 2].end
  BY <1>2, <1>3, CharsAre DEF Tok
<1>7. /\ \A i \in 1..2 : Holds(with[i], source)
      /\ \A i \in 2..2 : with[i].start = with[i - 1].end
  BY <1>4, <1>6
<1>8. /\ index \in Nat \ {0} /\ index + 3 <= Len(tokens) + 1 /\ index + 3 - 1 = index + 2
      /\ AsComment = Spliced(3, with)
  BY <1>1 DEF AsComment
<1> HIDE DEF with
<1>9. AsComment \in Seq(Token)
  BY <1>1, <1>5, <1>8, SplicedIs
<1>10. /\ Len(with) > 0 /\ with[Len(with)].end = tokens[index + 3 - 1].end
       /\ \A i \in 2..Len(with) : with[i].start = with[i - 1].end
       /\ \A i \in 1..Len(with) : Holds(with[i], source)
  BY <1>5, <1>6, <1>7, <1>8
<1>11. Fits(3, with)
  BY <1>1, <1>5, <1>6, <1>8, <1>10 DEF Fits
<1>12. Tiles(Spliced(3, with), source)
  BY <1>1, <1>8, <1>11, TilesSpliced
<1> QED
  BY <1>8, <1>9, <1>12

-----------------------------------------------------------------------------
(* The steps *)

LEMMA InitIInv == Init => IInv
<1> SUFFICES ASSUME Init PROVE IInv
  OBVIOUS
<1>1. TypeOK /\ TokensTile
  BY PagesAssumption DEF Init, TypeOK, TokensTile
<1>2. GateFits
  BY DEF Init, GateFits
<1> QED
  BY <1>1, <1>2 DEF IInv

\* A reading is committed: the gate starts from nothing.
LEMMA CommitKeeps ==
    ASSUME IInv, NEW reading \in Seq(Token), Tiles(reading, source),
           NEW n \in Nat, Commit(reading, n)
    PROVE  IInv'
<1>1. index \in Nat \ {0}
  BY DEF IInv, TypeOK
<1>2. TypeOK'
  BY <1>1 DEF Commit, TypeOK
<1>3. TokensTile'
  BY DEF Commit, TokensTile, text
<1>4. GateFits'
  BY <1>1 DEF Commit, GateFits
<1> QED
  BY <1>2, <1>3, <1>4 DEF IInv

\* The scan goes on, asking nothing or what the gate was asked.
LEMMA PassKeeps ==
    ASSUME IInv, NEW remembered, NEW asked,
           asked = gate \/ \E from \in {index + 2, index + 3} : asked = Asked(from),
           Pass(asked, remembered)
    PROVE  IInv'
<1>1. /\ index \in Nat \ {0} /\ Len(tokens) \in Nat /\ DOMAIN tokens = 1..Len(tokens)
      /\ TypeOK /\ TokensTile /\ GateFits
  BY LenProperties DEF IInv, TypeOK
<1>2. index' = index + 1 /\ gate' = asked /\ UNCHANGED <<tokens, source>>
  BY DEF Pass, text
<1>3. TokensTile'
  BY <1>1, <1>2 DEF TokensTile
<1>4. HeadEnds(tokens, index + 3) \subseteq HeadEnds(tokens, index + 2)
  BY <1>1 DEF HeadEnds
<1>5. HeadEnds(tokens, index + 2)' = HeadEnds(tokens, index + 3)
  <2>1. index' + 2 = index + 3
    BY <1>1, <1>2
  <2> QED
    BY <1>2, <2>1 DEF HeadEnds, CanEndHead, IftagsMayStart, PastSpace, Is
<1>6. \A i : CanEndHead(tokens, i)' = CanEndHead(tokens, i)
  BY <1>2 DEF CanEndHead, IftagsMayStart, PastSpace, Is
<1>7. CASE asked = gate
  <2>1. TypeOK'
    BY <1>1, <1>2, <1>7 DEF TypeOK
  <2>2. GateFits'
    BY <1>1, <1>2, <1>4, <1>5, <1>6, <1>7 DEF GateFits, TypeOK
  <2> QED
    BY <1>3, <2>1, <2>2 DEF IInv
<1>8. CASE \E from \in {index + 2, index + 3} : asked = Asked(from)
  <2>1. PICK from \in {index + 2, index + 3} : asked = Asked(from)
    BY <1>8
  <2>2. /\ asked \in [next : Nat, scanned : Nat]
        /\ asked.next # 0 => asked.next \in HeadEnds(tokens, from)
                             /\ asked.scanned = asked.next + 1
        /\ asked.next = 0 => HeadEnds(tokens, from) = {}
    BY <1>1, <2>1, AskedIs
  <2>3. asked.next # 0 => asked.next \in DOMAIN tokens /\ CanEndHead(tokens, asked.next)
    BY <1>1, <2>2 DEF HeadEnds
  <2>4. TypeOK'
    BY <1>1, <1>2, <2>2, <2>3 DEF TypeOK
  <2>5. asked.next = 0 => HeadEnds(tokens, index + 3) = {}
    BY <1>4, <2>1, <2>2
  <2>6. GateFits'
    BY <1>2, <1>5, <1>6, <2>2, <2>3, <2>5 DEF GateFits
  <2> QED
    BY <1>3, <2>4, <2>6 DEF IInv
<1> QED
  BY <1>7, <1>8

LEMMA NextIInv == IInv /\ [Next]_vars => IInv'
<1> SUFFICES ASSUME IInv, [Next]_vars PROVE IInv'
  OBVIOUS
<1>0. TypeOK /\ TokensTile
  BY DEF IInv
<1>1. CASE NoRun
  BY <1>1, PassKeeps DEF NoRun
<1>2. CASE CommentRead
  BY <1>0, <1>2, CommentReadings, CommitKeeps DEF CommentRead
<1>3. CASE CommentLeft
  BY <1>3, PassKeeps DEF CommentLeft
<1>4. CASE NoHead
  BY <1>4, PassKeeps DEF NoHead
<1>5. CASE NoName
  BY <1>5, PassKeeps DEF NoName
<1>6. CASE SegmentRead
  BY <1>0, <1>6, PairReadings, CommitKeeps DEF SegmentRead, Tried
<1>7. CASE PrefixRead
  BY <1>0, <1>7, PairReadings, CommitKeeps DEF PrefixRead, Tried
<1>8. CASE SegmentPrefixRead
  BY <1>0, <1>8, PairReadings, CommitKeeps DEF SegmentPrefixRead, Tried
<1>9. CASE PairLeft
  BY <1>9, PassKeeps DEF PairLeft
<1>10. CASE UNCHANGED vars
  <2>1. UNCHANGED <<tokens, source, index, gate>>
    BY <1>10 DEF vars, text
  <2> QED
    BY <2>1 DEF IInv, TypeOK, TokensTile, GateFits, HeadEnds, CanEndHead, IftagsMayStart,
                PastSpace, Is
<1> QED
  BY <1>1, <1>2, <1>3, <1>4, <1>5, <1>6, <1>7, <1>8, <1>9, <1>10 DEF Next

-----------------------------------------------------------------------------
(* Where words end *)

\* A set of numbers with 0 and every successor is all of them.
LEMMA Induct ==
    ASSUME NEW S \in SUBSET Nat, 0 \in S, \A n \in S : n + 1 \in S
    PROVE  S = Nat
<1> SUFFICES ASSUME Nat \ S # {} PROVE FALSE
  OBVIOUS
<1> DEFINE x == Least(Nat \ S)
<1>1. x \in Nat \ S /\ \A y \in Nat \ S : x <= y
  BY LeastIs
<1> HIDE DEF x
<1>2. x - 1 \in Nat
  BY <1>1
<1>3. x - 1 \in S
  BY <1>1, <1>2
<1> QED
  BY <1>1, <1>2, <1>3

\* A set of numbers up to n that is not empty has a last one.
LEMMA LastOf ==
    ASSUME NEW n \in Nat, NEW S \in SUBSET (1..n), S # {}
    PROVE  \E x \in S : \A y \in (x + 1)..n : y \notin S
<1> DEFINE T == {n - i : i \in S}
<1>0. \A i \in S : i \in 1..n /\ n - i \in Nat
  OBVIOUS
<1>1. T \in SUBSET Nat /\ T # {}
  BY <1>0
<1>2. Least(T) \in T /\ \A j \in T : Least(T) <= j
  BY <1>1, LeastIs
<1>3. PICK x \in S : Least(T) = n - x
  BY <1>2
<1>4. ASSUME NEW y \in (x + 1)..n PROVE y \notin S
  <2>1. x \in 1..n /\ y \in Nat /\ ~(n - x <= n - y)
    BY <1>0
  <2>2. y \in S => n - y \in T
    OBVIOUS
  <2> HIDE DEF T
  <2> QED
    BY <1>2, <1>3, <2>1, <2>2
<1> QED
  BY <1>4

LEMMA ClosersIs ==
    ASSUME NEW c, Len(c) \in Nat, NEW i \in 1..Len(c), Closers(c, i) # {}
    PROVE  /\ Least(Closers(c, i)) \in Closers(c, i)
           /\ \A k \in Closers(c, i) : Least(Closers(c, i)) <= k
           /\ Least(Closers(c, i)) + 1 \in (i + 1)..(Len(c) + 1)
<1>1. Closers(c, i) \in SUBSET Nat
  BY DEF Closers
<1>2. /\ Least(Closers(c, i)) \in Closers(c, i)
      /\ \A k \in Closers(c, i) : Least(Closers(c, i)) <= k
  BY <1>1, LeastIs
<1>3. Least(Closers(c, i)) \in (i + 2)..Len(c)
  BY <1>2 DEF Closers
<1> QED
  BY <1>2, <1>3

\* Where a word ends, by the recursion of Stops.
LEMMA StopsIs ==
    ASSUME NEW c, Len(c) \in Nat
    PROVE  \A i \in 1..(Len(c) + 1) : Stops(c)[i] =
            IF i > Len(c) THEN 0
            ELSE IF c[i].token \in Ends THEN i
            ELSE IF c[i].token = "[!--"
              THEN IF Closers(c, i) = {} THEN 0
                   ELSE Stops(c)[Least(Closers(c, i)) + 1]
            ELSE Stops(c)[i + 1]
<1> DEFINE L == Len(c) + 1
           B(f, i) == IF i > Len(c) THEN 0
                      ELSE IF c[i].token \in Ends THEN i
                      ELSE IF c[i].token = "[!--"
                        THEN IF Closers(c, i) = {} THEN 0
                             ELSE f[Least(Closers(c, i)) + 1]
                      ELSE f[i + 1]
           S == {n \in Nat : \E f : \A i \in 1..L : i > L - n => f[i] = B(f, i)}
<1>1. \A f, g : \A i \in 1..L : (\A j \in (i + 1)..L : f[j] = g[j]) => B(f, i) = B(g, i)
  <2> SUFFICES ASSUME NEW f, NEW g, NEW i \in 1..L, \A j \in (i + 1)..L : f[j] = g[j]
               PROVE  B(f, i) = B(g, i)
    OBVIOUS
  <2>1. i <= Len(c) => i \in 1..Len(c) /\ i + 1 \in (i + 1)..L
    OBVIOUS
  <2>2. i <= Len(c) /\ Closers(c, i) # {} => Least(Closers(c, i)) + 1 \in (i + 1)..L
    BY <2>1, ClosersIs
  <2> QED
    BY <2>1, <2>2
<1> HIDE DEF B
<1>2. 0 \in S
  <2>1. \A i \in 1..L : ~(i > L - 0)
    OBVIOUS
  <2> QED
    BY <2>1
<1>3. ASSUME NEW n \in S PROVE n + 1 \in S
  <2>1. PICK f : \A i \in 1..L : i > L - n => f[i] = B(f, i)
    OBVIOUS
  <2> DEFINE g == [i \in 1..L |-> IF i > L - n THEN f[i] ELSE B(f, i)]
  <2>2. ASSUME NEW i \in 1..L, i > L - (n + 1) PROVE g[i] = B(g, i)
    <3>1. \A j \in (i + 1)..L : j \in 1..L /\ j > L - n
      BY <2>2
    <3>2. \A j \in (i + 1)..L : f[j] = g[j]
      BY <3>1
    <3>3. B(f, i) = B(g, i)
      BY <1>1, <3>2
    <3> QED
      BY <2>1, <3>3
  <2> HIDE DEF g
  <2> QED
    BY <2>2
<1>4. L \in S
  <2> HIDE DEF S
  <2>1. S \in SUBSET Nat
    BY DEF S
  <2> QED
    BY <1>2, <1>3, <2>1, Induct
<1>5. PICK f : \A i \in 1..L : f[i] = B(f, i)
  BY <1>4
<1> DEFINE g == [i \in 1..L |-> f[i]]
<1>6. g = [i \in 1..L |-> B(g, i)]
  <2>1. \A i \in 1..L : B(f, i) = B(g, i)
    BY <1>1
  <2> QED
    BY <1>5, <2>1
<1>7. Stops(c) = CHOOSE h : h = [i \in 1..L |-> B(h, i)]
  BY DEF Stops, B
<1> HIDE DEF g
<1>8. Stops(c) = [i \in 1..L |-> B(Stops(c), i)]
  BY <1>6, <1>7
<1>9. \A i \in 1..L : Stops(c)[i] = B(Stops(c), i)
  BY <1>8
<1> QED
  BY <1>9 DEF B

\* A word ends at a token that ends words, at or behind its first one.
LEMMA StopsEnd ==
    ASSUME NEW c, Len(c) \in Nat
    PROVE  \A i \in 1..(Len(c) + 1) :
            Stops(c)[i] = 0 \/ (Stops(c)[i] \in i..Len(c) /\ c[Stops(c)[i]].token \in Ends)
<1> DEFINE L == Len(c) + 1
           Fine(i) == Stops(c)[i] = 0 \/ (Stops(c)[i] \in i..Len(c) /\ c[Stops(c)[i]].token \in Ends)
           S == {i \in 1..L : ~Fine(i)}
<1> SUFFICES ASSUME S # {} PROVE FALSE
  OBVIOUS
<1>1. PICK x \in S : \A y \in (x + 1)..L : y \notin S
  <2>1. L \in Nat /\ S \in SUBSET (1..L)
    OBVIOUS
  <2> HIDE DEF S, L
  <2> QED
    BY <2>1, LastOf
<1>2. x \in 1..L /\ ~Fine(x)
  BY <1>1
<1>3. \A y \in (x + 1)..L : y \in 1..L /\ Fine(y) /\ y..Len(c) \subseteq x..Len(c)
  BY <1>1
<1>4. \A y \in (x + 1)..L : Stops(c)[x] = Stops(c)[y] => Fine(x)
  BY <1>3
<1> HIDE DEF S
<1>5. x > Len(c) => Fine(x)
  BY <1>2, StopsIs
<1>6. x <= Len(c) => x \in 1..Len(c) /\ x + 1 \in (x + 1)..L
  BY <1>2
<1>7. x <= Len(c) /\ c[x].token \in Ends => Fine(x)
  <2>1. x <= Len(c) /\ c[x].token \in Ends => Stops(c)[x] = x
    BY <1>2, StopsIs
  <2> QED
    BY <1>6, <2>1
<1>8. x <= Len(c) /\ c[x].token \notin Ends /\ c[x].token # "[!--" => Fine(x)
  <2>1. x <= Len(c) /\ c[x].token \notin Ends /\ c[x].token # "[!--"
        => Stops(c)[x] = Stops(c)[x + 1]
    BY <1>2, StopsIs
  <2> HIDE DEF Fine
  <2> QED
    BY <1>4, <1>6, <2>1
<1>9. x <= Len(c) /\ c[x].token \notin Ends /\ c[x].token = "[!--" => Fine(x)
  <2> SUFFICES ASSUME x <= Len(c), c[x].token \notin Ends, c[x].token = "[!--" PROVE Fine(x)
    OBVIOUS
  <2>1. CASE Closers(c, x) = {}
    BY <1>2, <2>1, StopsIs
  <2>2. CASE Closers(c, x) # {}
    <3>1. Stops(c)[x] = Stops(c)[Least(Closers(c, x)) + 1]
      BY <1>2, <2>2, StopsIs
    <3>2. Least(Closers(c, x)) + 1 \in (x + 1)..L
      BY <1>6, <2>2, ClosersIs
    <3> HIDE DEF Fine
    <3> QED
      BY <1>4, <3>1, <3>2
  <2> QED
    BY <2>1, <2>2
<1> QED
  BY <1>2, <1>5, <1>7, <1>8, <1>9

\* A word that starts in a comment ends no later than the one behind the comment.
LEMMA StopsInComment ==
    ASSUME NEW c, Len(c) \in Nat, NEW h \in 1..Len(c), Closers(c, h) # {},
           Stops(c)[Least(Closers(c, h)) + 1] # 0
    PROVE  \A i \in (h + 1)..Least(Closers(c, h)) :
            Stops(c)[i] = 0 \/ Stops(c)[i] <= Stops(c)[Least(Closers(c, h)) + 1]
<1> DEFINE e == Least(Closers(c, h))
           Fine(i) == Stops(c)[i] = 0 \/ Stops(c)[i] <= Stops(c)[e + 1]
           S == {i \in (h + 1)..e : ~Fine(i)}
<1>0. /\ e \in (h + 2)..Len(c) /\ c[e].token = "]" /\ c[e - 1].token = "--"
      /\ \A k \in Closers(c, h) : e <= k
  BY ClosersIs DEF Closers
<1> HIDE DEF e
<1>1. Stops(c)[e + 1] \in (e + 1)..Len(c)
  <2>1. e + 1 \in 1..(Len(c) + 1) /\ Stops(c)[e + 1] # 0
    BY <1>0 DEF e
  <2> QED
    BY <2>1, StopsEnd
<1> SUFFICES ASSUME S # {} PROVE FALSE
  BY DEF e
<1>2. PICK x \in S : \A y \in (x + 1)..e : y \notin S
  <2>1. e \in Nat /\ S \in SUBSET (1..e)
    BY <1>0
  <2> HIDE DEF S
  <2> QED
    BY <2>1, LastOf
<1>3. x \in (h + 1)..e /\ ~Fine(x) /\ x \in 1..Len(c)
  BY <1>0, <1>2
<1>4. x < e => Fine(x + 1)
  BY <1>0, <1>2
<1> HIDE DEF S
<1>5. CASE c[x].token \in Ends
  <2>1. Stops(c)[x] = x
    BY <1>3, <1>5, StopsIs
  <2> QED
    BY <1>0, <1>1, <1>3, <2>1
<1>6. CASE c[x].token \notin Ends /\ c[x].token # "[!--"
  <2>1. Stops(c)[x] = Stops(c)[x + 1]
    BY <1>3, <1>6, StopsIs
  <2>2. x = e => Fine(x)
    BY <1>1, <2>1
  <2>3. x < e => Fine(x)
    BY <1>4, <2>1
  <2> QED
    BY <1>0, <1>3, <2>2, <2>3
<1>7. CASE c[x].token = "[!--"
  <2>1. x # e /\ x # e - 1
    BY <1>0, <1>7
  <2>2. x + 2 <= e
    BY <1>0, <1>3, <2>1
  <2>3. e \in Closers(c, x)
    BY <1>0, <1>3, <2>2 DEF Closers
  <2>4. Closers(c, x) \subseteq Closers(c, h)
    BY <1>3 DEF Closers
  <2>5. /\ Least(Closers(c, x)) \in Closers(c, x)
        /\ \A k \in Closers(c, x) : Least(Closers(c, x)) <= k
    BY <1>3, <2>3, ClosersIs
  <2>6. Least(Closers(c, x)) \in (x + 2)..Len(c)
    BY <2>5 DEF Closers
  <2>7. Least(Closers(c, x)) = e
    BY <1>0, <2>3, <2>4, <2>5, <2>6
  <2>8. c[x].token \notin Ends
    BY <1>7 DEF Ends
  <2>9. Stops(c)[x] = Stops(c)[e + 1]
    BY <1>3, <1>7, <2>3, <2>7, <2>8, StopsIs
  <2> QED
    BY <1>1, <1>3, <2>9
<1> QED
  BY <1>5, <1>6, <1>7

\* A word that starts in another ends no later.
LEMMA StopsWithin ==
    ASSUME NEW c, Len(c) \in Nat
    PROVE  \A h \in 1..Len(c) : \A i \in h..Stops(c)[h] :
            Stops(c)[h] # 0 => Stops(c)[i] = 0 \/ Stops(c)[i] <= Stops(c)[h]
<1> DEFINE Fine(h) == \A i \in h..Stops(c)[h] :
                        Stops(c)[h] # 0 => Stops(c)[i] = 0 \/ Stops(c)[i] <= Stops(c)[h]
           S == {h \in 1..Len(c) : ~Fine(h)}
<1> SUFFICES ASSUME S # {} PROVE FALSE
  OBVIOUS
<1>1. PICK x \in S : \A y \in (x + 1)..Len(c) : y \notin S
  <2>1. S \in SUBSET (1..Len(c))
    OBVIOUS
  <2> HIDE DEF S
  <2> QED
    BY <2>1, LastOf
<1>2. x \in 1..Len(c) /\ ~Fine(x)
  BY <1>1
<1>3. \A y \in (x + 1)..Len(c) : Fine(y)
  BY <1>1
<1> HIDE DEF S
<1>4. Stops(c)[x] # 0 /\ Stops(c)[x] \in x..Len(c)
  <2>1. x \in 1..(Len(c) + 1) /\ Stops(c)[x] # 0
    BY <1>2
  <2> QED
    BY <2>1, StopsEnd
<1>5. PICK i \in x..Stops(c)[x] : ~(Stops(c)[i] = 0 \/ Stops(c)[i] <= Stops(c)[x])
  BY <1>2
<1>6. i # x /\ i \in (x + 1)..Stops(c)[x]
  <2>1. x \in Nat /\ Stops(c)[x] \in Nat
    BY <1>2, <1>4
  <2>2. i # x
    BY <1>5, <2>1
  <2> QED
    BY <2>1, <2>2
<1>7. \A y \in (x + 1)..i : Stops(c)[x] # Stops(c)[y]
  <2> SUFFICES ASSUME NEW y \in (x + 1)..i, Stops(c)[x] = Stops(c)[y] PROVE FALSE
    OBVIOUS
  <2>1. y \in (x + 1)..Len(c) /\ i \in y..Stops(c)[y]
    BY <1>4, <1>6
  <2> QED
    BY <1>3, <1>4, <1>5, <2>1
<1> HIDE DEF Fine
<1>8. c[x].token \notin Ends
  <2>1. c[x].token \in Ends => Stops(c)[x] = x
    BY <1>2, StopsIs
  <2> QED
    BY <1>2, <1>6, <2>1
<1>9. CASE c[x].token = "[!--"
  <2>1. Closers(c, x) # {} /\ Stops(c)[x] = Stops(c)[Least(Closers(c, x)) + 1]
    BY <1>2, <1>4, <1>8, <1>9, StopsIs
  <2>2. Least(Closers(c, x)) + 1 \in (x + 1)..(Len(c) + 1)
    BY <1>2, <2>1, ClosersIs
  <2>3. i <= Least(Closers(c, x))
    <3> DEFINE e == Least(Closers(c, x)) + 1
    <3>1. e \in (x + 1)..(Len(c) + 1) /\ e \notin (x + 1)..i
      BY <1>7, <2>1, <2>2
    <3>2. e - 1 = Least(Closers(c, x)) /\ x \in Nat /\ i \in Nat
      <4>1. Least(Closers(c, x)) \in Closers(c, x)
        BY <1>2, <2>1, ClosersIs
      <4>2. Least(Closers(c, x)) \in Nat
        BY <1>2, <4>1 DEF Closers
      <4> QED
        BY <1>2, <1>6, <4>2
    <3> HIDE DEF e
    <3> QED
      BY <1>6, <3>1, <3>2
  <2>4. i \in (x + 1)..Least(Closers(c, x))
    BY <1>6, <2>2, <2>3
  <2> QED
    BY <1>2, <1>4, <1>5, <2>1, <2>4, StopsInComment
<1>10. CASE c[x].token # "[!--"
  <2>1. Stops(c)[x] = Stops(c)[x + 1]
    BY <1>2, <1>8, <1>10, StopsIs
  <2>2. x + 1 \in (x + 1)..i
    BY <1>2, <1>6
  <2> QED
    BY <1>7, <2>1, <2>2
<1> QED
  BY <1>9, <1>10

\* In a word without comments every token's word ends where it does.
LEMMA StopsAsOne ==
    ASSUME NEW c, Len(c) \in Nat
    PROVE  \A h \in 1..Len(c) :
            (Stops(c)[h] # 0 /\ \A k \in h..(Stops(c)[h] - 1) : c[k].token # "[!--")
            => \A i \in h..Stops(c)[h] : Stops(c)[i] = Stops(c)[h]
<1> DEFINE Free(h) == Stops(c)[h] # 0 /\ \A k \in h..(Stops(c)[h] - 1) : c[k].token # "[!--"
           Fine(h) == Free(h) => \A i \in h..Stops(c)[h] : Stops(c)[i] = Stops(c)[h]
           S == {h \in 1..Len(c) : ~Fine(h)}
<1> SUFFICES ASSUME S # {} PROVE FALSE
  OBVIOUS
<1>1. PICK x \in S : \A y \in (x + 1)..Len(c) : y \notin S
  <2>1. S \in SUBSET (1..Len(c))
    OBVIOUS
  <2> HIDE DEF S
  <2> QED
    BY <2>1, LastOf
<1>2. x \in 1..Len(c) /\ ~Fine(x)
  BY <1>1
<1>3. \A y \in (x + 1)..Len(c) : Fine(y)
  BY <1>1
<1> HIDE DEF S
<1>4. Free(x) /\ \E i \in x..Stops(c)[x] : Stops(c)[i] # Stops(c)[x]
  BY <1>2
<1>5. Stops(c)[x] \in x..Len(c)
  <2>1. x \in 1..(Len(c) + 1) /\ Stops(c)[x] # 0
    BY <1>2, <1>4
  <2> QED
    BY <2>1, StopsEnd
<1>6. PICK i \in x..Stops(c)[x] : Stops(c)[i] # Stops(c)[x]
  BY <1>4
<1>7. i # x /\ i \in (x + 1)..Stops(c)[x]
  <2>1. x \in Nat /\ Stops(c)[x] \in Nat
    BY <1>2, <1>5
  <2>2. i # x
    BY <1>6, <2>1
  <2> QED
    BY <2>1, <2>2
<1>8. c[x].token \notin Ends
  <2>1. c[x].token \in Ends => Stops(c)[x] = x
    BY <1>2, StopsIs
  <2> QED
    BY <1>2, <1>7, <2>1
<1>9. c[x].token # "[!--"
  <2>1. x \in x..(Stops(c)[x] - 1)
    BY <1>2, <1>5, <1>7
  <2> QED
    BY <1>4, <2>1
<1>10. Stops(c)[x] = Stops(c)[x + 1]
  BY <1>2, <1>8, <1>9, StopsIs
<1>11. x + 1 \in (x + 1)..Len(c) /\ i \in (x + 1)..Stops(c)[x + 1]
  BY <1>2, <1>5, <1>7, <1>10
<1>12. (x + 1)..(Stops(c)[x + 1] - 1) \subseteq x..(Stops(c)[x] - 1)
  BY <1>2, <1>5, <1>10
<1>13. Free(x + 1)
  BY <1>4, <1>10, <1>12
<1> QED
  BY <1>3, <1>6, <1>10, <1>11, <1>13

-----------------------------------------------------------------------------
(* What the name gate remembers *)

\* What the name gate remembers: words that end and with which no segment may form.
StretchFits ==
    \A s \in stretch :
        /\ s.head \in 1..Len(tokens) /\ Stops(tokens)[s.head] # 0
        /\ s = Stretch(s.head, Stops(tokens)[s.head])
        /\ ~SegmentMayForm(s.head, s.stop)

\* A name that is one when looked at afresh is one to every stretch it lies in.
LEMMA StretchTells ==
    ASSUME TypeOK, StretchFits, NEW i \in 1..Len(tokens), MayNameAfresh(i),
           NEW s \in Remembers(i)
    PROVE  Tells(s, i)
<1> DEFINE st == Stops(tokens)
           h == s.head
           e == st[h]
           f == st[i]
<1>1. /\ Len(tokens) \in Nat /\ h \in 1..Len(tokens) /\ e # 0
      /\ s = Stretch(h, e) /\ s.stop = e /\ ~SegmentMayForm(h, e)
      /\ h <= i /\ i <= e /\ (s.kind = "comment" => s.letter = 0 \/ s.letter >= i)
  <2>1. s \in stretch /\ h <= i /\ i <= s.stop /\ (s.kind = "comment" => s.letter = 0 \/ s.letter >= i)
    BY DEF Remembers
  <2>2. /\ h \in 1..Len(tokens) /\ e # 0 /\ s = Stretch(h, e)
        /\ ~SegmentMayForm(h, s.stop)
    BY <2>1 DEF StretchFits
  <2>3. s.stop = e
    BY <2>2 DEF Stretch
  <2>4. Len(tokens) \in Nat
    BY LenProperties DEF TypeOK
  <2> HIDE DEF st, h, e, f
  <2> QED
    BY <2>1, <2>2, <2>3, <2>4
<1>2. f # 0 /\ (SegmentMayForm(i, f) \/ Tells(Stretch(i, f), i))
  BY DEF MayNameAfresh
<1>3. e \in h..Len(tokens) /\ f \in i..Len(tokens)
  <2>1. h \in 1..(Len(tokens) + 1) /\ i \in 1..(Len(tokens) + 1)
    BY <1>1
  <2> QED
    BY <1>1, <1>2, <2>1, StopsEnd
<1>4. i \in h..e
  BY <1>1, <1>3
<1>5. f <= e
  BY <1>1, <1>2, <1>4, StopsWithin
<1>6. \A k \in i..(f - 1) : k \in h..(e - 1) /\ k \in 1..Len(tokens)
  BY <1>1, <1>3, <1>5
<1>7. s.kind = "plain" => f = e
  <2> SUFFICES ASSUME s.kind = "plain" PROVE f = e
    OBVIOUS
  <2>1. ~ \E k \in h..(e - 1) : Is(tokens, k, "[!--")
    BY <1>1 DEF Stretch
  <2>2. \A k \in h..(e - 1) : tokens[k].token # "[!--"
    BY <1>1, <1>3, <2>1 DEF Is
  <2> QED
    BY <1>1, <1>4, <2>2, StopsAsOne
<1> HIDE DEF st, h, e, f
<1>8. ~SegmentMayForm(i, f)
  BY <1>1, <1>6 DEF SegmentMayForm
<1>9. CASE s.kind = "plain"
  <2>1. Stretch(h, e).kind = "plain" /\ f = e
    BY <1>1, <1>7, <1>9
  <2>2. Stretch(i, f).kind = "plain" /\ Stretch(i, f).stop = e
    BY <1>6, <2>1 DEF Stretch
  <2> QED
    BY <1>1, <1>2, <1>8, <1>9, <2>2 DEF Tells
<1>10. CASE s.kind # "plain"
  <2> DEFINE words(a, b) == {k \in a..(b - 1) : tokens[k].token \in Words}
  <2>1. s.kind = "comment"
    BY <1>1, <1>10 DEF Stretch
  <2>2. words(i, f) \subseteq words(h, e)
    BY <1>6
  <2>3. words(i, f) # {}
    <3>1. CASE Stretch(i, f).kind = "plain"
      <4>1. Known(Word(i, f))
        BY <1>2, <1>8, <3>1 DEF Tells, Stretch
      <4>2. PICK k \in 1..(f - i) : tokens[i + k - 1].token \in {"name", "iftags"}
        BY <4>1 DEF Known, Word
      <4>3. i + k - 1 \in i..(f - 1)
        BY <1>3
      <4>4. tokens[i + k - 1].token \in Words
        BY <4>2 DEF Words
      <4> QED
        BY <4>3, <4>4
    <3>2. CASE Stretch(i, f).kind # "plain"
      <4>1. Stretch(i, f).letter >= i
        BY <1>2, <1>8, <3>2 DEF Tells
      <4>2. Stretch(i, f).letter # 0
        BY <4>1
      <4> QED
        BY <4>2 DEF Stretch
    <3> QED
      BY <3>1, <3>2
  <2>4. words(h, e) # {} /\ words(h, e) \in SUBSET Nat /\ 0 \notin words(h, e)
    BY <1>1, <1>3, <2>2, <2>3
  <2>5. s.letter = Least(words(h, e))
    BY <1>1, <2>4 DEF Stretch
  <2> HIDE DEF words
  <2>6. s.letter # 0
    BY <2>4, <2>5, LeastIs
  <2> QED
    BY <1>1, <1>10, <2>1, <2>6 DEF Tells
<1> QED
  BY <1>9, <1>10

LEMMA NameStartIs ==
    ASSUME TypeOK
    PROVE  NameStart \in Nat \ {0} /\ NameStart >= index + 2 /\ NameStart <= index + 3
<1>1. index \in Nat \ {0}
  BY DEF TypeOK
<1>2. NameStart = index + 2 \/ NameStart = index + 2 + 1
  BY DEF NameStart, NameFrom, PastSpace
<1> QED
  BY <1>1, <1>2

\* What is remembered tells of the tokens as long as they stay.
LEMMA RememberedFits ==
    ASSUME TypeOK, StretchFits, NEW i \in Nat \ {0}, NEW s \in Remembered(i)
    PROVE  /\ s.head \in 1..Len(tokens) /\ Stops(tokens)[s.head] # 0
           /\ s = Stretch(s.head, Stops(tokens)[s.head])
           /\ ~SegmentMayForm(s.head, s.stop)
<1>1. CASE s \in stretch
  BY <1>1 DEF StretchFits
<1>2. CASE s \notin stretch
  <2>1. /\ ~(i > Len(tokens)) /\ Stops(tokens)[i] # 0 /\ ~SegmentMayForm(i, Stops(tokens)[i])
        /\ s = Stretch(i, Stops(tokens)[i])
    BY <1>2 DEF Remembered
  <2>2. s.head = i /\ s.stop = Stops(tokens)[i]
    BY <2>1 DEF Stretch
  <2>3. i \in 1..Len(tokens)
    BY <2>1, LenProperties DEF TypeOK
  <2> QED
    BY <2>1, <2>2, <2>3
<1> QED
  BY <1>1, <1>2

LEMMA InitStretch == Init => StretchFits
  BY DEF Init, StretchFits

LEMMA NextStretch == TypeOK /\ StretchFits /\ [Next]_vars => StretchFits'
<1> SUFFICES ASSUME TypeOK, StretchFits, [Next]_vars PROVE StretchFits'
  OBVIOUS
<1>1. stretch' = {} => StretchFits'
  BY DEF StretchFits
<1>2. ASSUME tokens' = tokens,
             stretch' = stretch \/ \E i \in Nat \ {0} : stretch' = Remembered(i)
      PROVE  StretchFits'
  <2>1. \A s \in stretch' :
            /\ s.head \in 1..Len(tokens) /\ Stops(tokens)[s.head] # 0
            /\ s = Stretch(s.head, Stops(tokens)[s.head])
            /\ ~SegmentMayForm(s.head, s.stop)
    BY <1>2, RememberedFits DEF StretchFits
  <2> QED
    <3>1. \A s \in stretch' :
            /\ s.head \in 1..Len(tokens') /\ Stops(tokens')[s.head] # 0
            /\ s = Stretch(s.head, Stops(tokens)[s.head])'
      BY <1>2, <2>1 DEF Stretch
    <3>2. \A s \in stretch' : ~SegmentMayForm(s.head, s.stop)'
      <4>1. \A j : CloserMayMatch(j)' <=> CloserMayMatch(j)
        BY <1>2 DEF CloserMayMatch, Word
      <4>2. \A i, stop : SegmentMayForm(i, stop)' <=> SegmentMayForm(i, stop)
        BY <1>2, <4>1 DEF SegmentMayForm
      <4> QED
        BY <2>1, <4>2
    <3> QED
      BY <3>1, <3>2 DEF StretchFits
<1>3. NoRun \/ CommentLeft \/ NoHead => StretchFits'
  BY <1>2 DEF NoRun, CommentLeft, NoHead, Pass
<1>4. NoName \/ PairLeft => StretchFits'
  BY <1>2, NameStartIs DEF NoName, PairLeft, Pass
<1>5. CommentRead \/ SegmentRead \/ PrefixRead \/ SegmentPrefixRead => StretchFits'
  BY <1>1 DEF CommentRead, SegmentRead, PrefixRead, SegmentPrefixRead, Commit
<1>6. UNCHANGED vars => StretchFits'
  BY <1>2 DEF vars
<1> QED
  BY <1>3, <1>4, <1>5, <1>6 DEF Next

LEMMA MemoryAdds ==
    ASSUME TypeOK, StretchFits
    PROVE  MemoryRefusesNoMore
<1> SUFFICES ASSUME NameStart <= Len(tokens), MayNameAfresh(NameStart)
             PROVE  MayName(NameStart)
  BY DEF MemoryRefusesNoMore
<1>1. NameStart \in 1..Len(tokens)
  BY NameStartIs, LenProperties DEF TypeOK
<1>2. \A s \in Remembers(NameStart) : Tells(s, NameStart)
  BY <1>1, StretchTells
<1> QED
  BY <1>1, <1>2 DEF MayName

-----------------------------------------------------------------------------
(* The words that are collected *)

\* A segment starts with an opener and its name, and has a closer with its name.
LEMMA SegmentIs ==
    ASSUME NEW c \in Seq(Token), NEW i \in 1..Len(c), NEW s \in Segments(c, i)
    PROVE  /\ Is(c, i, "[[") /\ NamesIftags(c, i)
           /\ s.body \in (i + 1)..(Len(c) + 1) /\ s.closer \in s.body..Len(c)
           /\ Is(c, s.closer, "[[/") /\ NamesIftags(c, s.closer)
           /\ After(c, s) \in (i + 1)..(Len(c) + 1)
<1>1. Len(c) \in Nat
  BY LenProperties
<1>2. /\ s.body \in {k + 1 : k \in TagEnds(c, i)} /\ s.closer \in (i + 1)..Len(c)
      /\ Is(c, i, "[[") /\ NamesIftags(c, i)
      /\ s.closer \in IftagsIn(c, s.body, Len(c), "[[/") /\ TagEnds(c, s.closer) # {}
  BY DEF Segments
<1>3. s.body \in (i + 1)..(Len(c) + 1)
  BY <1>1, <1>2 DEF TagEnds
<1>4. s.closer \in s.body..Len(c) /\ Is(c, s.closer, "[[/") /\ NamesIftags(c, s.closer)
  BY <1>2 DEF IftagsIn
<1>5. TagEnds(c, s.closer) \in SUBSET Nat
  BY <1>1, <1>2 DEF TagEnds
<1>6. Least(TagEnds(c, s.closer)) \in TagEnds(c, s.closer)
  BY <1>2, <1>5, LeastIs
<1>7. Least(TagEnds(c, s.closer)) \in s.closer..Len(c)
  BY <1>6 DEF TagEnds
<1>8. After(c, s) \in (i + 1)..(Len(c) + 1)
  BY <1>1, <1>2, <1>7 DEF After
<1> QED
  BY <1>2, <1>3, <1>4, <1>8

\* The word that is collected, by the recursion of Collected.
LEMMA CollectedIs ==
    ASSUME NEW c \in Seq(Token)
    PROVE  \A i \in 1..(Len(c) + 1) : Collected(c)[i] =
            IF i > Len(c) THEN <<"end">>
            ELSE IF c[i].token \in Ends THEN << >>
            ELSE IF c[i].token = "[!--"
              THEN IF Closers(c, i) = {} THEN <<"end">>
                   ELSE Collected(c)[Least(Closers(c, i)) + 1]
            ELSE IF Segments(c, i) # {}
              THEN LET s == CHOOSE s \in Segments(c, i) : TRUE
                   IN  Body(c, s) \o Collected(c)[After(c, s)]
            ELSE <<c[i].token>> \o Collected(c)[i + 1]
<1> DEFINE L == Len(c) + 1
           Seg(i) == CHOOSE s \in Segments(c, i) : TRUE
           B(f, i) == IF i > Len(c) THEN <<"end">>
                      ELSE IF c[i].token \in Ends THEN << >>
                      ELSE IF c[i].token = "[!--"
                        THEN IF Closers(c, i) = {} THEN <<"end">>
                             ELSE f[Least(Closers(c, i)) + 1]
                      ELSE IF Segments(c, i) # {}
                        THEN Body(c, Seg(i)) \o f[After(c, Seg(i))]
                      ELSE <<c[i].token>> \o f[i + 1]
           S == {n \in Nat : \E f : \A i \in 1..L : i > L - n => f[i] = B(f, i)}
<1>0. Len(c) \in Nat
  BY LenProperties
<1>1. \A f, g : \A i \in 1..L : (\A j \in (i + 1)..L : f[j] = g[j]) => B(f, i) = B(g, i)
  <2> SUFFICES ASSUME NEW f, NEW g, NEW i \in 1..L, \A j \in (i + 1)..L : f[j] = g[j]
               PROVE  B(f, i) = B(g, i)
    OBVIOUS
  <2>1. i <= Len(c) => i \in 1..Len(c) /\ i + 1 \in (i + 1)..L
    BY <1>0
  <2>2. i <= Len(c) /\ Closers(c, i) # {} => Least(Closers(c, i)) + 1 \in (i + 1)..L
    BY <1>0, <2>1, ClosersIs
  <2>3. i <= Len(c) /\ Segments(c, i) # {} => After(c, Seg(i)) \in (i + 1)..L
    BY <1>0, <2>1, SegmentIs
  <2> HIDE DEF Seg
  <2> QED
    BY <2>1, <2>2, <2>3
<1> HIDE DEF B
<1>2. 0 \in S
  <2>1. \A i \in 1..L : ~(i > L - 0)
    BY <1>0
  <2> QED
    BY <2>1
<1>3. ASSUME NEW n \in S PROVE n + 1 \in S
  <2>1. PICK f : \A i \in 1..L : i > L - n => f[i] = B(f, i)
    OBVIOUS
  <2> DEFINE g == [i \in 1..L |-> IF i > L - n THEN f[i] ELSE B(f, i)]
  <2>2. ASSUME NEW i \in 1..L, i > L - (n + 1) PROVE g[i] = B(g, i)
    <3>1. \A j \in (i + 1)..L : j \in 1..L /\ j > L - n
      BY <1>0, <2>2
    <3>2. \A j \in (i + 1)..L : f[j] = g[j]
      BY <3>1
    <3>3. B(f, i) = B(g, i)
      BY <1>1, <3>2
    <3> QED
      BY <2>1, <3>3
  <2> HIDE DEF g
  <2> QED
    BY <2>2
<1>4. L \in S
  <2> HIDE DEF S
  <2>1. S \in SUBSET Nat /\ L \in Nat
    BY <1>0 DEF S
  <2> QED
    BY <1>2, <1>3, <2>1, Induct
<1>5. PICK f : \A i \in 1..L : f[i] = B(f, i)
  BY <1>0, <1>4
<1> DEFINE g == [i \in 1..L |-> f[i]]
<1>6. g = [i \in 1..L |-> B(g, i)]
  <2>1. \A i \in 1..L : \A j \in (i + 1)..L : f[j] = g[j]
    BY <1>0
  <2>2. \A i \in 1..L : B(f, i) = B(g, i)
    BY <1>1, <2>1
  <2> QED
    BY <1>5, <2>2
<1>7. Collected(c) = CHOOSE h : h = [i \in 1..L |-> B(h, i)]
  BY DEF Collected, B
<1> HIDE DEF g
<1>8. Collected(c) = [i \in 1..L |-> B(Collected(c), i)]
  BY <1>6, <1>7
<1>9. \A i \in 1..L : Collected(c)[i] = B(Collected(c), i)
  BY <1>8
<1> QED
  BY <1>9 DEF B

\* What words are made of.
Letter == Kind \cup {"end"}

Whole(word) == \A k \in 1..Len(word) : word[k] # "end"

LEMMA CollectedWords ==
    ASSUME NEW c \in Seq(Token)
    PROVE  \A i \in 1..(Len(c) + 1) : Collected(c)[i] \in Seq(Letter)
<1> DEFINE L == Len(c) + 1
           S == {i \in 1..L : Collected(c)[i] \notin Seq(Letter)}
<1>0. Len(c) \in Nat /\ \A k \in 1..Len(c) : c[k].token \in Letter
  <2>1. Len(c) \in Nat
    BY LenProperties
  <2>2. \A k \in 1..Len(c) : c[k] \in Token
    BY <2>1, ElementOfSeq
  <2> QED
    BY <2>1, <2>2 DEF Token, Letter
<1> SUFFICES ASSUME S # {} PROVE FALSE
  OBVIOUS
<1>1. PICK x \in S : \A y \in (x + 1)..L : y \notin S
  <2>1. L \in Nat /\ S \in SUBSET (1..L)
    BY <1>0
  <2> HIDE DEF S, L
  <2> QED
    BY <2>1, LastOf
<1>2. x \in 1..L /\ Collected(c)[x] \notin Seq(Letter)
  BY <1>1
<1>3. \A y \in (x + 1)..L : Collected(c)[y] \in Seq(Letter)
  BY <1>0, <1>1
<1> HIDE DEF S
<1>4. << >> \in Seq(Letter) /\ <<"end">> \in Seq(Letter)
  BY DEF Letter
<1>5. x \in 1..Len(c) /\ ~(x > Len(c)) /\ c[x].token \notin Ends
  <2>1. ~(x > Len(c))
    BY <1>2, <1>4, CollectedIs
  <2>2. c[x].token \notin Ends
    BY <1>2, <1>4, <2>1, CollectedIs
  <2> QED
    BY <1>0, <1>2, <2>1, <2>2
<1>6. CASE c[x].token = "[!--"
  <2>1. Closers(c, x) # {} /\ Collected(c)[x] = Collected(c)[Least(Closers(c, x)) + 1]
    BY <1>0, <1>2, <1>4, <1>5, <1>6, CollectedIs
  <2>2. Least(Closers(c, x)) + 1 \in (x + 1)..L
    BY <1>0, <1>5, <2>1, ClosersIs
  <2> QED
    BY <1>2, <1>3, <2>1, <2>2
<1>7. CASE c[x].token # "[!--" /\ Segments(c, x) # {}
  <2> DEFINE s == CHOOSE s \in Segments(c, x) : TRUE
  <2>1. s \in Segments(c, x)
    BY <1>7
  <2>2. Collected(c)[x] = Body(c, s) \o Collected(c)[After(c, s)]
    BY <1>2, <1>5, <1>7, CollectedIs
  <2> HIDE DEF s
  <2>3. /\ After(c, s) \in (x + 1)..L /\ s.body \in 1..L /\ s.closer \in s.body..Len(c)
    BY <1>0, <1>5, <2>1, SegmentIs
  <2>4. Body(c, s) \in Seq(Letter)
    <3>1. s.closer - s.body \in Nat
      BY <1>0, <2>3
    <3>2. \A k \in 1..(s.closer - s.body) : c[s.body + k - 1].token \in Letter
      BY <1>0, <2>3
    <3> QED
      BY <1>4, <3>1, <3>2 DEF Body
  <2>5. Collected(c)[After(c, s)] \in Seq(Letter)
    BY <1>3, <2>3
  <2> QED
    BY <1>2, <2>2, <2>4, <2>5, ConcatProperties
<1>8. CASE c[x].token # "[!--" /\ Segments(c, x) = {}
  <2>1. Collected(c)[x] = <<c[x].token>> \o Collected(c)[x + 1]
    BY <1>2, <1>5, <1>8, CollectedIs
  <2>2. <<c[x].token>> \in Seq(Letter)
    BY <1>0, <1>5
  <2>3. x + 1 \in (x + 1)..L
    BY <1>0, <1>5
  <2> QED
    BY <1>2, <1>3, <2>1, <2>2, <2>3, ConcatProperties
<1> QED
  BY <1>6, <1>7, <1>8

\* The last words of a whole one are whole.
LEMMA WholeParts ==
    ASSUME NEW u \in Seq(Letter), NEW v \in Seq(Letter), Whole(u \o v)
    PROVE  Whole(u) /\ Whole(v)
<1>1. /\ Len(u) \in Nat /\ Len(v) \in Nat /\ Len(u \o v) = Len(u) + Len(v)
      /\ \A k \in 1..(Len(u) + Len(v)) :
            (u \o v)[k] = IF k <= Len(u) THEN u[k] ELSE v[k - Len(u)]
  BY ConcatProperties, LenProperties
<1>2. \A k \in 1..Len(u) : u[k] # "end"
  BY <1>1 DEF Whole
<1>3. ASSUME NEW k \in 1..Len(v) PROVE v[k] # "end"
  <2>1. k + Len(u) \in 1..(Len(u) + Len(v)) /\ ~(k + Len(u) <= Len(u)) /\ k + Len(u) - Len(u) = k
    BY <1>1
  <2>2. (u \o v)[k + Len(u)] = v[k]
    BY <1>1, <2>1
  <2>3. (u \o v)[k + Len(u)] # "end"
    BY <1>1, <2>1 DEF Whole
  <2> QED
    BY <2>2, <2>3
<1> QED
  BY <1>2, <1>3 DEF Whole

LEMMA KnownIsWhole ==
    ASSUME NEW word \in Seq(Letter), Known(word)
    PROVE  Whole(word) /\ \E k \in 1..Len(word) : word[k] \in {"name", "iftags"}
<1>1. DOMAIN word = 1..Len(word)
  BY LenProperties
<1>2. PICK k \in 1..Len(word) : /\ word[k] \in {"name", "iftags"}
                               /\ \A j \in (1..Len(word)) \ {k} : word[j] = " "
  BY <1>1 DEF Known
<1> QED
  BY <1>2 DEF Whole

\* The tokens of a list from one up to another.
Run(c, i, stop) == [k \in 1..(stop - i) |-> c[i + k - 1].token]

\* What is put into a whole word was there, but for its segments.
Drawn(c, i) ==
    /\ Stops(c)[i] # 0
    /\ \/ \E k \in i..(Stops(c)[i] - 1) : Segments(c, k) # {}
       \/ /\ \A k \in 1..Len(Collected(c)[i]) : \E j \in i..(Stops(c)[i] - 1) :
                c[j].token = Collected(c)[i][k]
          /\ (\A k \in i..(Stops(c)[i] - 1) : c[k].token # "[!--")
             => Collected(c)[i] = Run(c, i, Stops(c)[i])

\* One token more.
LEMMA DrawnOne ==
    ASSUME NEW c \in Seq(Token), NEW x \in 1..Len(c), Drawn(c, x + 1),
           Stops(c)[x] = Stops(c)[x + 1],
           Collected(c)[x] = <<c[x].token>> \o Collected(c)[x + 1]
    PROVE  Drawn(c, x)
<1> DEFINE e == Stops(c)[x]
           t == c[x].token
           w == Collected(c)[x + 1]
<1>0. Len(c) \in Nat /\ t \in Letter
  <2>1. Len(c) \in Nat /\ c[x] \in Token
    BY LenProperties, ElementOfSeq
  <2> QED
    BY <2>1 DEF Token, Letter
<1>1. e # 0 /\ e \in (x + 1)..Len(c)
  <2>1. e # 0 /\ x + 1 \in 1..(Len(c) + 1)
    BY <1>0 DEF Drawn
  <2> QED
    BY <1>0, <2>1, StopsEnd
<1>2. w \in Seq(Letter)
  <2>1. x + 1 \in 1..(Len(c) + 1)
    BY <1>0
  <2> QED
    BY <2>1, CollectedWords
<1>3. \/ \E k \in (x + 1)..(e - 1) : Segments(c, k) # {}
      \/ /\ \A k \in 1..Len(w) : \E j \in (x + 1)..(e - 1) : c[j].token = w[k]
         /\ (\A k \in (x + 1)..(e - 1) : c[k].token # "[!--") => w = Run(c, x + 1, e)
  BY DEF Drawn
<1>4. x \in x..(e - 1) /\ \A k \in (x + 1)..(e - 1) : k \in x..(e - 1)
  BY <1>0, <1>1
<1>5. /\ <<t>> \o w \in Seq(Letter) /\ Len(<<t>> \o w) = 1 + Len(w) /\ Len(w) \in Nat
      /\ \A k \in 1..(1 + Len(w)) : (<<t>> \o w)[k] = IF k = 1 THEN t ELSE w[k - 1]
  <2>1. <<t>> \in Seq(Letter) /\ Len(<<t>>) = 1 /\ Len(w) \in Nat
    BY <1>0, <1>2, LenProperties
  <2>2. /\ <<t>> \o w \in Seq(Letter) /\ Len(<<t>> \o w) = Len(<<t>>) + Len(w)
        /\ \A k \in 1..(Len(<<t>>) + Len(w)) :
                (<<t>> \o w)[k] = IF k <= Len(<<t>>) THEN <<t>>[k] ELSE w[k - Len(<<t>>)]
    BY <1>2, <2>1, ConcatProperties
  <2> HIDE DEF w, t
  <2> QED
    BY <2>1, <2>2
<1> HIDE DEF e, t, w
<1>6. CASE \E k \in (x + 1)..(e - 1) : Segments(c, k) # {}
  <2>1. \E k \in x..(e - 1) : Segments(c, k) # {}
    BY <1>4, <1>6
  <2> QED
    BY <1>1, <2>1 DEF Drawn, e
<1>7. CASE /\ \A k \in 1..Len(w) : \E j \in (x + 1)..(e - 1) : c[j].token = w[k]
           /\ (\A k \in (x + 1)..(e - 1) : c[k].token # "[!--") => w = Run(c, x + 1, e)
  <2>1. ASSUME NEW k \in 1..(1 + Len(w))
        PROVE  \E j \in x..(e - 1) : c[j].token = (<<t>> \o w)[k]
    <3>1. CASE k = 1
      BY <1>4, <1>5, <3>1 DEF t
    <3>2. CASE k # 1
      <4>1. k - 1 \in 1..Len(w) /\ (<<t>> \o w)[k] = w[k - 1]
        BY <1>5, <3>2
      <4>2. PICK j \in (x + 1)..(e - 1) : c[j].token = w[k - 1]
        BY <1>7, <4>1
      <4> QED
        BY <1>4, <4>1, <4>2
    <3> QED
      BY <3>1, <3>2
  <2>2. ASSUME \A k \in x..(e - 1) : c[k].token # "[!--"
        PROVE  <<t>> \o w = Run(c, x, e)
    <3>1. w = Run(c, x + 1, e)
      BY <1>4, <1>7, <2>2
    <3>2. Len(w) = e - (x + 1)
      <4>1. e - (x + 1) \in Nat
        BY <1>0, <1>1
      <4>2. DOMAIN w = 1..(e - (x + 1)) /\ DOMAIN w = 1..Len(w)
        BY <1>2, <3>1, LenProperties DEF Run
      <4> QED
        BY <1>5, <4>1, <4>2
    <3>3. DOMAIN (<<t>> \o w) = 1..(e - x)
      <4>1. DOMAIN (<<t>> \o w) = 1..(1 + Len(w))
        BY <1>5, LenProperties
      <4>2. 1 + Len(w) = e - x
        BY <1>0, <1>1, <3>2
      <4> QED
        BY <4>1, <4>2
    <3>4. ASSUME NEW k \in 1..(e - x) PROVE (<<t>> \o w)[k] = c[x + k - 1].token
      <4>1. k \in 1..(1 + Len(w))
        BY <1>0, <1>1, <3>2
      <4>2. CASE k = 1
        BY <1>5, <4>1, <4>2 DEF t
      <4>3. CASE k # 1
        <5>1. k - 1 \in 1..(e - (x + 1)) /\ (x + 1) + (k - 1) - 1 = x + k - 1
          BY <1>0, <1>1, <4>3
        <5>2. w[k - 1] = c[(x + 1) + (k - 1) - 1].token
          BY <3>1, <5>1 DEF Run
        <5> QED
          BY <1>5, <4>1, <4>3, <5>1, <5>2
      <4> QED
        BY <4>2, <4>3
    <3>5. Run(c, x, e) = [k \in 1..(e - x) |-> (<<t>> \o w)[k]]
      BY <3>4 DEF Run
    <3>6. <<t>> \o w = [k \in 1..(e - x) |-> (<<t>> \o w)[k]]
      <4> DEFINE f == <<t>> \o w
      <4>1. f \in Seq(Letter) /\ DOMAIN f = 1..(e - x)
        BY <1>5, <3>3
      <4> HIDE DEF f
      <4>2. f \in [1..Len(f) -> Letter] /\ DOMAIN f = 1..Len(f)
        BY <4>1, LenProperties
      <4>3. f = [k \in 1..Len(f) |-> f[k]]
        BY <4>2
      <4>4. f = [k \in 1..(e - x) |-> f[k]]
        BY <4>1, <4>2, <4>3
      <4> QED
        BY <4>4 DEF f
    <3> QED
      BY <3>5, <3>6
  <2>3. Collected(c)[x] = <<t>> \o w
    BY DEF t, w
  <2>4. Len(Collected(c)[x]) = 1 + Len(w)
    BY <1>5, <2>3
  <2> QED
    BY <1>1, <2>1, <2>2, <2>3, <2>4 DEF Drawn, e
<1> QED
  BY <1>3, <1>6, <1>7

LEMMA WholeDrawn ==
    ASSUME NEW c \in Seq(Token)
    PROVE  \A i \in 1..(Len(c) + 1) : Whole(Collected(c)[i]) => Drawn(c, i)
<1> DEFINE L == Len(c) + 1
           S == {i \in 1..L : Whole(Collected(c)[i]) /\ ~Drawn(c, i)}
<1>0. Len(c) \in Nat
  BY LenProperties
<1> SUFFICES ASSUME S # {} PROVE FALSE
  OBVIOUS
<1>1. PICK x \in S : \A y \in (x + 1)..L : y \notin S
  <2>1. L \in Nat /\ S \in SUBSET (1..L)
    BY <1>0
  <2> HIDE DEF S, L
  <2> QED
    BY <2>1, LastOf
<1>2. x \in 1..L /\ Whole(Collected(c)[x]) /\ ~Drawn(c, x)
  BY <1>1
<1>3. \A y \in (x + 1)..L : Whole(Collected(c)[y]) => Drawn(c, y)
  BY <1>0, <1>1
<1> HIDE DEF S
<1>4. ~Whole(<<"end">>)
  BY DEF Whole
<1>5. x \in 1..Len(c) /\ ~(x > Len(c)) /\ x + 1 \in (x + 1)..L
  <2>1. ~(x > Len(c))
    BY <1>2, <1>4, CollectedIs
  <2> QED
    BY <1>0, <1>2, <2>1
<1>6. c[x].token \notin Ends
  <2> SUFFICES ASSUME c[x].token \in Ends PROVE Drawn(c, x)
    BY <1>2
  <2>1. Stops(c)[x] = x /\ Collected(c)[x] = << >>
    BY <1>0, <1>2, <1>5, StopsIs, CollectedIs
  <2>2. x # 0 /\ x - x = 0
    BY <1>5
  <2>3. Run(c, x, x) = << >>
    BY <2>2 DEF Run
  <2> QED
    BY <2>1, <2>2, <2>3 DEF Drawn
<1>7. CASE c[x].token = "[!--"
  <2> DEFINE b == Least(Closers(c, x)) + 1
  <2>1. Closers(c, x) # {}
    BY <1>2, <1>4, <1>5, <1>6, <1>7, CollectedIs
  <2>2. Collected(c)[x] = Collected(c)[b] /\ Stops(c)[x] = Stops(c)[b]
    BY <1>0, <1>2, <1>5, <1>6, <1>7, <2>1, StopsIs, CollectedIs
  <2>3. b \in (x + 1)..L
    BY <1>0, <1>5, <2>1, ClosersIs
  <2> HIDE DEF b
  <2>4. Drawn(c, b)
    BY <1>2, <1>3, <2>2, <2>3
  <2>5. Stops(c)[b] \in b..Len(c)
    BY <1>0, <1>5, <2>3, <2>4, StopsEnd DEF Drawn
  <2>6. x \in x..(Stops(c)[x] - 1) /\ \A k \in b..(Stops(c)[b] - 1) : k \in x..(Stops(c)[x] - 1)
    BY <1>0, <1>5, <2>2, <2>3, <2>5
  <2> QED
    BY <1>2, <1>7, <2>2, <2>4, <2>6 DEF Drawn
<1>8. CASE c[x].token # "[!--" /\ Segments(c, x) # {}
  <2>1. Is(c, x, "[[") /\ NamesIftags(c, x)
    BY <1>5, <1>8, SegmentIs
  <2>2. Stops(c)[x] = Stops(c)[x + 1]
    BY <1>0, <1>2, <1>5, <1>6, <1>8, StopsIs
  <2>3. Stops(c)[x] \in {x + 1, x + 2}
    <3>1. CASE Is(c, x + 1, " ")
      <4>1. x + 1 <= Len(c) /\ c[x + 1].token \in Ends
        BY <3>1 DEF Is, Ends
      <4>2. Stops(c)[x + 1] = x + 1
        BY <1>0, <1>5, <4>1, StopsIs
      <4> QED
        BY <2>2, <4>2
    <3>2. CASE ~Is(c, x + 1, " ")
      <4>1. /\ Is(c, x + 1, "iftags") /\ x + 1 < Len(c) /\ c[x + 2].token \in Ends
        <5>1. NameAt(c, x) = x + 1 /\ x + 1 + 1 = x + 2
          <6>1. NameAt(c, x) = x + 1
            BY <3>2 DEF NameAt, PastSpace
          <6> QED
            BY <1>5, <6>1
        <5> QED
          BY <2>1, <5>1 DEF NamesIftags
      <4>2. Stops(c)[x + 1] = Stops(c)[x + 2]
        <5>1. /\ x + 1 \in 1..L /\ ~(x + 1 > Len(c)) /\ c[x + 1].token = "iftags"
              /\ (x + 1) + 1 = x + 2
          BY <1>0, <1>5, <4>1 DEF Is
        <5>2. c[x + 1].token \notin Ends /\ c[x + 1].token # "[!--"
          BY <5>1 DEF Ends
        <5>3. Stops(c)[x + 1] = Stops(c)[(x + 1) + 1]
          BY <1>0, <5>1, <5>2, StopsIs
        <5> QED
          BY <5>1, <5>3
      <4>3. Stops(c)[x + 2] = x + 2
        <5>1. x + 2 \in 1..L /\ ~(x + 2 > Len(c))
          BY <1>0, <1>5, <4>1
        <5> QED
          BY <1>0, <4>1, <5>1, StopsIs
      <4> QED
        BY <2>2, <4>2, <4>3
    <3> QED
      BY <3>1, <3>2
  <2>4. Stops(c)[x] # 0 /\ x \in x..(Stops(c)[x] - 1)
    BY <1>0, <1>5, <2>3
  <2> QED
    BY <1>2, <1>8, <2>4 DEF Drawn
<1>9. CASE c[x].token # "[!--" /\ Segments(c, x) = {}
  <2>1. /\ Collected(c)[x] = <<c[x].token>> \o Collected(c)[x + 1]
        /\ Stops(c)[x] = Stops(c)[x + 1]
    BY <1>0, <1>2, <1>5, <1>6, <1>9, StopsIs, CollectedIs
  <2>2. <<c[x].token>> \in Seq(Letter)
    <3>1. c[x] \in Token
      BY <1>5, ElementOfSeq
    <3> QED
      BY <3>1 DEF Token, Letter
  <2>3. Whole(Collected(c)[x + 1])
    <3>1. Collected(c)[x + 1] \in Seq(Letter)
      BY <1>0, <1>5, CollectedWords
    <3> QED
      BY <1>2, <2>1, <2>2, <3>1, WholeParts
  <2>4. Drawn(c, x + 1)
    BY <1>3, <1>5, <2>3
  <2> QED
    BY <1>2, <1>5, <2>1, <2>4, DrawnOne
<1> QED
  BY <1>7, <1>8, <1>9

-----------------------------------------------------------------------------
(* The readings and the tokens they are made from *)

\* Where words end in tokens with one more in front.
LEMMA StopsShift ==
    ASSUME NEW u, Len(u) \in Nat, NEW v, Len(v) = Len(u) + 1, NEW from \in Nat \ {0},
           \A k \in from..Len(u) : v[k + 1].token = u[k].token
    PROVE  \A i \in from..(Len(u) + 1) :
            Stops(v)[i + 1] = IF Stops(u)[i] = 0 THEN 0 ELSE Stops(u)[i] + 1
<1> DEFINE L == Len(u) + 1
           Fine(i) == Stops(v)[i + 1] = IF Stops(u)[i] = 0 THEN 0 ELSE Stops(u)[i] + 1
           S == {i \in from..L : ~Fine(i)}
<1> SUFFICES ASSUME S # {} PROVE FALSE
  OBVIOUS
<1>1. PICK x \in S : \A y \in (x + 1)..L : y \notin S
  <2>1. L \in Nat /\ S \in SUBSET (1..L)
    OBVIOUS
  <2> HIDE DEF S, L
  <2> QED
    BY <2>1, LastOf
<1>2. x \in from..L /\ ~Fine(x)
  BY <1>1
<1>3. \A y \in (x + 1)..L : Fine(y)
  BY <1>1
<1> HIDE DEF S
<1>4. x \in 1..(Len(u) + 1) /\ x + 1 \in 1..(Len(v) + 1) /\ (x > Len(u) <=> x + 1 > Len(v))
  BY <1>2
<1>5. CASE x > Len(u)
  <2>1. Stops(u)[x] = 0 /\ Stops(v)[x + 1] = 0
    BY <1>4, <1>5, StopsIs
  <2> QED
    BY <1>2, <2>1
<1>6. CASE ~(x > Len(u))
  <2>0. /\ x \in 1..Len(u) /\ x \in from..Len(u) /\ v[x + 1].token = u[x].token
        /\ x + 1 \in 1..Len(v) /\ ~(x + 1 > Len(v))
    BY <1>2, <1>6
  <2>1. CASE u[x].token \in Ends
    <3>1. Stops(u)[x] = x /\ Stops(v)[x + 1] = x + 1
      BY <1>4, <1>6, <2>0, <2>1, StopsIs
    <3> QED
      BY <1>2, <2>0, <3>1
  <2>2. CASE u[x].token \notin Ends /\ u[x].token # "[!--"
    <3>1. Stops(u)[x] = Stops(u)[x + 1] /\ Stops(v)[x + 1] = Stops(v)[(x + 1) + 1]
      BY <1>4, <1>6, <2>0, <2>2, StopsIs
    <3>2. x + 1 \in (x + 1)..L
      BY <2>0
    <3> QED
      BY <1>2, <1>3, <3>1, <3>2
  <2>3. CASE u[x].token = "[!--"
    <3>0. u[x].token \notin Ends
      BY <2>3 DEF Ends
    <3>1. \A k \in (x + 2)..Len(u) :
            v[k + 1].token = u[k].token /\ v[(k + 1) - 1].token = u[k - 1].token
      <4>1. \A k \in (x + 2)..Len(u) : k \in from..Len(u) /\ k - 1 \in from..Len(u)
        BY <2>0
      <4>2. \A k \in (x + 2)..Len(u) : (k + 1) - 1 = (k - 1) + 1
        BY <2>0
      <4> QED
        BY <4>1, <4>2
    <3>2. \A k \in (x + 2)..Len(u) : k \in Closers(u, x) <=> k + 1 \in Closers(v, x + 1)
      <4>1. \A k \in (x + 2)..Len(u) : k + 1 \in ((x + 1) + 2)..Len(v)
        BY <2>0
      <4> QED
        BY <3>1, <4>1 DEF Closers
    <3>3. \A k \in Closers(v, x + 1) : k - 1 \in Closers(u, x) /\ k \in Nat
      <4>1. \A k \in Closers(v, x + 1) : k \in ((x + 1) + 2)..Len(v)
        BY DEF Closers
      <4>2. \A k \in Closers(v, x + 1) : k - 1 \in (x + 2)..Len(u) /\ (k - 1) + 1 = k
        BY <2>0, <4>1
      <4> QED
        BY <3>2, <4>1, <4>2, <2>0
    <3>4. \A k \in Closers(u, x) : k \in (x + 2)..Len(u) /\ k + 1 \in Closers(v, x + 1)
      <4>1. \A k \in Closers(u, x) : k \in (x + 2)..Len(u)
        BY DEF Closers
      <4> QED
        BY <3>2, <4>1
    <3>5. CASE Closers(u, x) = {}
      <4>1. Closers(v, x + 1) = {}
        BY <3>3, <3>5
      <4>2. Stops(u)[x] = 0 /\ Stops(v)[x + 1] = 0
        BY <1>4, <1>6, <2>0, <2>3, <3>0, <3>5, <4>1, StopsIs
      <4> QED
        BY <1>2, <4>2
    <3>6. CASE Closers(u, x) # {}
      <4> DEFINE a == Least(Closers(u, x))
                 b == Least(Closers(v, x + 1))
      <4>1. a \in Closers(u, x) /\ (\A k \in Closers(u, x) : a <= k) /\ a + 1 \in (x + 1)..L
        BY <2>0, <3>6, ClosersIs
      <4>2. Closers(v, x + 1) # {}
        BY <3>4, <4>1
      <4>3. b \in Closers(v, x + 1) /\ \A k \in Closers(v, x + 1) : b <= k
        <5>1. Len(v) \in Nat
          OBVIOUS
        <5> QED
          BY <2>0, <4>2, <5>1, ClosersIs
      <4>4. Stops(u)[x] = Stops(u)[a + 1] /\ Stops(v)[x + 1] = Stops(v)[b + 1]
        <5>1. Stops(u)[x] = Stops(u)[a + 1]
          BY <1>4, <1>6, <2>3, <3>0, <3>6, StopsIs
        <5>2. Len(v) \in Nat
          OBVIOUS
        <5>3. Stops(v)[x + 1] = Stops(v)[b + 1]
          BY <1>4, <2>0, <2>3, <3>0, <4>2, <5>2, StopsIs
        <5> QED
          BY <5>1, <5>3
      <4> HIDE DEF a, b
      <4>5. b = a + 1
        <5>1. a + 1 \in Closers(v, x + 1) /\ b - 1 \in Closers(u, x) /\ a \in Nat /\ b \in Nat
          BY <2>0, <3>3, <3>4, <4>1, <4>3
        <5>2. b <= a + 1 /\ a <= b - 1
          BY <4>1, <4>3, <5>1
        <5> QED
          BY <5>1, <5>2
      <4> QED
        BY <1>2, <1>3, <4>1, <4>4, <4>5
    <3> QED
      BY <3>5, <3>6
  <2> QED
    BY <2>1, <2>2, <2>3
<1> QED
  BY <1>5, <1>6

\* The tokens of the readings.
LEMMA PrefixIs ==
    ASSUME TypeOK, Pair
    PROVE  /\ AsPrefix \in Seq(Token) /\ Len(AsPrefix) = Len(tokens) + 1
           /\ \A k \in (index + 2)..Len(tokens) : AsPrefix[k + 1].token = tokens[k].token
<1>1. /\ tokens \in Seq(Token) /\ Len(tokens) \in Nat /\ index \in Nat \ {0}
      /\ index \in 1..Len(tokens) /\ index + 2 <= Len(tokens) + 1 /\ Here \in Nat
  <2>1. /\ tokens \in Seq(Token) /\ Len(tokens) \in Nat /\ index \in Nat \ {0}
        /\ index \in 1..Len(tokens) /\ index + 2 <= Len(tokens) + 1
    BY LenProperties DEF TypeOK, Pair, PairsOf, Is, Scanning
  <2>2. tokens[index] \in Token
    BY <2>1, ElementOfSeq
  <2> QED
    BY <2>1, <2>2 DEF Here, Token
<1> DEFINE with == <<Tok("[", Here), Tok("[", Here + 1), Tok("[[", Here + 2)>>
<1>2. with \in Seq(Token) /\ Len(with) = 3
  BY <1>1, TokIsToken
<1>3. AsPrefix = Spliced(2, with)
  BY DEF AsPrefix
<1> HIDE DEF with
<1>4. /\ AsPrefix \in Seq(Token) /\ Len(AsPrefix) = Len(tokens) - 2 + 3
      /\ \A i \in 1..(Len(tokens) - 2 + 3) :
            AsPrefix[i] = IF i < index THEN tokens[i]
                          ELSE IF i < index + 3 THEN with[i - index + 1]
                          ELSE tokens[i + 2 - 3]
  <2>1. /\ Spliced(2, with) \in Seq(Token)
        /\ Len(Spliced(2, with)) = Len(tokens) - 2 + Len(with)
        /\ \A i \in 1..(Len(tokens) - 2 + Len(with)) :
                Spliced(2, with)[i] =
                    IF i < index THEN tokens[i]
                    ELSE IF i < index + Len(with) THEN with[i - index + 1]
                    ELSE tokens[i + 2 - Len(with)]
    BY <1>1, <1>2, SplicedIs
  <2>2. Len(with) = 3
    BY <1>2
  <2> QED
    BY <1>3, <2>1, <2>2
<1>5. ASSUME NEW k \in (index + 2)..Len(tokens) PROVE AsPrefix[k + 1] = tokens[k]
  <2>1. /\ k + 1 \in 1..(Len(tokens) - 2 + 3) /\ ~(k + 1 < index) /\ ~(k + 1 < index + 3)
        /\ k + 1 + 2 - 3 = k
    BY <1>1
  <2> QED
    BY <1>4, <2>1
<1> QED
  BY <1>1, <1>4, <1>5

LEMMA SegmentReadingIs ==
    ASSUME TypeOK, Pair
    PROVE  /\ AsSegment \in Seq(Token) /\ Len(AsSegment) = Len(tokens)
           /\ index + 1 \in 1..Len(tokens) /\ AsSegment[index + 1].token = "[["
           /\ \A k \in (index + 2)..Len(tokens) : AsSegment[k].token = tokens[k].token
<1>1. /\ tokens \in Seq(Token) /\ Len(tokens) \in Nat /\ index \in Nat \ {0}
      /\ index \in 1..Len(tokens) /\ index + 1 \in 1..Len(tokens)
      /\ index + 2 <= Len(tokens) + 1 /\ Here \in Nat
  <2>1. /\ tokens \in Seq(Token) /\ Len(tokens) \in Nat /\ index \in Nat \ {0}
        /\ index \in 1..Len(tokens) /\ index + 1 \in 1..Len(tokens)
        /\ index + 2 <= Len(tokens) + 1
    BY LenProperties DEF TypeOK, Pair, PairsOf, Is, Scanning
  <2>2. tokens[index] \in Token
    BY <2>1, ElementOfSeq
  <2> QED
    BY <2>1, <2>2 DEF Here, Token
<1> DEFINE with == <<Tok("[[", Here), Tok("[[", Here + 2)>>
<1>2. with \in Seq(Token) /\ Len(with) = 2 /\ with[2].token = "[["
  <2>1. with[2] = Tok("[[", Here + 2) /\ Tok("[[", Here + 2).token = "[["
    BY DEF Tok
  <2> QED
    BY <1>1, <2>1, TokIsToken
<1>3. AsSegment = Spliced(2, with)
  BY DEF AsSegment
<1> HIDE DEF with
<1>4. /\ AsSegment \in Seq(Token) /\ Len(AsSegment) = Len(tokens) - 2 + 2
      /\ \A i \in 1..(Len(tokens) - 2 + 2) :
            AsSegment[i] = IF i < index THEN tokens[i]
                           ELSE IF i < index + 2 THEN with[i - index + 1]
                           ELSE tokens[i + 2 - 2]
  <2>1. /\ Spliced(2, with) \in Seq(Token)
        /\ Len(Spliced(2, with)) = Len(tokens) - 2 + Len(with)
        /\ \A i \in 1..(Len(tokens) - 2 + Len(with)) :
                Spliced(2, with)[i] =
                    IF i < index THEN tokens[i]
                    ELSE IF i < index + Len(with) THEN with[i - index + 1]
                    ELSE tokens[i + 2 - Len(with)]
    BY <1>1, <1>2, SplicedIs
  <2>2. Len(with) = 2
    BY <1>2
  <2> QED
    BY <1>3, <2>1, <2>2
<1>5. AsSegment[index + 1] = with[2]
  <2>1. /\ index + 1 \in 1..(Len(tokens) - 2 + 2) /\ ~(index + 1 < index)
        /\ index + 1 < index + 2 /\ (index + 1) - index + 1 = 2
    BY <1>1
  <2>2. AsSegment[index + 1] = with[(index + 1) - index + 1]
    BY <1>4, <2>1
  <2> QED
    BY <2>1, <2>2
<1>6. ASSUME NEW k \in (index + 2)..Len(tokens) PROVE AsSegment[k] = tokens[k]
  <2>1. /\ k \in 1..(Len(tokens) - 2 + 2) /\ ~(k < index) /\ ~(k < index + 2)
        /\ k + 2 - 2 = k
    BY <1>1
  <2> QED
    BY <1>4, <2>1
<1> QED
  BY <1>1, <1>2, <1>4, <1>5, <1>6

LEMMA CommentReadingIs ==
    ASSUME TypeOK, CommentHead
    PROVE  /\ AsComment \in Seq(Token) /\ Len(AsComment) = Len(tokens) - 1
           /\ index + 1 \in 1..Len(AsComment) /\ AsComment[index + 1].token = "[!--"
           /\ \A k \in (index + 2)..Len(AsComment) : AsComment[k].token = tokens[k + 1].token
<1>1. /\ tokens \in Seq(Token) /\ Len(tokens) \in Nat /\ index \in Nat \ {0}
      /\ index \in 1..Len(tokens) /\ index + 2 <= Len(tokens) /\ Here \in Nat
  <2>1. /\ tokens \in Seq(Token) /\ Len(tokens) \in Nat /\ index \in Nat \ {0}
        /\ index \in 1..Len(tokens) /\ index + 2 <= Len(tokens)
    BY LenProperties DEF TypeOK, CommentHead, Is, Scanning
  <2>2. tokens[index] \in Token
    BY <2>1, ElementOfSeq
  <2> QED
    BY <2>1, <2>2 DEF Here, Token
<1> DEFINE with == <<Tok("[[", Here), Tok("[!--", Here + 2)>>
<1>2. with \in Seq(Token) /\ Len(with) = 2 /\ with[2].token = "[!--"
  <2>1. with[2] = Tok("[!--", Here + 2) /\ Tok("[!--", Here + 2).token = "[!--"
    BY DEF Tok
  <2> QED
    BY <1>1, <2>1, TokIsToken
<1>3. AsComment = Spliced(3, with)
  BY DEF AsComment
<1> HIDE DEF with
<1>4. /\ AsComment \in Seq(Token) /\ Len(AsComment) = Len(tokens) - 3 + 2
      /\ \A i \in 1..(Len(tokens) - 3 + 2) :
            AsComment[i] = IF i < index THEN tokens[i]
                           ELSE IF i < index + 2 THEN with[i - index + 1]
                           ELSE tokens[i + 3 - 2]
  <2>1. /\ Spliced(3, with) \in Seq(Token)
        /\ Len(Spliced(3, with)) = Len(tokens) - 3 + Len(with)
        /\ \A i \in 1..(Len(tokens) - 3 + Len(with)) :
                Spliced(3, with)[i] =
                    IF i < index THEN tokens[i]
                    ELSE IF i < index + Len(with) THEN with[i - index + 1]
                    ELSE tokens[i + 3 - Len(with)]
    <3>1. index + 3 <= Len(tokens) + 1
      BY <1>1
    <3> QED
      BY <1>1, <1>2, <3>1, SplicedIs
  <2>2. Len(with) = 2
    BY <1>2
  <2> QED
    BY <1>3, <2>1, <2>2
<1>5. AsComment[index + 1] = with[2]
  <2>1. /\ index + 1 \in 1..(Len(tokens) - 3 + 2) /\ ~(index + 1 < index)
        /\ index + 1 < index + 2 /\ (index + 1) - index + 1 = 2
    BY <1>1
  <2>2. AsComment[index + 1] = with[(index + 1) - index + 1]
    BY <1>4, <2>1
  <2> QED
    BY <2>1, <2>2
<1>6. ASSUME NEW k \in (index + 2)..Len(AsComment) PROVE AsComment[k] = tokens[k + 1]
  <2>1. /\ k \in 1..(Len(tokens) - 3 + 2) /\ ~(k < index) /\ ~(k < index + 2)
        /\ k + 3 - 2 = k + 1
    BY <1>1, <1>4
  <2> QED
    BY <1>4, <2>1
<1> QED
  BY <1>1, <1>2, <1>4, <1>5, <1>6

\* A name of [[iftags]] with what ends it, at tokens whose next list has one more.
LEMMA IftagsShift ==
    ASSUME TypeOK, Pair, NEW i \in (index + 2)..Len(tokens), NamesIftags(AsPrefix, i + 1)
    PROVE  IftagsMayStart(tokens, i) /\ CloserMayMatch(i)
<1> DEFINE c == AsPrefix
           m == PastSpace(tokens, i + 1)
<1>0. /\ Len(tokens) \in Nat /\ index \in Nat \ {0} /\ i \in Nat
      /\ Len(c) = Len(tokens) + 1
      /\ \A k \in (index + 2)..Len(tokens) : c[k + 1].token = tokens[k].token
  BY PrefixIs, LenProperties DEF TypeOK
<1> HIDE DEF c
<1>1. i + 1 <= Len(tokens) => c[(i + 1) + 1].token = tokens[i + 1].token
  BY <1>0
<1>2. Is(c, (i + 1) + 1, " ") <=> Is(tokens, i + 1, " ")
  <2>1. (i + 1) + 1 <= Len(c) <=> i + 1 <= Len(tokens)
    BY <1>0
  <2> QED
    BY <1>1, <2>1 DEF Is
<1>3. NameAt(c, i + 1) = m + 1 /\ m \in (i + 1)..(i + 2)
  <2>1. CASE Is(tokens, i + 1, " ")
    <3>1. m = (i + 1) + 1 /\ NameAt(c, i + 1) = ((i + 1) + 1) + 1
      BY <1>2, <2>1 DEF NameAt, PastSpace
    <3> QED
      BY <1>0, <3>1
  <2>2. CASE ~Is(tokens, i + 1, " ")
    <3>1. m = i + 1 /\ NameAt(c, i + 1) = (i + 1) + 1
      BY <1>2, <2>2 DEF NameAt, PastSpace
    <3> QED
      BY <1>0, <3>1
  <2> QED
    BY <2>1, <2>2
<1> HIDE DEF m
<1>4. /\ m + 1 < Len(c) /\ c[m + 1].token = "iftags" /\ c[(m + 1) + 1].token \in Ends
  BY <1>3 DEF NamesIftags, Is, c
<1>5. /\ m \in Nat \ {0} /\ m + 1 <= Len(tokens)
      /\ tokens[m].token = "iftags" /\ tokens[m + 1].token \in Ends
  <2>1. m \in (index + 2)..Len(tokens) /\ m + 1 \in (index + 2)..Len(tokens)
    BY <1>0, <1>3, <1>4
  <2> QED
    BY <1>0, <1>3, <1>4, <2>1
<1>6. IftagsMayStart(tokens, i)
  BY <1>0, <1>5 DEF IftagsMayStart, Is, m
<1>7. CloserMayMatch(i)
  <2> DEFINE ends == {j \in m..(Len(tokens) + 1) : j > Len(tokens) \/ tokens[j].token \in Ends}
  <2>1. m + 1 \in ends /\ m \notin ends /\ ends \in SUBSET Nat
    <3>1. m + 1 \in m..(Len(tokens) + 1) /\ ~(m > Len(tokens)) /\ m..(Len(tokens) + 1) \subseteq Nat
      BY <1>0, <1>5
    <3>2. tokens[m].token \notin Ends
      BY <1>5 DEF Ends
    <3> QED
      BY <1>5, <3>1, <3>2
  <2>2. Least(ends) \in ends /\ \A j \in ends : Least(ends) <= j
    BY <2>1, LeastIs
  <2>3. Least(ends) = m + 1
    BY <1>0, <1>5, <2>1, <2>2
  <2>4. Word(m, m + 1) = <<"iftags">>
    <3>1. m + 1 - m = 1 /\ \A k \in 1..1 : k = 1 /\ m + k - 1 = m
      BY <1>5
    <3>2. Word(m, m + 1) = [k \in 1..1 |-> "iftags"]
      BY <1>5, <3>1 DEF Word
    <3> QED
      BY <3>2
  <2> HIDE DEF ends
  <2>5. Word(m, Least(ends)) = <<"iftags">>
    BY <2>3, <2>4
  <2> QED
    BY <2>5 DEF CloserMayMatch, m, ends
<1> QED
  BY <1>6, <1>7

\* A name that is known in the prefix reading is one that the name gate lets pass.
LEMMA PrefixNamed ==
    ASSUME TypeOK, Pair, NameStart <= Len(tokens), Known(Collected(AsPrefix)[NameStart + 1])
    PROVE  MayNameAfresh(NameStart) /\ HeadEnds(tokens, index + 2) # {}
<1> DEFINE c == AsPrefix
           i == NameStart
           w == Collected(c)[i + 1]
           e == Stops(tokens)[i]
<1>0. /\ Len(tokens) \in Nat /\ index \in Nat \ {0}
      /\ i \in (index + 2)..Len(tokens) /\ i \in 1..Len(tokens)
      /\ c \in Seq(Token) /\ Len(c) = Len(tokens) + 1
      /\ \A k \in (index + 2)..Len(tokens) : c[k + 1].token = tokens[k].token
  BY PrefixIs, NameStartIs, LenProperties DEF TypeOK
<1> HIDE DEF c, i
<1>1. i + 1 \in 1..(Len(c) + 1)
  BY <1>0
<1>2. w \in Seq(Letter) /\ Known(w)
  BY <1>0, <1>1, CollectedWords DEF c, i
<1>3. Drawn(c, i + 1)
  BY <1>0, <1>1, <1>2, KnownIsWhole, WholeDrawn
<1>4. Stops(c)[i + 1] = IF e = 0 THEN 0 ELSE e + 1
  <2>1. index + 2 \in Nat \ {0} /\ i \in (index + 2)..(Len(tokens) + 1)
    BY <1>0
  <2> QED
    BY <1>0, <2>1, StopsShift
<1>5. e # 0 /\ Stops(c)[i + 1] = e + 1
  BY <1>3, <1>4 DEF Drawn
<1>6. e \in i..Len(tokens) /\ tokens[e].token \in Ends
  <2>1. i \in 1..(Len(tokens) + 1)
    BY <1>0
  <2> QED
    BY <1>0, <1>5, <2>1, StopsEnd
<1> HIDE DEF e
<1>7. \A k \in (i + 1)..e : k - 1 \in i..(e - 1) /\ k - 1 \in (index + 2)..Len(tokens) /\ (k - 1) + 1 = k
  BY <1>0, <1>6
<1>8. SegmentMayForm(i, e) \/ Tells(Stretch(i, e), i)
  <2>1. CASE \E k \in (i + 1)..e : Segments(c, k) # {}
    <3>1. PICK k \in (i + 1)..e : Segments(c, k) # {}
      BY <2>1
    <3>2. PICK s \in Segments(c, k) : TRUE
      BY <3>1
    <3>3. k \in 1..Len(c)
      BY <1>0, <1>6
    <3>4. /\ Is(c, k, "[[") /\ NamesIftags(c, k)
          /\ s.body \in (k + 1)..(Len(c) + 1) /\ s.closer \in s.body..Len(c)
          /\ Is(c, s.closer, "[[/") /\ NamesIftags(c, s.closer)
      BY <1>0, <3>3, SegmentIs
    <3> DEFINE j == s.closer - 1
               h == k - 1
    <3>5. /\ h \in (index + 2)..Len(tokens) /\ j \in (index + 2)..Len(tokens)
          /\ j \in (h + 1)..Len(tokens) /\ h \in i..(e - 1)
          /\ h + 1 = k /\ j + 1 = s.closer
      BY <1>0, <1>6, <3>3, <3>4
    <3>6. Is(tokens, h, "[[") /\ Is(tokens, j, "[[/")
      <4>1. c[k].token = "[[" /\ c[s.closer].token = "[[/"
        BY <3>4 DEF Is
      <4>2. tokens[h].token = c[k].token /\ tokens[j].token = c[s.closer].token
        <5> HIDE DEF h, j
        <5> QED
          BY <1>0, <3>5
      <4>3. h <= Len(tokens) /\ j <= Len(tokens)
        BY <1>0, <3>5
      <4> QED
        BY <4>1, <4>2, <4>3 DEF Is
    <3>7. IftagsMayStart(tokens, h) /\ CloserMayMatch(j)
      BY <3>4, <3>5, IftagsShift DEF c
    <3> HIDE DEF h, j
    <3> QED
      BY <3>5, <3>6, <3>7 DEF SegmentMayForm
  <2>2. CASE ~ \E k \in (i + 1)..e : Segments(c, k) # {}
    <3>0. (i + 1)..(Stops(c)[i + 1] - 1) = (i + 1)..e
      BY <1>0, <1>5, <1>6
    <3>1. /\ \A k \in 1..Len(w) : \E j \in (i + 1)..e : c[j].token = w[k]
          /\ (\A k \in (i + 1)..e : c[k].token # "[!--") => w = Run(c, i + 1, e + 1)
      BY <1>3, <1>5, <2>2, <3>0 DEF Drawn
    <3>2. CASE Stretch(i, e).kind = "plain"
      <4>1. ~ \E k \in i..(e - 1) : Is(tokens, k, "[!--")
        BY <3>2 DEF Stretch
      <4>2. \A k \in (i + 1)..e : c[k].token # "[!--"
        BY <1>0, <1>7, <4>1 DEF Is
      <4>3. w = Run(c, i + 1, e + 1)
        BY <3>1, <4>2
      <4>4. ASSUME NEW k \in 1..(e - i) PROVE c[(i + 1) + k - 1].token = tokens[i + k - 1].token
        <5>1. i + k - 1 \in (index + 2)..Len(tokens) /\ (i + k - 1) + 1 = (i + 1) + k - 1
          BY <1>0, <1>6
        <5> QED
          BY <1>0, <5>1
      <4>5. Run(c, i + 1, e + 1) = Word(i, e)
        <5>1. (e + 1) - (i + 1) = e - i
          BY <1>0, <1>6
        <5> QED
          BY <4>4, <5>1 DEF Run, Word
      <4>6. Known(Word(i, Stretch(i, e).stop))
        BY <1>2, <4>3, <4>5 DEF Stretch
      <4> QED
        BY <3>2, <4>6 DEF Tells
    <3>3. CASE Stretch(i, e).kind # "plain"
      <4> DEFINE words == {k \in i..(e - 1) : tokens[k].token \in Words}
      <4>1. PICK k \in 1..Len(w) : w[k] \in {"name", "iftags"}
        BY <1>2, KnownIsWhole
      <4>2. PICK j \in (i + 1)..e : c[j].token = w[k]
        BY <3>1
      <4>3. j - 1 \in i..(e - 1) /\ tokens[j - 1].token \in {"name", "iftags"}
        BY <1>0, <1>7, <4>1, <4>2
      <4>4. j - 1 \in words
        BY <4>3 DEF Words
      <4>5. words \in SUBSET Nat /\ words \subseteq i..(e - 1)
        BY <1>0
      <4>6. Stretch(i, e).letter = Least(words)
        BY <4>4 DEF Stretch
      <4> HIDE DEF words
      <4>7. Least(words) \in i..(e - 1)
        BY <4>4, <4>5, LeastIs
      <4>8. Stretch(i, e).letter >= i
        BY <1>0, <4>6, <4>7
      <4> QED
        BY <3>3, <4>8 DEF Tells
    <3> QED
      BY <3>2, <3>3
  <2> QED
    BY <2>1, <2>2
<1>9. MayNameAfresh(i)
  BY <1>5, <1>8 DEF MayNameAfresh, e
<1>10. e \in HeadEnds(tokens, index + 2)
  BY <1>0, <1>6 DEF HeadEnds, CanEndHead
<1> QED
  BY <1>9, <1>10 DEF i

-----------------------------------------------------------------------------
(* The readings that parse are let pass *)

\* The prefix reading looks for its name where the name gate does.
LEMMA PrefixGated ==
    ASSUME TypeOK, Pair, PrefixParses
    PROVE  /\ NameStart <= Len(tokens) /\ MayNameAfresh(NameStart)
           /\ HeadEnds(tokens, index + 2) # {}
<1> DEFINE c == AsPrefix
<1>0. /\ Len(tokens) \in Nat /\ index \in Nat \ {0} /\ Len(c) = Len(tokens) + 1
      /\ \A k \in (index + 2)..Len(tokens) : c[k + 1].token = tokens[k].token
  BY PrefixIs, LenProperties DEF TypeOK
<1>1. /\ NameFrom(c, (index + 2) + 1) <= Len(c)
      /\ Known(Collected(c)[NameFrom(c, (index + 2) + 1)])
  BY DEF PrefixParses, BlockParses, HeadNamesBlock
<1> HIDE DEF c
<1>2. NameFrom(c, (index + 2) + 1) = NameStart + 1
  <2>1. CASE Legacy
    BY <2>1 DEF NameStart, NameFrom
  <2>2. CASE ~Legacy
    <3>1. Is(c, (index + 2) + 1, " ") <=> Is(tokens, index + 2, " ")
      <4>1. (index + 2) + 1 <= Len(c) <=> index + 2 <= Len(tokens)
        BY <1>0
      <4>2. index + 2 <= Len(tokens) => c[(index + 2) + 1].token = tokens[index + 2].token
        BY <1>0
      <4> QED
        BY <4>1, <4>2 DEF Is
    <3>2. CASE Is(tokens, index + 2, " ")
      <4>1. NameStart = (index + 2) + 1 /\ NameFrom(c, (index + 2) + 1) = ((index + 2) + 1) + 1
        BY <2>2, <3>1, <3>2 DEF NameStart, NameFrom, PastSpace
      <4> QED
        BY <4>1
    <3>3. CASE ~Is(tokens, index + 2, " ")
      <4>1. NameStart = index + 2 /\ NameFrom(c, (index + 2) + 1) = (index + 2) + 1
        BY <2>2, <3>1, <3>3 DEF NameStart, NameFrom, PastSpace
      <4> QED
        BY <4>1
    <3> QED
      BY <3>2, <3>3
  <2> QED
    BY <2>1, <2>2
<1>3. NameStart <= Len(tokens)
  BY <1>0, <1>1, <1>2, NameStartIs
<1>4. Known(Collected(AsPrefix)[NameStart + 1])
  BY <1>1, <1>2 DEF c
<1> QED
  BY <1>3, <1>4, PrefixNamed

\* A segment that the other reading starts with has its name where the gate looks.
LEMMA SegmentGated ==
    ASSUME TypeOK, Pair, ~Legacy, Segments(AsSegment, index + 1) # {}
    PROVE  /\ NameStart <= Len(tokens) /\ MayNameAfresh(NameStart)
           /\ HeadEnds(tokens, index + 2) # {}
<1> DEFINE c == AsSegment
           i == NameStart
<1>0. /\ Len(tokens) \in Nat /\ index \in Nat \ {0} /\ c \in Seq(Token)
      /\ Len(c) = Len(tokens) /\ index + 1 \in 1..Len(tokens)
      /\ \A k \in (index + 2)..Len(tokens) : c[k].token = tokens[k].token
  BY SegmentReadingIs, LenProperties DEF TypeOK
<1>1. NamesIftags(c, index + 1)
  BY <1>0, SegmentIs
<1> HIDE DEF c
<1>2. NameAt(c, index + 1) = i
  <2>1. (index + 1) + 1 = index + 2
    BY <1>0
  <2>2. Is(c, index + 2, " ") <=> Is(tokens, index + 2, " ")
    <3>1. index + 2 <= Len(tokens) => c[index + 2].token = tokens[index + 2].token
      BY <1>0
    <3> QED
      BY <1>0, <3>1 DEF Is
  <2> QED
    BY <2>1, <2>2 DEF NameAt, NameStart, NameFrom, PastSpace
<1>3. i \in (index + 2)..(index + 3)
  BY <1>0, NameStartIs
<1> HIDE DEF i
<1>4. /\ i + 1 <= Len(tokens) /\ tokens[i].token = "iftags" /\ tokens[i + 1].token \in Ends
  <2>1. i <= Len(c) /\ c[i].token = "iftags" /\ i < Len(c) /\ c[i + 1].token \in Ends
    BY <1>1, <1>2 DEF NamesIftags, Is
  <2>2. i \in (index + 2)..Len(tokens) /\ i + 1 \in (index + 2)..Len(tokens)
    BY <1>0, <1>3, <2>1
  <2> QED
    BY <1>0, <2>1, <2>2
<1>5. Stops(tokens)[i] = i + 1
  <2>1. /\ i \in 1..(Len(tokens) + 1) /\ i + 1 \in 1..(Len(tokens) + 1)
        /\ ~(i > Len(tokens)) /\ ~(i + 1 > Len(tokens))
    BY <1>0, <1>3, <1>4
  <2>2. tokens[i].token \notin Ends /\ tokens[i].token # "[!--"
    BY <1>4 DEF Ends
  <2>3. Stops(tokens)[i] = Stops(tokens)[i + 1]
    BY <1>0, <2>1, <2>2, StopsIs
  <2>4. Stops(tokens)[i + 1] = i + 1
    BY <1>0, <1>4, <2>1, StopsIs
  <2> QED
    BY <2>3, <2>4
<1>6. Tells(Stretch(i, i + 1), i)
  <2>1. i \in Nat /\ \A k \in i..((i + 1) - 1) : k = i
    BY <1>0, <1>3
  <2>2. ~ \E k \in i..((i + 1) - 1) : Is(tokens, k, "[!--")
    BY <1>4, <2>1 DEF Is
  <2>3. Stretch(i, i + 1).kind = "plain" /\ Stretch(i, i + 1).stop = i + 1
    BY <2>2 DEF Stretch
  <2>4. Word(i, i + 1) = [k \in 1..1 |-> "iftags"]
    <3>1. (i + 1) - i = 1 /\ \A k \in 1..1 : k = 1 /\ i + k - 1 = i
      BY <2>1
    <3> QED
      BY <1>4, <3>1 DEF Word
  <2>5. Known(Word(i, i + 1))
    <3>1. DOMAIN Word(i, i + 1) = {1} /\ Word(i, i + 1)[1] = "iftags"
      BY <2>4
    <3> QED
      BY <3>1 DEF Known
  <2> QED
    BY <2>3, <2>5 DEF Tells
<1>7. MayNameAfresh(i)
  <2>1. i + 1 # 0
    BY <1>0, <1>3
  <2> QED
    BY <1>5, <1>6, <2>1 DEF MayNameAfresh
<1>8. i + 1 \in HeadEnds(tokens, index + 2)
  BY <1>0, <1>3, <1>4 DEF HeadEnds, CanEndHead
<1> QED
  BY <1>3, <1>4, <1>7, <1>8, <1>0 DEF i

\* A block that is an opener is not one whose name is known.
LEMMA SegmentNamed ==
    ASSUME TypeOK, Pair, SegmentParses
    PROVE  Segments(AsSegment, index + 1) # {}
<1> DEFINE c == AsSegment
           i == index + 1
<1>0. /\ index \in Nat \ {0} /\ c \in Seq(Token) /\ i \in 1..Len(c) /\ c[i].token = "[["
      /\ Len(c) \in Nat
  BY SegmentReadingIs, LenProperties DEF TypeOK
<1>1. Known(Collected(c)[NameFrom(c, i)])
  BY DEF SegmentParses, BlockParses, HeadNamesBlock
<1> HIDE DEF c, i
<1>2. NameFrom(c, i) = i
  BY <1>0 DEF NameFrom, PastSpace, Is
<1> SUFFICES ASSUME Segments(c, i) = {} PROVE FALSE
  BY DEF c, i
<1>3. Collected(c)[i] = <<"[[">> \o Collected(c)[i + 1]
  <2>1. i \in 1..(Len(c) + 1) /\ ~(i > Len(c)) /\ c[i].token \notin Ends
    BY <1>0 DEF Ends
  <2> QED
    BY <1>0, <2>1, CollectedIs
<1> DEFINE v == Collected(c)[i + 1]
<1>4. v \in Seq(Letter) /\ <<"[[">> \in Seq(Letter)
  <2>1. i + 1 \in 1..(Len(c) + 1)
    BY <1>0
  <2> QED
    <3>1. v \in Seq(Letter)
      BY <1>0, <2>1, CollectedWords
    <3>2. "[[" \in Letter
      BY DEF Letter, Kind
    <3> QED
      BY <3>1, <3>2
<1> HIDE DEF v
<1>5. /\ DOMAIN (<<"[[">> \o v) = 1..(1 + Len(v)) /\ Len(v) \in Nat
      /\ (<<"[[">> \o v)[1] = "[["
  <2>1. /\ <<"[[">> \o v \in Seq(Letter) /\ Len(<<"[[">> \o v) = Len(<<"[[">>) + Len(v)
        /\ \A k \in 1..(Len(<<"[[">>) + Len(v)) : (<<"[[">> \o v)[k] =
                IF k <= Len(<<"[[">>) THEN <<"[[">>[k] ELSE v[k - Len(<<"[[">>)]
    BY <1>4, ConcatProperties
  <2>2. Len(<<"[[">>) = 1 /\ Len(v) \in Nat
    BY <1>4, LenProperties
  <2>3. DOMAIN (<<"[[">> \o v) = 1..Len(<<"[[">> \o v)
    BY <2>1, LenProperties
  <2>4. 1 \in 1..(1 + Len(v))
    BY <2>2
  <2> QED
    BY <2>1, <2>2, <2>3, <2>4
<1>6. Known(<<"[[">> \o v)
  BY <1>1, <1>2, <1>3 DEF v
<1>7. 1 \in 1..(1 + Len(v))
  BY <1>5
<1> QED
  BY <1>5, <1>6, <1>7 DEF Known

\* A comment head whose name is known has something behind it that ends a head.
LEMMA CommentGated ==
    ASSUME TypeOK, CommentHead, CommentParses
    PROVE  HeadEnds(tokens, index + 3) # {}
<1> DEFINE c == AsComment
           i == index + 1
<1>0. /\ Len(tokens) \in Nat /\ index \in Nat \ {0} /\ c \in Seq(Token)
      /\ Len(c) = Len(tokens) - 1 /\ Len(c) \in Nat
      /\ i \in 1..Len(c) /\ c[i].token = "[!--"
      /\ \A k \in (index + 2)..Len(c) : c[k].token = tokens[k + 1].token
  BY CommentReadingIs, LenProperties DEF TypeOK
<1>1. Known(Collected(c)[NameFrom(c, i)])
  BY DEF CommentParses, HeadNamesBlock
<1> HIDE DEF c
<1>2. NameFrom(c, i) = i
  BY <1>0 DEF NameFrom, PastSpace, Is
<1>3. i \in 1..(Len(c) + 1)
  BY <1>0
<1>4. Collected(c)[i] \in Seq(Letter)
  BY <1>0, <1>3, CollectedWords
<1>5. Whole(Collected(c)[i])
  BY <1>1, <1>2, <1>4, KnownIsWhole
<1>6. Stops(c)[i] # 0
  BY <1>0, <1>3, <1>5, WholeDrawn DEF Drawn
<1> DEFINE e == Stops(c)[i]
<1>7. e \in i..Len(c) /\ c[e].token \in Ends
  BY <1>0, <1>3, <1>6, StopsEnd
<1> HIDE DEF e
<1>8. e # i
  BY <1>0, <1>7 DEF Ends
<1>9. e \in (index + 2)..Len(c) /\ e + 1 \in (index + 3)..Len(tokens)
  BY <1>0, <1>7, <1>8
<1>10. tokens[e + 1].token \in Ends
  BY <1>0, <1>7, <1>9
<1>11. e + 1 \in HeadEnds(tokens, index + 3)
  BY <1>9, <1>10 DEF HeadEnds, CanEndHead
<1> QED
  BY <1>11

\* The readings that are taken in both layouts if they parse.
PrefixReadingTaken ==
    /\ Pair /\ PrefixParses => Tried
    /\ CommentHead /\ CommentParses => HeadMayEnd(index + 3)

LEMMA GatedIsTried ==
    ASSUME TypeOK, GateFits, StretchFits, Pair,
           NameStart <= Len(tokens), MayNameAfresh(NameStart),
           HeadEnds(tokens, index + 2) # {}
    PROVE  Tried
<1>1. index \in Nat \ {0}
  BY DEF TypeOK
<1>2. HeadMayEnd(index + 2)
  BY <1>1, AnswersExactly DEF Exact
<1>3. MayName(NameStart)
  BY MemoryAdds DEF MemoryRefusesNoMore
<1> QED
  BY <1>2, <1>3 DEF Tried

LEMMA PrefixLetPass ==
    ASSUME TypeOK, GateFits, StretchFits
    PROVE  PrefixReadingTaken
<1>1. index \in Nat \ {0}
  BY DEF TypeOK
<1>2. ASSUME Pair, PrefixParses PROVE Tried
  BY <1>2, PrefixGated, GatedIsTried
<1>3. ASSUME CommentHead, CommentParses PROVE HeadMayEnd(index + 3)
  BY <1>1, <1>3, CommentGated, AnswersExactly DEF Exact
<1> QED
  BY <1>2, <1>3 DEF PrefixReadingTaken

LEMMA GatesLetPass ==
    ASSUME ~Legacy, TypeOK, GateFits, StretchFits
    PROVE  ParsingReadingTaken
<1>1. ASSUME Pair, SegmentParses \/ SegmentHolds PROVE Tried
  <2>1. SegmentHolds => Segments(AsSegment, index + 1) # {}
    BY DEF SegmentHolds, SegmentPrefix
  <2>2. Segments(AsSegment, index + 1) # {}
    BY <1>1, <2>1, SegmentNamed
  <2> QED
    BY <1>1, <2>2, SegmentGated, GatedIsTried
<1> QED
  BY <1>1, PrefixLetPass DEF ParsingReadingTaken, PrefixReadingTaken

-----------------------------------------------------------------------------
(* Theorems *)

\* The tokens and what the head gate remembers of them are well formed, whatever
\* repair_bracket_run_tokenization splits again.
THEOREM TypeCorrect == Spec => []TypeOK
<1>1. IInv => TypeOK
  BY DEF IInv
<1> QED
  BY <1>1, InitIInv, NextIInv, PTL DEF Spec

\* No repair loses, repeats or moves a character: if the tokens of the tokenizer tile
\* the text, the repaired ones do (the spliced spans of mod.rs:445, 498 and 516).
THEOREM RepairTiles == Spec => []TokensTile
<1>1. IInv => TokensTile
  BY DEF IInv
<1> QED
  BY <1>1, InitIInv, NextIInv, PTL DEF Spec

\* The head gate never answers other than a scan of all the tokens would: the
\* positions it is asked at never decrease between commits (mod.rs:572).
THEOREM GateExact == Spec => []HeadGateExact
<1>1. IInv => HeadGateExact
  <2> SUFFICES ASSUME IInv PROVE HeadGateExact
    OBVIOUS
  <2>1. index \in Nat \ {0} /\ TypeOK /\ GateFits
    BY DEF IInv, TypeOK
  <2>2. Exact(index + 2)
    BY <2>1, AnswersExactly
  <2>3. Exact(index + 3)
    BY <2>1, AnswersExactly
  <2> QED
    BY <2>2, <2>3 DEF HeadGateExact
<1> QED
  BY <1>1, InitIInv, NextIInv, PTL DEF Spec

\* What the name gate remembers only makes it let more pass: a name it would take
\* if it looked at the tokens afresh is never refused for a stretch that it keeps
\* from an earlier pair (BracketRunNameGate, mod.rs:815-828).
THEOREM NothingForgotten == Spec => []MemoryRefusesNoMore
<1>1. IInv => TypeOK
  BY DEF IInv
<1>2. TypeOK /\ StretchFits => MemoryRefusesNoMore
  BY MemoryAdds
<1> QED
  BY <1>1, <1>2, InitIInv, NextIInv, InitStretch, NextStretch, PTL DEF Spec

\* The two gates spare attempts and cost no reading: in the native layout a pair is
\* tried whenever the segment or the prefix reading of it parses, and a comment
\* head is read whenever a block with its name may be (mod.rs:396-401).
THEOREM GatesOnlySpare == ~Legacy => (Spec => []ParsingReadingTaken)
<1>1. IInv => TypeOK /\ GateFits
  BY DEF IInv
<1>2. ~Legacy /\ TypeOK /\ GateFits /\ StretchFits => ParsingReadingTaken
  BY GatesLetPass
<1> SUFFICES ASSUME ~Legacy PROVE Spec => []ParsingReadingTaken
  OBVIOUS
<1> QED
  BY <1>1, <1>2, InitIInv, NextIInv, InitStretch, NextStretch, PTL DEF Spec

\* In a legacy layout that still holds of the prefix reading and of comment heads;
\* a segment whose name stands behind white space is what the name gate refuses.
THEOREM PrefixesNeverSpared == Spec => []PrefixReadingTaken
<1>1. IInv => TypeOK /\ GateFits
  BY DEF IInv
<1>2. TypeOK /\ GateFits /\ StretchFits => PrefixReadingTaken
  BY PrefixLetPass
<1> QED
  BY <1>1, <1>2, InitIInv, NextIInv, InitStretch, NextStretch, PTL DEF Spec

=============================================================================
