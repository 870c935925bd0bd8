--------------------------- MODULE IncludesProofs ---------------------------
(***************************************************************************)
(* For every text: the ranges include() edits never overlap; as long as a  *)
(* range is still to be edited the text up to its end is the input's; no   *)
(* include is lost by the scan and a quoted one goes with its own lines    *)
(* only; and what is returned is the text with each include in its place.  *)
(***************************************************************************)
EXTENDS Includes, SequenceTheorems, FiniteSetTheorems, WellFoundedInduction, TLAPS

Parsing   == {"plain", "lines", "region"}
Searching == {"matched"} \cup Parsing
Unedited  == {"scanning"} \cup Searching

TextOK ==
    /\ text \in Seq(Token) /\ output \in Seq(Token)
    /\ cursor \in 0..Len(text)
    /\ match \in [start : Nat, marker : Nat]
    /\ status \in Unedited => output = text

\* An opener found lies ahead of the cursor, and while its block is parsed what it
\* is parsed from lies after it.
SearchOK ==
    /\ status \in Searching => cursor <= Start /\ Start <= Marker /\ Marker < Len(text)
    /\ status \in Parsing => /\ Terminators(text, Marker + 1) # {}
                             /\ blockText.kept \subseteq (Start + 1)..Len(text)
    /\ status = "plain" => blockText.tokens \in Seq(Token) /\ Len(blockText.tokens) > 0

\* The ranges found lie behind the cursor.
FoundOK ==
    /\ includes \in Seq(Block) /\ consumed \in Seq(Quote)
    /\ \A i \in DOMAIN includes :
         includes[i].start < includes[i].end /\ includes[i].end <= cursor
    /\ \A i \in DOMAIN consumed :
         consumed[i].start < consumed[i].end /\ consumed[i].end <= cursor
    /\ \A i, j \in DOMAIN includes : i # j => Apart(includes[i], includes[j])
    /\ \A i, j \in DOMAIN consumed : i # j => Apart(consumed[i], consumed[j])
    /\ \A i \in DOMAIN includes : \A j \in DOMAIN consumed :
         Apart(includes[i], consumed[j])

\* The edits left are in order, and the text they concern is the input's.
EditsOK ==
    status = "substituting" =>
        /\ left \in Nat
        /\ \A i \in 1..left : /\ edits[i].start \in Nat /\ edits[i].end \in Nat
                              /\ edits[i].start < edits[i].end
                              /\ edits[i].end <= Len(text)
        /\ \A i, j \in 1..left : i < j => edits[i].end <= edits[j].start
        /\ left > 0 => /\ edits[left].end <= Len(output)
                       /\ \A k \in 1..edits[left].end : output[k] = text[k]

IInv == TextOK /\ SearchOK /\ FoundOK /\ EditsOK

\* The opener found is the next one, and what is parsed is what the code takes of it.
ScanOK ==
    /\ status \in Searching => /\ Matches # {} /\ Start = Least(Matches)
                               /\ Marker = Least(Markers(Start))
    /\ status = "plain" => /\ Marker = Start /\ blockText.kept = (Start + 1)..Len(text)
                           /\ blockText.tokens = SubSeq(text, Start + 1, Len(text))
    /\ status \in {"lines", "region"} =>
         /\ Marker # Start /\ blockText.tokens = Normalized(blockText.kept)
         /\ \E bound \in {Candidate, Len(text)} :
              blockText.kept = Kept(Start, Marker - Start, bound)

\* Behind the cursor no include is lost.
LostOK ==
    \A at \in 0..(cursor - 1) : (at \in Markers(at) /\ ParsesAt(at)) => Accounted(at)

ScanExact == ScanOK /\ QuotedLinesOnly /\ LostOK

\* The includes found are in the order of the text.
InOrder ==
    \A i, j \in DOMAIN includes : i < j => includes[i].end <= includes[j].start

SameRange(r, q) == r.start = q.start /\ r.end = q.end

\* The edits are the ranges found, each once, from the first to the last.
EditsAll ==
    status = "substituting" =>
        /\ pageSyntax
        /\ edits \in Seq(Replacement)
        /\ Len(edits) = Len(includes) + Len(consumed)
        /\ left \in 0..Len(edits)
        /\ \A n \in 1..Len(edits) :
             edits[n].start < edits[n].end /\ edits[n].end <= Len(text)
        /\ \A n, m \in 1..Len(edits) : n < m => edits[n].end <= edits[m].start
        /\ \A n \in 1..Len(edits) :
             IF edits[n].answer = "quoted"
               THEN \E i \in DOMAIN consumed : SameRange(edits[n], consumed[i])
               ELSE \E i \in DOMAIN includes : /\ SameRange(edits[n], includes[i])
                                               /\ edits[n].page = includes[i].page
        /\ \A i \in DOMAIN includes : \E n \in 1..Len(edits) :
             edits[n].answer # "quoted" /\ SameRange(edits[n], includes[i])
        /\ \A i \in DOMAIN consumed : \E n \in 1..Len(edits) :
             SameRange(edits[n], consumed[i])

\* What a text becomes, if it is replaced from an offset on.
Replacing(p) == SubSeq(text, 1, p) \o From(Parts)[p + 1]

\* Up to where the text is as it was.
Upto == IF left = Len(edits) THEN Len(text) ELSE edits[left + 1].start

\* From the last edit made on the text is what it becomes, and the pages so far are those
\* of the last includes, the last one first.
OutputOK ==
    status = "substituting" =>
        /\ output = Replacing(Upto)
        /\ \A n \in (left + 1)..Len(edits) : edits[n].answer # "other"

PagesOK ==
    status \in Unedited => pages = << >>

PagesBack ==
    status = "substituting" =>
        /\ pages \in Seq(Seq(Token))
        /\ Len(pages) <= Len(includes)
        /\ \A j \in 1..Len(pages) : pages[j] = includes[Len(includes) + 1 - j].page
        /\ \A i \in DOMAIN includes :
             i <= Len(includes) - Len(pages)
               <=> \E n \in 1..left : edits[n].start = includes[i].start

EditsExact ==
    InOrder /\ EditsAll /\ OutputOK /\ PagesOK /\ PagesBack /\ OutputMatches

-----------------------------------------------------------------------------
(* Helpers *)

LEMMA LeastIs ==
    ASSUME NEW S \in SUBSET Nat, S # {}
    PROVE  Least(S) \in S /\ \A j \in S : Least(S) <= j
<1>1. PICK x \in S : \A y \in S : ~ (<<y, x>> \in OpToRel(<, Nat))
  BY WFMin, NatLessThanWellFounded
<1>2. \A y \in S : x <= y
  <2> SUFFICES ASSUME NEW y \in S PROVE x <= y
    OBVIOUS
  <2>1. <<y, x>> \in Nat \X Nat /\ ~ (<<y, x>> \in OpToRel(<, Nat))
    BY <1>1
  <2>2. ~ (y < x)
    BY <2>1 DEF OpToRel
  <2> QED
    BY <2>2
<1> QED
  BY <1>1, <1>2 DEF Least

LEMMA PastIs ==
    ASSUME NEW s \in Seq(Token), NEW t, NEW i \in 1..(Len(s) + 1)
    PROVE  Past(t, s, i) \in i..(Len(s) + 1)
<1> DEFINE S == {j \in i..(Len(s) + 1) : j = Len(s) + 1 \/ s[j] # t}
<1>1. Len(s) \in Nat
  BY LenProperties
<1>2. S \in SUBSET Nat /\ Len(s) + 1 \in S
  BY <1>1
<1>3. Least(S) \in S
  BY <1>2, LeastIs
<1> QED
  BY <1>3 DEF Past

\* A target is a text.
LEMMA TargetIs ==
    ASSUME NEW s \in Seq(Token), Len(s) > 0
    PROVE  Target(s) \in Seq(Token)
<1> DEFINE from == TargetFrom(s)
           i    == Past("gt", s, from)
<1>1. Len(s) \in Nat
  BY LenProperties
<1>2. from \in 2..(Len(s) + 1)
  BY <1>1, PastIs DEF TargetFrom
<1>3. i \in from..(Len(s) + 1)
  BY <1>1, <1>2, PastIs
<1>4. TargetTo(s) \in Int /\ TargetTo(s) <= Len(s)
  BY <1>1, <1>2, <1>3 DEF TargetTo, Holds
<1>5. \A j \in from..TargetTo(s) : s[j] \in Token
  BY <1>1, <1>2, <1>4, ElementOfSeq
<1> QED
  BY <1>2, <1>4, <1>5, SubSeqProperties DEF Target

\* Replacing a range keeps what is before it.
LEMMA ReplacedIs ==
    ASSUME output \in Seq(Token), NEW with \in Seq(Token), NEW edit,
           edit.start \in Nat, edit.end \in Nat, edit.start < edit.end,
           edit.end <= Len(output)
    PROVE  /\ Replaced(edit, with) \in Seq(Token)
           /\ Len(Replaced(edit, with)) \in Nat
           /\ edit.start <= Len(Replaced(edit, with))
           /\ \A k \in 1..edit.start : Replaced(edit, with)[k] = output[k]
<1> DEFINE a == edit.start
           b == edit.end
           n == Len(output)
           x == SubSeq(output, 1, a)
           y == SubSeq(output, b + 1, n)
<1>1. n \in Nat /\ \A k \in 1..n : output[k] \in Token
  BY LenProperties, ElementOfSeq
<1>2. x \in Seq(Token) /\ Len(x) = a /\ \A k \in 1..a : x[k] = output[k]
  BY <1>1, SubSeqProperties
<1>3. y \in Seq(Token)
  BY <1>1, SubSeqProperties
<1>4. Replaced(edit, with) = (x \o with) \o y
  BY DEF Replaced
<1> HIDE DEF x, y
<1> DEFINE u == x \o with
           v == u \o y
<1>5. Len(with) \in Nat /\ Len(y) \in Nat /\ a \in Nat
  BY <1>3, LenProperties
<1>6. u \in Seq(Token) /\ Len(u) = a + Len(with) /\ \A k \in 1..a : u[k] = x[k]
  <2>1. /\ u \in Seq(Token) /\ Len(u) = Len(x) + Len(with)
        /\ \A k \in 1..(Len(x) + Len(with)) :
              u[k] = IF k <= Len(x) THEN x[k] ELSE with[k - Len(x)]
    BY <1>2, ConcatProperties
  <2> HIDE DEF u
  <2>2. \A k \in 1..a : k \in 1..(a + Len(with)) /\ k <= a
    BY <1>5
  <2> QED
    BY <1>2, <2>1, <2>2
<1> HIDE DEF u
<1>7. v \in Seq(Token) /\ Len(v) = Len(u) + Len(y) /\ \A k \in 1..a : v[k] = u[k]
  <2>1. /\ v \in Seq(Token) /\ Len(v) = Len(u) + Len(y)
        /\ \A k \in 1..(Len(u) + Len(y)) :
              v[k] = IF k <= Len(u) THEN u[k] ELSE y[k - Len(u)]
    <3>1. u \in Seq(Token) /\ y \in Seq(Token)
      BY <1>3, <1>6
    <3> QED
      BY ONLY <3>1, ConcatProperties
  <2> HIDE DEF v
  <2>2. \A k \in 1..a : k \in 1..(Len(u) + Len(y)) /\ k <= Len(u)
    BY <1>5, <1>6
  <2> QED
    BY <2>1, <2>2
<1>8. Replaced(edit, with) = v
  BY <1>4 DEF u, v
<1> HIDE DEF v
<1>9. Len(v) \in Nat /\ a <= Len(v)
  BY <1>5, <1>6, <1>7
<1>10. \A k \in 1..a : v[k] = output[k]
  BY <1>2, <1>6, <1>7
<1> QED
  BY <1>7, <1>8, <1>9, <1>10

-----------------------------------------------------------------------------
(* The search *)

LEMMA InitIInv == IncludesInit => IInv
<1> SUFFICES ASSUME IncludesInit PROVE IInv
  OBVIOUS
<1>1. text \in Seq(Token) /\ Len(text) \in Nat
  BY IncludesAssumption, LenProperties DEF IncludesInit, Unscanned
<1>2. TextOK
  BY <1>1 DEF IncludesInit, Unscanned, TextOK
<1>3. SearchOK
  BY DEF IncludesInit, Unscanned, SearchOK, Searching, Parsing
<1>4. FoundOK
  <2>1. includes = << >> /\ consumed = << >>
    BY DEF IncludesInit, Unscanned
  <2>2. DOMAIN includes = {} /\ DOMAIN consumed = {}
    BY <2>1
  <2> QED
    BY <2>1, <2>2 DEF FoundOK
<1>5. EditsOK
  BY DEF IncludesInit, Unscanned, EditsOK
<1> QED
  BY <1>2, <1>3, <1>4, <1>5 DEF IInv

\* The ranges found are pairs of offsets.
LEMMA Typed ==
    ASSUME FoundOK
    PROVE  /\ DOMAIN includes = 1..Len(includes) /\ Len(includes) \in Nat
           /\ DOMAIN consumed = 1..Len(consumed) /\ Len(consumed) \in Nat
           /\ \A i \in DOMAIN includes :
                includes[i].start \in Nat /\ includes[i].end \in Nat
           /\ \A i \in DOMAIN consumed :
                consumed[i].start \in Nat /\ consumed[i].end \in Nat
<1>1. includes \in Seq(Block) /\ consumed \in Seq(Quote)
  BY DEF FoundOK
<1>2. /\ DOMAIN includes = 1..Len(includes) /\ Len(includes) \in Nat
      /\ DOMAIN consumed = 1..Len(consumed) /\ Len(consumed) \in Nat
  BY <1>1, LenProperties
<1>3. \A i \in DOMAIN includes : includes[i] \in Block
  BY <1>1, <1>2, ElementOfSeq
<1>4. \A i \in DOMAIN consumed : consumed[i] \in Quote
  BY <1>1, <1>2, ElementOfSeq
<1> QED
  BY <1>2, <1>3, <1>4 DEF Block, Quote

\* Steps that leave the ranges and the cursor alone and do not start to edit.
LEMMA SameRanges ==
    ASSUME IInv, UNCHANGED <<text, cursor, includes, consumed>>
    PROVE  FoundOK'
BY DEF IInv, FoundOK, Apart

\* A terminator after an opener lies ahead of it.
LEMMA CandidateIs ==
    ASSUME IInv, status \in Searching, Terminators(text, Marker + 1) # {}
    PROVE  Candidate \in Nat /\ Candidate > Start + 1 /\ Candidate <= Len(text)
<1>1. Len(text) \in Nat /\ Start \in Nat /\ Marker \in Nat
  BY LenProperties DEF IInv, TextOK, Start, Marker
<1>2. Start <= Marker
  BY DEF IInv, SearchOK
<1>3. Terminators(text, Marker + 1) \in SUBSET Nat
  BY <1>1 DEF Terminators
<1>4. Candidate \in Terminators(text, Marker + 1)
  BY <1>3, LeastIs DEF Candidate
<1> QED
  BY <1>1, <1>2, <1>4 DEF Terminators

\* A cursor that moves on leaves every range behind it.
LEMMA CursorAhead ==
    ASSUME IInv, UNCHANGED <<text, includes, consumed>>,
           cursor' \in 0..Len(text), cursor <= cursor'
    PROVE  FoundOK'
<1>1. cursor \in Nat /\ cursor' \in Nat
  BY LenProperties DEF IInv, TextOK
<1>2. \A i \in DOMAIN includes : includes[i].end <= cursor'
  BY <1>1, Typed DEF IInv, FoundOK
<1>3. \A i \in DOMAIN consumed : consumed[i].end <= cursor'
  BY <1>1, Typed DEF IInv, FoundOK
<1> QED
  BY <1>2, <1>3 DEF IInv, FoundOK, Apart

LEMMA FindOpenerStep == IInv /\ FindOpener => IInv'
<1> SUFFICES ASSUME IInv, FindOpener PROVE IInv'
  OBVIOUS
<1> DEFINE at == Least(Matches)
           m  == Least(Markers(at))
<1>1. Len(text) \in Nat /\ cursor \in 0..Len(text)
  BY LenProperties DEF IInv, TextOK
<1>2. Matches \in SUBSET Nat /\ Matches # {}
  BY <1>1 DEF FindOpener, Matches
<1>3. at \in Matches
  BY <1>2, LeastIs
<1>4. match' = [start |-> at, marker |-> m]
  BY DEF FindOpener
<1> HIDE DEF at
<1>5. at \in Nat /\ cursor <= at /\ Markers(at) # {}
  BY <1>1, <1>3 DEF Matches
<1>6. Markers(at) \in SUBSET (at..(Len(text) - 1))
  BY DEF Markers
<1>7. m \in at..(Len(text) - 1)
  <2>1. Markers(at) \in SUBSET Nat
    BY <1>1, <1>5, <1>6
  <2> QED
    BY <2>1, <1>5, <1>6, LeastIs
<1> HIDE DEF m
<1>8. TextOK'
  BY <1>1, <1>4, <1>5, <1>7
  DEF IInv, TextOK, FindOpener, Scanning, input, results, Unedited, Searching
<1>9. SearchOK'
  BY <1>1, <1>4, <1>5, <1>7
  DEF SearchOK, FindOpener, input, Searching, Parsing, Start, Marker
<1>10. FoundOK'
  BY SameRanges DEF FindOpener, input, found
<1>11. EditsOK'
  BY DEF FindOpener, EditsOK
<1> QED
  BY <1>8, <1>9, <1>10, <1>11 DEF IInv

LEMMA SkipRestStep == IInv /\ SkipRest => IInv'
<1> SUFFICES ASSUME IInv, SkipRest PROVE IInv'
  OBVIOUS
<1>1. Len(text) \in Nat /\ cursor \in 0..Len(text)
  BY LenProperties DEF IInv, TextOK
<1>2. TextOK'
  BY <1>1 DEF IInv, TextOK, SkipRest, input, results, Unedited, Searching
<1>3. SearchOK'
  BY DEF SearchOK, SkipRest, Searching, Parsing
<1>4. FoundOK'
  BY <1>1, CursorAhead DEF SkipRest, input, found
<1>5. EditsOK'
  BY DEF SkipRest, EditsOK
<1> QED
  BY <1>2, <1>3, <1>4, <1>5 DEF IInv

\* What is taken to be parsed lies after the opener.
LEMMA TakeStep ==
    ASSUME IInv, status \in Searching, Terminators(text, Marker + 1) # {},
           NEW kept, NEW tokens, NEW then \in Parsing, Take(kept, tokens, then),
           kept \subseteq (Start + 1)..Len(text),
           then = "plain" => tokens \in Seq(Token) /\ Len(tokens) > 0
    PROVE  IInv'
<1>1. blockText' = [kept |-> kept, tokens |-> tokens] /\ status' = then
  BY DEF Take
<1>2. UNCHANGED <<text, output, cursor, match, includes, consumed>>
  BY DEF Take, input, found, results
<1>3. TextOK'
  BY <1>1, <1>2 DEF IInv, TextOK, Unedited, Searching
<1>4. SearchOK'
  <2>1. Start' = Start /\ Marker' = Marker
    BY <1>2 DEF Start, Marker
  <2>2. blockText'.kept = kept /\ blockText'.tokens = tokens
    BY <1>1
  <2>3. cursor <= Start /\ Start <= Marker /\ Marker < Len(text)
    BY DEF IInv, SearchOK
  <2>4. Terminators(text', Marker' + 1) # {}
    BY <1>2, <2>1
  <2> QED
    BY <1>1, <1>2, <2>1, <2>2, <2>3, <2>4 DEF SearchOK
<1>5. FoundOK'
  BY <1>2, SameRanges
<1>6. EditsOK'
  BY <1>1 DEF EditsOK, Parsing
<1> QED
  BY <1>3, <1>4, <1>5, <1>6 DEF IInv

LEMMA TakePlainStep == IInv /\ TakePlain => IInv'
<1> SUFFICES ASSUME IInv, TakePlain PROVE IInv'
  OBVIOUS
<1> DEFINE tokens == SubSeq(text, Start + 1, Len(text))
<1>1. text \in Seq(Token) /\ Len(text) \in Nat /\ Start \in Nat /\ Marker \in Nat
  BY LenProperties DEF IInv, TextOK, Start, Marker
<1>2. status \in Searching /\ Terminators(text, Marker + 1) # {}
  BY DEF TakePlain, Bounded, Searching
<1>3. Start < Len(text)
  BY <1>1, <1>2 DEF IInv, SearchOK
<1>4. tokens \in Seq(Token) /\ Len(tokens) > 0
  <2>1. \A i \in (Start + 1)..Len(text) : text[i] \in Token
    BY <1>1, ElementOfSeq
  <2> QED
    BY <2>1, <1>1, <1>3, SubSeqProperties
<1> HIDE DEF tokens
<1> QED
  BY <1>2, <1>4, TakeStep DEF TakePlain, Parsing, tokens

LEMMA TakeQuotedStep ==
    ASSUME IInv, status \in Searching, Terminators(text, Marker + 1) # {},
           NEW bound, NEW then \in Parsing \ {"plain"}, TakeQuoted(bound, then)
    PROVE  IInv'
<1>1. Len(text) \in Nat /\ Start \in Nat /\ Marker \in Nat
  BY LenProperties DEF IInv, TextOK, Start, Marker
<1> DEFINE depth == Marker - Start
           K == Kept(Start, depth, bound)
           E == {e \in (Start + 1)..Len(text) :
                   \/ e = Len(text)
                   \/ LineStart(e) /\ (e >= bound \/ ~Prefixed(e, depth))}
<1>2. Start < Len(text)
  BY <1>1 DEF IInv, SearchOK
<1>3. E \in SUBSET Nat /\ Len(text) \in E
  BY <1>1, <1>2
<1>4. Least(E) \in E
  BY <1>3, LeastIs
<1>5. RegionEnd(Start, depth, bound) \in (Start + 1)..Len(text)
  BY <1>4 DEF RegionEnd
<1>6. K \subseteq (Start + 1)..Len(text)
  BY <1>1, <1>5 DEF Kept
<1>7. Take(K, Normalized(K), then)
  BY DEF TakeQuoted
<1> HIDE DEF K
<1> QED
  BY <1>6, <1>7, TakeStep

LEMMA TakeLinesStep == IInv /\ TakeLines => IInv'
<1> SUFFICES ASSUME IInv, TakeLines PROVE IInv'
  OBVIOUS
<1>1. status \in Searching /\ Terminators(text, Marker + 1) # {}
  BY DEF TakeLines, Bounded, Searching
<1>2. TakeQuoted(Candidate, "lines") /\ "lines" \in Parsing \ {"plain"}
  BY DEF TakeLines, Parsing
<1> QED
  BY <1>1, <1>2, TakeQuotedStep

LEMMA TakeRegionStep == IInv /\ TakeRegion => IInv'
<1> SUFFICES ASSUME IInv, TakeRegion PROVE IInv'
  OBVIOUS
<1>1. status \in Parsing /\ status \in Searching
  BY DEF TakeRegion, Parsing, Searching
<1>2. Terminators(text, Marker + 1) # {}
  BY <1>1 DEF IInv, SearchOK
<1>3. TakeQuoted(Len(text), "region") /\ "region" \in Parsing \ {"plain"}
  BY DEF TakeRegion, Parsing
<1> QED
  BY <1>1, <1>2, <1>3, TakeQuotedStep

\* A block ends after its opener.
LEMMA EndsAfter ==
    ASSUME IInv, status \in Parsing, NEW e \in Ends
    PROVE  e \in Nat /\ Start < e /\ e <= Len(text) /\ cursor <= Start /\ Start \in Nat
<1>1. e \in blockText.kept
  BY DEF Ends, Original
<1>2. blockText.kept \subseteq (Start + 1)..Len(text) /\ cursor <= Start
  BY DEF IInv, SearchOK, Searching
<1>3. Len(text) \in Nat /\ Start \in Nat
  BY LenProperties DEF IInv, TextOK, Start
<1> QED
  BY <1>1, <1>2, <1>3

\* What was found so far ends before the opener.
LEMMA FoundBefore ==
    ASSUME IInv, status \in Parsing
    PROVE  /\ \A i \in DOMAIN includes : includes[i].end <= Start
           /\ \A i \in DOMAIN consumed : consumed[i].end <= Start
<1>1. cursor \in Nat /\ Start \in Nat /\ cursor <= Start
  BY LenProperties DEF IInv, TextOK, SearchOK, Searching, Start
<1>2. \A i \in DOMAIN includes : includes[i].end \in Nat /\ includes[i].end <= cursor
  BY Typed DEF IInv, FoundOK
<1>3. \A i \in DOMAIN consumed : consumed[i].end \in Nat /\ consumed[i].end <= cursor
  BY Typed DEF IInv, FoundOK
<1> QED
  BY <1>1, <1>2, <1>3

LEMMA FoundPlainStep == IInv /\ FoundPlain => IInv'
<1> SUFFICES ASSUME IInv, FoundPlain PROVE IInv'
  OBVIOUS
<1> DEFINE page == Target(blockText.tokens)
<1>1. status = "plain" /\ status \in Parsing
  BY DEF FoundPlain, Parsing
<1>2. PICK e \in Ends : Include(e) /\ cursor' = e
  BY DEF FoundPlain
<1>3. e \in Nat /\ Start < e /\ e <= Len(text) /\ cursor <= Start /\ Start \in Nat
  BY <1>1, EndsAfter
<1>4. page \in Seq(Token)
  BY <1>1, TargetIs DEF IInv, SearchOK
<1> HIDE DEF page
<1> DEFINE r == [start |-> Start, end |-> e, page |-> page]
<1>5. r \in Block /\ r.start = Start /\ r.end = e
  BY <1>3, <1>4 DEF Block
<1>6. includes' = Append(includes, r)
  BY <1>2 DEF Include, page
<1> HIDE DEF r
<1>7. /\ status' = "scanning"
      /\ UNCHANGED <<text, output, match, consumed, blockText>>
  BY DEF FoundPlain, Scanned, input, results
<1>8. cursor \in 0..Len(text) /\ Len(text) \in Nat
  BY LenProperties DEF IInv, TextOK
<1>9. TextOK'
  BY <1>1, <1>2, <1>3, <1>7, <1>8 DEF IInv, TextOK, Unedited, Searching
<1>10. SearchOK'
  BY <1>7 DEF SearchOK, Searching, Parsing
<1>11. FoundOK'
  <2> DEFINE n == Len(includes)
  <2>1. /\ includes' \in Seq(Block) /\ n \in Nat
        /\ DOMAIN includes' = 1..(n + 1) /\ DOMAIN includes = 1..n
        /\ \A i \in 1..n : includes'[i] = includes[i]
        /\ includes'[n + 1] = r
    BY <1>5, <1>6, AppendProperties, LenProperties DEF IInv, FoundOK
  <2> HIDE DEF n
  <2>2. /\ \A i \in DOMAIN includes : includes[i].start \in Nat /\ includes[i].end \in Nat
        /\ \A i \in DOMAIN consumed : consumed[i].start \in Nat /\ consumed[i].end \in Nat
    BY Typed DEF IInv
  <2>3. /\ \A i \in 1..n : includes'[i].end <= Start
        /\ \A i \in DOMAIN consumed : consumed[i].end <= Start
    BY <1>1, <2>1, FoundBefore
  <2>4. \A i \in DOMAIN includes' :
          includes'[i].start < includes'[i].end /\ includes'[i].end <= cursor'
    BY <1>2, <1>3, <1>5, <2>1, <2>2, <2>3 DEF IInv, FoundOK
  <2>5. \A i \in DOMAIN consumed' :
          consumed'[i].start < consumed'[i].end /\ consumed'[i].end <= cursor'
    BY <1>2, <1>3, <1>7, <2>2, <2>3 DEF IInv, FoundOK
  <2>6. \A i, j \in DOMAIN includes' : i # j => Apart(includes'[i], includes'[j])
    BY <1>5, <2>1, <2>3 DEF IInv, FoundOK, Apart
  <2>7. \A i, j \in DOMAIN consumed' : i # j => Apart(consumed'[i], consumed'[j])
    BY <1>7 DEF IInv, FoundOK, Apart
  <2>8. \A i \in DOMAIN includes' : \A j \in DOMAIN consumed' :
          Apart(includes'[i], consumed'[j])
    BY <1>5, <1>7, <2>1, <2>3 DEF IInv, FoundOK, Apart
  <2>9. consumed' \in Seq(Quote)
    BY <1>7 DEF IInv, FoundOK
  <2> QED
    BY <2>1, <2>4, <2>5, <2>6, <2>7, <2>8, <2>9 DEF FoundOK, Apart
<1>12. EditsOK'
  BY <1>7 DEF EditsOK
<1> QED
  BY <1>9, <1>10, <1>11, <1>12 DEF IInv

LEMMA FoundQuotedStep == IInv /\ FoundQuoted => IInv'
<1> SUFFICES ASSUME IInv, FoundQuoted PROVE IInv'
  OBVIOUS
<1>1. status \in Parsing
  BY DEF FoundQuoted, Parsing
<1>2. PICK e \in Ends :
        consumed' = Append(consumed, [start |-> Start, end |-> e]) /\ cursor' = e
  BY DEF FoundQuoted
<1>3. e \in Nat /\ Start < e /\ e <= Len(text) /\ cursor <= Start /\ Start \in Nat
  BY <1>1, EndsAfter
<1> DEFINE r == [start |-> Start, end |-> e]
<1>5. r \in Quote /\ r.start = Start /\ r.end = e
  BY <1>3 DEF Quote
<1>6. consumed' = Append(consumed, r)
  BY <1>2
<1> HIDE DEF r
<1>7. /\ status' = "scanning"
      /\ UNCHANGED <<text, output, match, includes, blockText>>
  BY DEF FoundQuoted, Scanned, input, results
<1>8. cursor \in 0..Len(text) /\ Len(text) \in Nat
  BY LenProperties DEF IInv, TextOK
<1>9. TextOK'
  BY <1>1, <1>2, <1>3, <1>7, <1>8 DEF IInv, TextOK, Unedited, Searching
<1>10. SearchOK'
  BY <1>7 DEF SearchOK, Searching, Parsing
<1>11. FoundOK'
  <2> DEFINE n == Len(consumed)
  <2>1. /\ consumed' \in Seq(Quote) /\ n \in Nat
        /\ DOMAIN consumed' = 1..(n + 1) /\ DOMAIN consumed = 1..n
        /\ \A i \in 1..n : consumed'[i] = consumed[i]
        /\ consumed'[n + 1] = r
    BY <1>5, <1>6, AppendProperties, LenProperties DEF IInv, FoundOK
  <2> HIDE DEF n
  <2>2. /\ \A i \in DOMAIN includes : includes[i].start \in Nat /\ includes[i].end \in Nat
        /\ \A i \in DOMAIN consumed : consumed[i].start \in Nat /\ consumed[i].end \in Nat
    BY Typed DEF IInv
  <2>3. /\ \A i \in 1..n : consumed'[i].end <= Start
        /\ \A i \in DOMAIN includes : includes[i].end <= Start
    BY <1>1, <2>1, FoundBefore
  <2>4. \A i \in DOMAIN consumed' :
          consumed'[i].start < consumed'[i].end /\ consumed'[i].end <= cursor'
    BY <1>2, <1>3, <1>5, <2>1, <2>2, <2>3 DEF IInv, FoundOK
  <2>5. \A i \in DOMAIN includes' :
          includes'[i].start < includes'[i].end /\ includes'[i].end <= cursor'
    BY <1>2, <1>3, <1>7, <2>2, <2>3 DEF IInv, FoundOK
  <2>6. \A i, j \in DOMAIN consumed' : i # j => Apart(consumed'[i], consumed'[j])
    BY <1>5, <2>1, <2>3 DEF IInv, FoundOK, Apart
  <2>7. \A i, j \in DOMAIN includes' : i # j => Apart(includes'[i], includes'[j])
    BY <1>7 DEF IInv, FoundOK, Apart
  <2>8. \A i \in DOMAIN includes' : \A j \in DOMAIN consumed' :
          Apart(includes'[i], consumed'[j])
    BY <1>5, <1>7, <2>1, <2>3 DEF IInv, FoundOK, Apart
  <2>9. includes' \in Seq(Block)
    BY <1>7 DEF IInv, FoundOK
  <2> QED
    BY <2>1, <2>4, <2>5, <2>6, <2>7, <2>8, <2>9 DEF FoundOK, Apart
<1>12. EditsOK'
  BY <1>7 DEF EditsOK
<1> QED
  BY <1>9, <1>10, <1>11, <1>12 DEF IInv

LEMMA NotABlockStep == IInv /\ NotABlock => IInv'
<1> SUFFICES ASSUME IInv, NotABlock PROVE IInv'
  OBVIOUS
<1>1. status \in Parsing /\ status \in Searching
  BY DEF NotABlock, Refused, Parsing, Searching
<1>2. cursor \in 0..Len(text) /\ Len(text) \in Nat /\ cursor <= Start /\ Start \in Nat
  BY <1>1, LenProperties DEF IInv, TextOK, SearchOK, Start
<1>3. Candidate \in Nat /\ Candidate > Start + 1 /\ Candidate <= Len(text)
  BY <1>1, CandidateIs DEF IInv, SearchOK
<1>4. cursor' = Candidate /\ status' = "scanning"
      /\ UNCHANGED <<text, output, match, includes, consumed>>
  BY DEF NotABlock, Scanned, input, results, found
<1>5. cursor' \in 0..Len(text) /\ cursor <= cursor'
  BY <1>2, <1>3, <1>4
<1>6. TextOK'
  BY <1>1, <1>4, <1>5 DEF IInv, TextOK, Unedited
<1>7. SearchOK'
  BY <1>4 DEF SearchOK, Searching, Parsing
<1>8. FoundOK'
  BY <1>4, <1>5, CursorAhead
<1>9. EditsOK'
  BY <1>4 DEF EditsOK
<1> QED
  BY <1>6, <1>7, <1>8, <1>9 DEF IInv

-----------------------------------------------------------------------------
(* The edits *)

\* Two edits that start apart are apart.
LEMMA EditsApart ==
    ASSUME IInv, NEW answers \in [DOMAIN includes -> Answer]
    PROVE  /\ \A r \in Edits(answers) : /\ r.start \in Nat /\ r.end \in Nat
                                        /\ r.start < r.end /\ r.end <= Len(text)
           /\ \A r, q \in Edits(answers) : r.start # q.start => Apart(r, q)
<1> DEFINE I(r) == \E i \in DOMAIN includes :
                     r.start = includes[i].start /\ r.end = includes[i].end
           C(r) == \E i \in DOMAIN consumed :
                     r.start = consumed[i].start /\ r.end = consumed[i].end
<1>1. \A r \in Edits(answers) : I(r) \/ C(r)
  <2> SUFFICES ASSUME NEW r \in Edits(answers) PROVE I(r) \/ C(r)
    OBVIOUS
  <2>1. DOMAIN answers = DOMAIN includes
    OBVIOUS
  <2>2. CASE \E i \in DOMAIN answers : r = Edit(includes[i], includes[i].page, answers[i])
    BY <2>1, <2>2 DEF Edit
  <2>3. CASE \E i \in DOMAIN consumed : r = Edit(consumed[i], << >>, "quoted")
    BY <2>3 DEF Edit
  <2> QED
    BY <2>2, <2>3 DEF Edits
<1>2. cursor \in Nat /\ Len(text) \in Nat /\ cursor <= Len(text)
  BY LenProperties DEF IInv, TextOK
<1>3. /\ \A i \in DOMAIN includes :
           /\ includes[i].start \in Nat /\ includes[i].end \in Nat
           /\ includes[i].start < includes[i].end /\ includes[i].end <= Len(text)
      /\ \A i \in DOMAIN consumed :
           /\ consumed[i].start \in Nat /\ consumed[i].end \in Nat
           /\ consumed[i].start < consumed[i].end /\ consumed[i].end <= Len(text)
  BY <1>2, Typed DEF IInv, FoundOK
<1>4. \A r \in Edits(answers) : /\ r.start \in Nat /\ r.end \in Nat
                                /\ r.start < r.end /\ r.end <= Len(text)
  BY <1>1, <1>3
<1>5. ASSUME NEW r \in Edits(answers), NEW q \in Edits(answers), r.start # q.start
      PROVE  Apart(r, q)
  <2>1. CASE I(r) /\ I(q)
    BY <1>5, <2>1 DEF IInv, FoundOK, Apart
  <2>2. CASE I(r) /\ C(q)
    BY <2>2 DEF IInv, FoundOK, Apart
  <2>3. CASE C(r) /\ I(q)
    BY <2>3 DEF IInv, FoundOK, Apart
  <2>4. CASE C(r) /\ C(q)
    BY <1>5, <2>4 DEF IInv, FoundOK, Apart
  <2> QED
    BY <1>1, <2>1, <2>2, <2>3, <2>4
<1> QED
  BY <1>4, <1>5

LEMMA FetchAnswersStep == IInv /\ FetchAnswers => IInv'
<1> SUFFICES ASSUME IInv, FetchAnswers PROVE IInv'
  OBVIOUS
<1>1. PICK answers \in [DOMAIN includes -> Answer] : Substitutes(answers)
  BY DEF FetchAnswers
<1> DEFINE S == Edits(answers)
           n == left'
<1>2. n \in Nat
  <2>1. DOMAIN includes = 1..Len(includes) /\ Len(includes) \in Nat /\ Len(consumed) \in Nat
    BY Typed DEF IInv
  <2>2. answers \in Seq(Answer)
    BY <2>1
  <2>3. Len(answers) \in Nat
    BY <2>2, LenProperties
  <2> QED
    BY <1>1, <2>1, <2>3 DEF Substitutes
<1>3. /\ edits' \in [1..n -> S]
      /\ \A i, j \in 1..n : i < j => edits'[i].start < edits'[j].start
  BY <1>1 DEF Substitutes, Ordered
<1>4. /\ \A r \in S : /\ r.start \in Nat /\ r.end \in Nat
                      /\ r.start < r.end /\ r.end <= Len(text)
      /\ \A r, q \in S : r.start # q.start => Apart(r, q)
  BY EditsApart
<1>5. /\ status = "scanning" /\ status' = "substituting"
      /\ UNCHANGED <<text, output, cursor, match, blockText, includes, consumed>>
  BY <1>1 DEF FetchAnswers, Asked, Scanning, Substitutes, Answered, input, found, results
<1>6. output = text /\ Len(text) \in Nat
  BY <1>5, LenProperties DEF IInv, TextOK, Unedited
<1> HIDE DEF S, n
<1>7. \A i \in 1..n : edits'[i] \in S
  BY <1>3
<1>8. \A i \in 1..n : /\ edits'[i].start \in Nat /\ edits'[i].end \in Nat
                      /\ edits'[i].start < edits'[i].end
                      /\ edits'[i].end <= Len(text)
  BY <1>4, <1>7
<1>9. ASSUME NEW i \in 1..n, NEW j \in 1..n, i < j
      PROVE  edits'[i].end <= edits'[j].start
  <2>1. edits'[i].start < edits'[j].start
    BY <1>3, <1>9
  <2>2. edits'[i].start # edits'[j].start
    BY <1>8, <2>1
  <2>3. Apart(edits'[i], edits'[j])
    BY <1>4, <1>7, <2>2
  <2> QED
    BY <1>8, <2>1, <2>3 DEF Apart
<1>10. n > 0 => /\ edits'[n].end <= Len(output)
                /\ \A k \in 1..edits'[n].end : output[k] = text[k]
  BY <1>2, <1>6, <1>8
<1>11. EditsOK'
  <2>1. text' = text /\ output' = output /\ left' = n
    BY <1>5 DEF n
  <2> QED
    BY <1>2, <1>8, <1>9, <1>10, <2>1 DEF EditsOK
<1>12. TextOK'
  BY <1>5 DEF IInv, TextOK, Unedited, Searching, Parsing
<1>13. SearchOK'
  BY <1>5 DEF SearchOK, Searching, Parsing
<1>14. FoundOK'
  BY <1>5, SameRanges
<1> QED
  BY <1>11, <1>12, <1>13, <1>14 DEF IInv

\* Steps that end include(), or fail.
LEMMA LastStep ==
    ASSUME IInv, UNCHANGED <<text, output, cursor, match, includes, consumed>>,
           status' \in {"done", "failed", "invalid"}
    PROVE  IInv'
<1>1. TextOK'
  BY DEF IInv, TextOK, Unedited, Searching, Parsing
<1>2. SearchOK'
  BY DEF SearchOK, Searching, Parsing
<1>3. FoundOK'
  BY SameRanges
<1>4. EditsOK'
  BY DEF EditsOK
<1> QED
  BY <1>1, <1>2, <1>3, <1>4 DEF IInv

\* One edit fewer is left, and what comes before it stays.
LEMMA EditStep ==
    ASSUME IInv, Substituting, Substituted, status' = status, left' = left - 1,
           NEW with \in Seq(Token), output' = Replaced(This, with)
    PROVE  IInv'
<1>1. status = "substituting" /\ left \in Nat \ {0}
  BY DEF Substituting, IInv, EditsOK
<1> DEFINE n == left
<1>2. /\ \A i \in 1..n : /\ edits[i].start \in Nat /\ edits[i].end \in Nat
                         /\ edits[i].start < edits[i].end
                         /\ edits[i].end <= Len(text)
      /\ \A i, j \in 1..n : i < j => edits[i].end <= edits[j].start
      /\ This.end <= Len(output)
      /\ \A k \in 1..This.end : output[k] = text[k]
  BY <1>1 DEF IInv, EditsOK, This
<1>3. /\ This.start \in Nat /\ This.end \in Nat /\ This.start < This.end
  BY <1>1, <1>2 DEF This
<1>4. output \in Seq(Token)
  BY DEF IInv, TextOK
<1>5. /\ output' \in Seq(Token) /\ Len(output') \in Nat
      /\ This.start <= Len(output')
      /\ \A k \in 1..This.start : output'[k] = output[k]
  BY <1>2, <1>3, <1>4, ReplacedIs
<1>6. UNCHANGED <<text, cursor, match, includes, consumed, edits>>
  BY DEF Substituted, input, found
<1>7. TextOK'
  BY <1>1, <1>5, <1>6 DEF IInv, TextOK, Unedited, Searching, Parsing
<1>8. SearchOK'
  BY <1>1 DEF SearchOK, Searching, Parsing
<1>9. FoundOK'
  BY <1>6, SameRanges
<1>10. EditsOK'
  <2> DEFINE m == left - 1
  <2>1. m \in Nat /\ left' = m /\ 1..m \subseteq 1..n
    BY <1>1
  <2>2. ASSUME m > 0
        PROVE  edits[m].end \in Nat /\ edits[m].end <= This.start
    BY <1>1, <1>2, <2>1, <2>2 DEF This
  <2>3. ASSUME m > 0
        PROVE  /\ edits[m].end <= Len(output')
               /\ \A k \in 1..edits[m].end : output'[k] = text[k]
    <3>1. \A k \in 1..edits[m].end : k \in 1..This.start /\ k \in 1..This.end
      BY <1>3, <2>2, <2>3
    <3> QED
      BY <1>2, <1>3, <1>5, <2>2, <2>3, <3>1
  <2> HIDE DEF m
  <2> QED
    BY <1>2, <1>6, <2>1, <2>3 DEF EditsOK
<1> QED
  BY <1>7, <1>8, <1>9, <1>10 DEF IInv

LEMMA IncludePageStep == IInv /\ IncludePage => IInv'
<1> SUFFICES ASSUME IInv, IncludePage PROVE IInv'
  OBVIOUS
<1> DEFINE with == Separated(This, With(This.answer))
<1>1. With(This.answer) \in Seq(Token)
  BY IncludesAssumption DEF With, IncludePage
<1>2. <<"nl">> \in Seq(Token) /\ << >> \in Seq(Token)
  BY DEF Token
<1>3. with \in Seq(Token)
  BY <1>1, <1>2, ConcatProperties DEF Separated
<1> HIDE DEF with
<1> QED
  BY <1>3, EditStep DEF IncludePage, with

LEMMA DropQuotedStep == IInv /\ DropQuoted => IInv'
<1> SUFFICES ASSUME IInv, DropQuoted PROVE IInv'
  OBVIOUS
<1>1. << >> \in Seq(Token)
  OBVIOUS
<1> QED
  BY <1>1, EditStep DEF DropQuoted

-----------------------------------------------------------------------------
(* The ranges, and the text before them *)

LEMMA NextStep == IInv /\ [IncludesNext]_includesVars => IInv'
<1> SUFFICES ASSUME IInv, [IncludesNext]_includesVars PROVE IInv'
  OBVIOUS
<1>1. CASE Disabled
  BY <1>1, LastStep DEF Disabled, input, found, results
<1>2. CASE FindOpener
  BY <1>2, FindOpenerStep
<1>3. CASE SkipRest
  BY <1>3, SkipRestStep
<1>4. CASE TakePlain
  BY <1>4, TakePlainStep
<1>5. CASE TakeLines
  BY <1>5, TakeLinesStep
<1>6. CASE TakeRegion
  BY <1>6, TakeRegionStep
<1>7. CASE FoundPlain
  BY <1>7, FoundPlainStep
<1>8. CASE FoundQuoted
  BY <1>8, FoundQuotedStep
<1>9. CASE NotABlock
  BY <1>9, NotABlockStep
<1>10. CASE FetchFails
  BY <1>10, LastStep DEF FetchFails, Answered, input, found, results
<1>11. CASE FetchMiscounts
  BY <1>11, LastStep DEF FetchMiscounts, Answered, input, found, results
<1>12. CASE FetchAnswers
  BY <1>12, FetchAnswersStep
<1>13. CASE DropQuoted
  BY <1>13, DropQuotedStep
<1>14. CASE OtherPage
  BY <1>14, LastStep DEF OtherPage, Substituted, input, found
<1>15. CASE NoSuchIncludeFails
  BY <1>15, LastStep DEF NoSuchIncludeFails, Substituted, input, found
<1>16. CASE IncludePage
  BY <1>16, IncludePageStep
<1>17. CASE Finish
  BY <1>17, LastStep DEF Finish, Substituted, input, found
<1>18. CASE UNCHANGED includesVars
  <2>1. UNCHANGED <<text, output, cursor, match, blockText, includes, consumed, edits, left,
                    status>>
    BY <1>18 DEF includesVars, input, found, results
  <2>2. TextOK'
    BY <2>1 DEF IInv, TextOK
  <2>3. SearchOK'
    BY <2>1 DEF IInv, SearchOK, Start, Marker
  <2>4. FoundOK'
    BY <2>1, SameRanges
  <2>5. EditsOK'
    BY <2>1 DEF IInv, EditsOK
  <2> QED
    BY <2>2, <2>3, <2>4, <2>5 DEF IInv
<1> QED
  BY <1>1, <1>2, <1>3, <1>4, <1>5, <1>6, <1>7, <1>8, <1>9, <1>10, <1>11, <1>12,
     <1>13, <1>14, <1>15, <1>16, <1>17, <1>18 DEF IncludesNext

\* The inductive invariant: openers and what is parsed lie ahead of the cursor, the
\* ranges found behind it, and the edits left are in order and concern the input's text.
THEOREM Invariance == IncludesSpec => []IInv
<1> QED
  BY InitIInv, NextStep, PTL DEF IncludesSpec

\* For every text the ranges include() replaces or drops lie in it and never overlap.
THEOREM NoOverlap == IncludesSpec => []RangesApart
<1>1. IInv => RangesApart
  <2> SUFFICES ASSUME IInv PROVE RangesApart
    OBVIOUS
  <2>1. cursor \in Nat /\ Len(text) \in Nat /\ cursor <= Len(text)
    BY LenProperties DEF IInv, TextOK
  <2>2. /\ \A i \in DOMAIN includes : includes[i].end <= Len(text)
        /\ \A i \in DOMAIN consumed : consumed[i].end <= Len(text)
    BY <2>1, Typed DEF IInv, FoundOK
  <2> QED
    BY <2>2 DEF IInv, FoundOK, RangesApart
<1> QED
  BY <1>1, Invariance, PTL

\* For every text and every answer of the Includer, the text up to the end of each
\* range still to be edited is the input's: replace_range cuts what was found.
THEOREM EditsValid == IncludesSpec => []PrefixUntouched
<1>1. IInv => PrefixUntouched
  <2> SUFFICES ASSUME IInv, status = "substituting", NEW n \in 1..left
               PROVE  /\ edits[n].end <= Len(output)
                      /\ SubSeq(output, 1, edits[n].end) = SubSeq(text, 1, edits[n].end)
    BY DEF PrefixUntouched
  <2> DEFINE e == edits[n].end
             f == edits[left].end
             x == SubSeq(output, 1, e)
             y == SubSeq(text, 1, e)
  <2>1. left \in Nat \ {0}
    BY DEF IInv, EditsOK
  <2>2. /\ \A i \in 1..left : /\ edits[i].start \in Nat /\ edits[i].end \in Nat
                              /\ edits[i].start < edits[i].end
                              /\ edits[i].end <= Len(text)
        /\ \A i, j \in 1..left : i < j => edits[i].end <= edits[j].start
        /\ f <= Len(output) /\ \A k \in 1..f : output[k] = text[k]
    BY <2>1 DEF IInv, EditsOK
  <2>3. e \in Nat /\ f \in Nat /\ e <= f /\ f <= Len(text)
    <3>1. CASE n = left
      BY <2>1, <2>2, <3>1
    <3>2. CASE n < left
      <4>1. e <= edits[left].start
        BY <2>1, <2>2, <3>2
      <4> QED
        BY <2>1, <2>2, <4>1
    <3> QED
      BY <2>1, <3>1, <3>2
  <2>4. /\ Len(output) \in Nat /\ \A k \in 1..Len(output) : output[k] \in Token
        /\ Len(text) \in Nat /\ \A k \in 1..Len(text) : text[k] \in Token
    BY LenProperties, ElementOfSeq DEF IInv, TextOK
  <2> HIDE DEF e, f
  <2>5. /\ x \in Seq(Token) /\ Len(x) = e /\ \A k \in 1..e : x[k] = output[k]
    BY <2>2, <2>3, <2>4, SubSeqProperties
  <2>6. /\ y \in Seq(Token) /\ Len(y) = e /\ \A k \in 1..e : y[k] = text[k]
    BY <2>3, <2>4, SubSeqProperties
  <2>7. \A k \in 1..e : output[k] = text[k]
    BY <2>2, <2>3
  <2> HIDE DEF x, y
  <2>8. x = y
    BY <2>3, <2>5, <2>6, <2>7, SeqEqual
  <2> QED
    BY <2>2, <2>3, <2>4, <2>8 DEF e, x, y
<1> QED
  BY <1>1, Invariance, PTL

-----------------------------------------------------------------------------
(* Positions without their quotes *)

\* Ranks count positions in their order, none twice and none left out.
LEMMA Ranks ==
    ASSUME NEW K \in SUBSET Nat, IsFiniteSet(K)
    PROVE  /\ Cardinality(K) \in Nat
           /\ \A k \in K : Rank(K, k) \in 1..Cardinality(K)
           /\ \A k, m \in K : k < m => Rank(K, k) < Rank(K, m)
           /\ \A i \in 1..Cardinality(K) : \E k \in K : Rank(K, k) = i
<1> DEFINE To(k) == {j \in K : j <= k}
<1>1. Cardinality(K) \in Nat
  BY FS_CardinalityType
<1>2. ASSUME NEW k \in K
      PROVE  /\ IsFiniteSet(To(k)) /\ Cardinality(To(k)) \in Nat
             /\ Rank(K, k) = Cardinality(To(k))
             /\ Rank(K, k) \in 1..Cardinality(K)
  <2>1. To(k) \in SUBSET K /\ k \in To(k)
    OBVIOUS
  <2>2. IsFiniteSet(To(k)) /\ Cardinality(To(k)) <= Cardinality(K)
    <3> HIDE DEF To
    <3> QED
      BY <2>1, FS_Subset
  <2>3. Cardinality(To(k)) \in Nat
    BY <2>2, FS_CardinalityType
  <2>4. Cardinality(To(k)) # 0
    <3>1. To(k) # {}
      BY <2>1
    <3> HIDE DEF To
    <3> QED
      BY <2>2, <3>1, FS_EmptySet
  <2>5. Rank(K, k) = Cardinality(To(k))
    BY DEF Rank
  <2> HIDE DEF To
  <2> QED
    BY <1>1, <2>2, <2>3, <2>4, <2>5
<1>3. ASSUME NEW k \in K, NEW m \in K, k < m
      PROVE  Rank(K, k) < Rank(K, m)
  <2>1. To(k) \in SUBSET To(m) /\ m \in To(m) /\ m \notin To(k)
    <3>1. k \in Nat /\ m \in Nat /\ \A j \in K : j \in Nat
      OBVIOUS
    <3>2. \A j \in K : j <= k => j <= m
      BY <1>3, <3>1
    <3>3. m <= m /\ ~(m <= k)
      BY <1>3, <3>1
    <3> QED
      BY <3>2, <3>3
  <2>2. To(k) # To(m)
    BY <2>1
  <2> HIDE DEF To
  <2>3. /\ IsFiniteSet(To(m)) /\ Cardinality(To(m)) \in Nat
        /\ Cardinality(To(k)) \in Nat
    BY <1>2
  <2>4. Cardinality(To(k)) <= Cardinality(To(m)) /\ Cardinality(To(k)) # Cardinality(To(m))
    BY <2>1, <2>2, <2>3, FS_Subset
  <2> QED
    BY <1>2, <2>3, <2>4
<1>4. ASSUME NEW i \in 1..Cardinality(K)
      PROVE  \E k \in K : Rank(K, k) = i
  <2> DEFINE T == 1..Cardinality(K)
             f == [k \in K |-> Rank(K, k)]
  <2>1. f \in [K -> T]
    BY <1>2
  <2>2. \A k, m \in K : f[k] = f[m] => k = m
    <3> SUFFICES ASSUME NEW k \in K, NEW m \in K, f[k] = f[m], k # m PROVE FALSE
      OBVIOUS
    <3>1. k \in Nat /\ m \in Nat
      OBVIOUS
    <3>2. Rank(K, k) = Rank(K, m)
      OBVIOUS
    <3>4. Rank(K, k) \in 1..Cardinality(K) /\ Rank(K, m) \in 1..Cardinality(K)
      BY <1>2
    <3>5. ~(Rank(K, k) < Rank(K, m)) /\ ~(Rank(K, m) < Rank(K, k))
      BY <1>1, <3>2, <3>4
    <3>3. k < m \/ m < k
      BY <3>1
    <3> QED
      BY <1>3, <3>3, <3>5
  <2> HIDE DEF f
  <2>3. f \in Injection(K, T)
    BY <2>1, <2>2 DEF Injection, IsInjective
  <2>4. IsFiniteSet(T) /\ Cardinality(T) = Cardinality(K)
    BY <1>1, FS_Interval
  <2> HIDE DEF T
  <2>5. f \in Surjection(K, T)
    BY <2>3, <2>4, FS_Injection
  <2>6. i \in T
    BY DEF T
  <2>7. \E k \in K : f[k] = i
    BY <2>5, <2>6 DEF Surjection
  <2> QED
    BY <2>7 DEF f
<1> QED
  BY <1>1, <1>2, <1>3, <1>4

\* The position after another has the next rank.
LEMMA NextRank ==
    ASSUME NEW K \in SUBSET Nat, IsFiniteSet(K), NEW k \in K, k + 1 \in K
    PROVE  Rank(K, k + 1) = Rank(K, k) + 1
<1> DEFINE A == {j \in K : j <= k}
           B == {j \in K : j <= k + 1}
<1>1. B = A \cup {k + 1} /\ k + 1 \notin A /\ A \in SUBSET K
  <2>1. k \in Nat /\ \A j \in K : j \in Nat
    OBVIOUS
  <2>2. \A j \in K : j <= k + 1 <=> (j <= k \/ j = k + 1)
    BY <2>1
  <2>3. ~(k + 1 <= k)
    BY <2>1
  <2> QED
    BY <2>2, <2>3
<1> HIDE DEF A, B
<1>2. IsFiniteSet(A)
  BY <1>1, FS_Subset
<1>3. Cardinality(B) = Cardinality(A) + 1
  BY <1>1, <1>2, FS_AddElement
<1> QED
  BY <1>3 DEF Rank, A, B

\* The last position has the last rank.
LEMMA LastRank ==
    ASSUME NEW K \in SUBSET Nat, NEW k \in K, \A j \in K : j <= k
    PROVE  Rank(K, k) = Cardinality(K)
<1>1. {j \in K : j <= k} = K
  OBVIOUS
<1> QED
  BY <1>1 DEF Rank

\* One position has each rank.
LEMMA OriginalIs ==
    ASSUME NEW K \in SUBSET Nat, IsFiniteSet(K)
    PROVE  /\ \A i \in 1..Cardinality(K) :
                \E k \in K : Rank(K, k) = i /\ Original(K, i) = {k}
           /\ \A k \in K : Original(K, Rank(K, k)) = {k}
<1>1. \A k \in K : Original(K, Rank(K, k)) = {k}
  <2> SUFFICES ASSUME NEW k \in K, NEW m \in K, Rank(K, m) = Rank(K, k)
               PROVE  m = k
    BY DEF Original
  <2>1. Rank(K, m) \in Int /\ Rank(K, k) \in Int
    BY Ranks
  <2>2. m \in Nat /\ k \in Nat
    OBVIOUS
  <2>3. ~(m < k) /\ ~(k < m)
    BY <2>1, Ranks
  <2> QED
    BY <2>2, <2>3
<1>2. \A i \in 1..Cardinality(K) : \E k \in K : Rank(K, k) = i
  BY Ranks
<1> QED
  BY <1>1, <1>2

\* The text without quotes is the tokens kept, in their order.
LEMMA NormalizedIs ==
    ASSUME text \in Seq(Token), NEW K \in SUBSET (1..Len(text))
    PROVE  /\ IsFiniteSet(K) /\ K \in SUBSET Nat
           /\ Normalized(K) \in Seq(Token)
           /\ Len(Normalized(K)) = Cardinality(K)
           /\ \A k \in K : Normalized(K)[Rank(K, k)] = text[k]
<1> DEFINE n == Cardinality(K)
           f == [i \in 1..n |-> text[CHOOSE k \in Original(K, i) : TRUE]]
<1>1. Len(text) \in Nat /\ \A k \in 1..Len(text) : text[k] \in Token
  BY LenProperties, ElementOfSeq
<1>2. K \in SUBSET Nat
  BY <1>1
<1>3. IsFiniteSet(K)
  <2>1. IsFiniteSet(1..Len(text))
    BY <1>1, FS_Interval
  <2> QED
    BY <2>1, FS_Subset
<1>4. n \in Nat
  BY <1>2, <1>3, Ranks
<1>5. f = Normalized(K)
  BY DEF Normalized
<1>6. ASSUME NEW i \in 1..n PROVE f[i] \in Token
  <2>1. PICK k \in K : Original(K, i) = {k}
    BY <1>2, <1>3, OriginalIs
  <2>2. (CHOOSE m \in Original(K, i) : TRUE) = k
    BY <2>1
  <2> QED
    BY <1>1, <2>2
<1>7. ASSUME NEW k \in K PROVE f[Rank(K, k)] = text[k]
  <2>1. Rank(K, k) \in 1..n
    BY <1>2, <1>3, Ranks
  <2>2. Original(K, Rank(K, k)) = {k}
    BY <1>2, <1>3, OriginalIs
  <2>3. (CHOOSE m \in Original(K, Rank(K, k)) : TRUE) = k
    BY <2>2
  <2> QED
    BY <2>1, <2>3
<1>8. f \in [1..n -> Token]
  BY <1>6
<1>9. f \in Seq(Token) /\ Len(f) = n
  <2> HIDE DEF f, n
  <2> QED
    BY <1>4, <1>8
<1> HIDE DEF f, n
<1> QED
  BY <1>2, <1>3, <1>5, <1>7, <1>9 DEF n

-----------------------------------------------------------------------------
(* What a block is parsed from *)

LEMMA TailFromIs ==
    ASSUME NEW s \in Seq(Token), Len(s) > 0
    PROVE  TailFrom(s) \in 2..(Len(s) + 1)
<1> DEFINE n    == Len(s)
           from == TargetFrom(s)
           i    == Past("gt", s, from)
           next == TargetTo(s) + 1
           tail == Past("nl", s, next)
<1>1. n \in Nat \ {0}
  BY LenProperties
<1>2. from \in 2..(n + 1)
  BY <1>1, PastIs DEF TargetFrom
<1>3. i \in from..(n + 1)
  BY <1>1, <1>2, PastIs
<1>4. next \in 2..(n + 1)
  BY <1>1, <1>2, <1>3 DEF TargetTo, Holds
<1> HIDE DEF next, i
<1>5. tail \in next..(n + 1)
  BY <1>1, <1>4, PastIs
<1>6. TailFrom(s) = IF Holds(s, tail, "op") THEN Spaced(s, tail + 1) ELSE tail
  BY DEF TailFrom, next
<1> HIDE DEF tail
<1>7. ASSUME Holds(s, tail, "op") PROVE Spaced(s, tail + 1) \in 2..(n + 1)
  <2> DEFINE S == {j \in (tail + 1)..(n + 1) :
                     j = n + 1 \/ (s[j] # "nl" /\ ~Commented(s, tail + 1, j))}
  <2>1. tail \in Nat /\ tail <= n /\ 2 <= tail
    BY <1>1, <1>4, <1>5, <1>7 DEF Holds
  <2>2. S \in SUBSET Nat /\ n + 1 \in S
    BY <1>1, <2>1
  <2>3. Least(S) \in S
    BY <2>2, LeastIs
  <2>4. Spaced(s, tail + 1) = Least(S)
    BY DEF Spaced
  <2> QED
    BY <1>1, <2>1, <2>3, <2>4
<1> QED
  BY <1>1, <1>4, <1>5, <1>6, <1>7

\* A block ends at a terminator.
LEMMA BlockEndsIs ==
    ASSUME NEW s \in Seq(Token), Len(s) > 0, NEW i \in BlockEnds(s)
    PROVE  i \in 2..Len(s) /\ EndsBlock(s, i)
<1>1. Len(s) \in Nat /\ TailFrom(s) \in 2..(Len(s) + 1)
  BY TailFromIs, LenProperties
<1>2. i \in Terminators(s, TailFrom(s) - 1) \/ i \in Terminators(s, 1)
  BY DEF BlockEnds
<1> QED
  BY <1>1, <1>2 DEF Terminators

\* The lines of a quoted region are all quoted.
LEMMA RegionIs ==
    ASSUME text \in Seq(Token), NEW start \in Nat, start < Len(text), NEW depth, NEW bound
    PROVE  /\ RegionEnd(start, depth, bound) \in (start + 1)..Len(text)
           /\ \/ RegionEnd(start, depth, bound) = Len(text)
              \/ LineStart(RegionEnd(start, depth, bound))
           /\ \A e \in (start + 1)..(RegionEnd(start, depth, bound) - 1) :
                LineStart(e) => Prefixed(e, depth)
<1> DEFINE C(e) == e = Len(text) \/ (LineStart(e) /\ (e >= bound \/ ~Prefixed(e, depth)))
           S == {e \in (start + 1)..Len(text) : C(e)}
           R == RegionEnd(start, depth, bound)
<1>1. Len(text) \in Nat
  BY LenProperties
<1>2. R = Least(S)
  BY DEF RegionEnd
<1>3. S \in SUBSET Nat /\ Len(text) \in S
  BY <1>1
<1>4. R \in S /\ \A j \in S : R <= j
  BY <1>2, <1>3, LeastIs
<1>5. R \in (start + 1)..Len(text) /\ C(R)
  BY <1>4
<1>6. ASSUME NEW e \in (start + 1)..(R - 1), LineStart(e) PROVE Prefixed(e, depth)
  <2>1. e \in Nat /\ e < R /\ e \in (start + 1)..Len(text)
    BY <1>1, <1>5
  <2>2. e \notin S
    BY <1>4, <1>5, <2>1
  <2>3. ~C(e)
    BY <2>1, <2>2
  <2> QED
    BY <1>6, <2>3
<1> HIDE DEF R, S
<1> QED
  BY <1>5, <1>6 DEF R

\* A quoted block ends, in the text, at a terminator of its last line; and every
\* quote before is whole.
LEMMA QuotedEnd ==
    ASSUME text \in Seq(Token), NEW start \in Nat, start < Len(text), NEW depth \in Nat,
           NEW bound, NEW K, K = Kept(start, depth, bound),
           NEW i \in BlockEnds(Normalized(K)), NEW e \in Original(K, i)
    PROVE  /\ EndsBlock(text, e)
           /\ e \in (start + 1)..RegionEnd(start, depth, bound)
           /\ \A at \in start..(e - 1) : LineStart(at) => e > at + depth
<1> DEFINE s == Normalized(K)
           R == RegionEnd(start, depth, bound)
           n == Len(text)
<1>1. n \in Nat
  BY LenProperties
<1>2. /\ R \in (start + 1)..n /\ (R = n \/ LineStart(R))
  BY RegionIs
<1> HIDE DEF R
<1>3. K = {k \in (start + 1)..R : \A at \in start..(k - 1) : LineStart(at) => k > at + depth}
  BY DEF Kept, R
<1>4. K \in SUBSET (1..n)
  BY <1>1, <1>2, <1>3
<1>5. /\ IsFiniteSet(K) /\ K \in SUBSET Nat
      /\ s \in Seq(Token) /\ Len(s) = Cardinality(K)
      /\ \A k \in K : s[Rank(K, k)] = text[k]
  BY <1>4, NormalizedIs
<1>6. e \in K /\ Rank(K, e) = i
  BY DEF Original
<1>7. /\ Cardinality(K) \in Nat /\ \A k \in K : Rank(K, k) \in 1..Cardinality(K)
  BY <1>5, Ranks
<1>8. Len(s) > 0
  BY <1>5, <1>6, <1>7
<1>9. i \in 2..Len(s) /\ EndsBlock(s, i)
  <2>1. i \in BlockEnds(s)
    OBVIOUS
  <2> HIDE DEF s
  <2> QED
    BY <1>5, <1>8, <2>1, BlockEndsIs
<1> HIDE DEF s
<1>10. text[e] = "end" /\ (i = Len(s) \/ s[i + 1] = "nl")
  BY <1>5, <1>6, <1>9 DEF EndsBlock
<1>11. e \in (start + 1)..R /\ \A at \in start..(e - 1) : LineStart(at) => e > at + depth
  BY <1>3, <1>6
<1>12. ~LineStart(e)
  <2>1. e # 0
    BY <1>11
  <2> QED
    BY <1>10, <2>1 DEF LineStart
<1>13. CASE e = R
  <2>1. e = n
    BY <1>2, <1>12, <1>13
  <2> QED
    BY <1>10, <1>11, <2>1 DEF EndsBlock, R, n
<1>14. CASE e < R
  <2>1. e + 1 \in (start + 1)..R
    BY <1>2, <1>11, <1>14
  <2>2. ASSUME NEW at \in start..((e + 1) - 1), LineStart(at) PROVE e + 1 > at + depth
    <3>1. at # e
      BY <1>12, <2>2
    <3>2. at \in start..(e - 1)
      BY <1>2, <1>11, <3>1
    <3>3. e > at + depth
      BY <1>11, <2>2, <3>2
    <3> QED
      BY <1>2, <1>11, <3>2, <3>3
  <2>3. e + 1 \in K
    BY <1>3, <2>1, <2>2
  <2>4. Rank(K, e + 1) = i + 1
    BY <1>5, <1>6, <2>3, NextRank
  <2>5. i # Len(s)
    BY <1>5, <1>7, <1>9, <2>3, <2>4
  <2>6. text[e + 1] = "nl"
    BY <1>5, <1>10, <2>3, <2>4, <2>5
  <2> QED
    BY <1>10, <1>11, <2>6 DEF EndsBlock, R
<1> QED
  BY <1>2, <1>11, <1>13, <1>14

-----------------------------------------------------------------------------
(* The scan loses nothing *)

\* What the text says of its openers does not change.
LEMMA SameText ==
    ASSUME text' = text
    PROVE  /\ \A at : LineStart(at)' <=> LineStart(at)
           /\ \A a, b : Quotes(a, b)' <=> Quotes(a, b)
           /\ \A at : Markers(at)' = Markers(at)
           /\ \A at : MarkerAt(at)' = MarkerAt(at)
           /\ \A at : ParsesAt(at)' <=> ParsesAt(at)
           /\ \A at : StopsAt(at)' = StopsAt(at)
<1>1. \A at : LineStart(at)' <=> LineStart(at)
  BY DEF LineStart
<1>2. \A a, b : Quotes(a, b)' <=> Quotes(a, b)
  BY DEF Quotes
<1>3. \A at : Markers(at)' = Markers(at)
  BY <1>1, <1>2 DEF Markers
<1>4. \A at : MarkerAt(at)' = MarkerAt(at)
  BY <1>3 DEF MarkerAt
<1>5. \A at : ParsesAt(at)' <=> ParsesAt(at)
  BY DEF ParsesAt
<1>6. \A at : StopsAt(at)' = StopsAt(at)
  BY <1>4 DEF StopsAt
<1> QED
  BY <1>1, <1>2, <1>3, <1>4, <1>5, <1>6

\* An opener is ahead of the cursor, and no other lies between.
LEMMA OpenerIs ==
    ASSUME IInv, ScanOK, status \in Searching
    PROVE  /\ Start \in Nat /\ Marker \in Nat /\ Len(text) \in Nat /\ cursor \in Nat
           /\ Start \in cursor..(Len(text) - 1)
           /\ Markers(Start) # {} /\ Marker \in Markers(Start) /\ MarkerAt(Start) = Marker
           /\ \A at \in cursor..(Len(text) - 1) : Markers(at) # {} => Start <= at
           /\ Start \in Markers(Start) => Marker = Start
<1>1. Start \in Nat /\ Marker \in Nat /\ Len(text) \in Nat /\ cursor \in Nat
  BY LenProperties DEF IInv, TextOK, Start, Marker
<1>2. Matches # {} /\ Start = Least(Matches) /\ Marker = Least(Markers(Start))
  BY DEF ScanOK
<1>3. Matches \in SUBSET Nat
  BY <1>1 DEF Matches
<1>4. Start \in Matches /\ \A at \in Matches : Start <= at
  BY <1>2, <1>3, LeastIs
<1>5. Start \in cursor..(Len(text) - 1) /\ Markers(Start) # {}
  BY <1>4 DEF Matches
<1>6. \A at \in cursor..(Len(text) - 1) : Markers(at) # {} => Start <= at
  BY <1>4 DEF Matches
<1>7. Markers(Start) \in SUBSET Nat
  BY <1>1 DEF Markers
<1>8. Marker \in Markers(Start) /\ \A m \in Markers(Start) : Marker <= m
  BY <1>2, <1>5, <1>7, LeastIs
<1>9. Start <= Marker
  BY <1>1, <1>8 DEF Markers
<1>10. Start \in Markers(Start) => Marker = Start
  BY <1>1, <1>8, <1>9
<1>11. MarkerAt(Start) = Marker
  BY <1>2 DEF MarkerAt
<1> QED
  BY <1>1, <1>5, <1>6, <1>8, <1>10, <1>11

\* A block that is one by itself has a terminator after its opener.
LEMMA ParseStops ==
    ASSUME text \in Seq(Token), NEW at \in Nat, at < Len(text), at \in Markers(at),
           ParsesAt(at)
    PROVE  Terminators(text, at + 1) # {}
<1> DEFINE s == SubSeq(text, at + 1, Len(text))
           n == Len(text)
<1>1. n \in Nat /\ \A i \in (at + 1)..n : text[i] \in Token
  BY LenProperties, ElementOfSeq
<1>2. s \in Seq(Token) /\ Len(s) = n - at /\ \A i \in 1..(n - at) : s[i] = text[at + i]
  <2>1. /\ s \in Seq(Token)
        /\ Len(s) = IF at + 1 <= n THEN n - (at + 1) + 1 ELSE 0
        /\ \A i \in 1..(n - (at + 1) + 1) : s[i] = text[(at + 1) + i - 1]
    BY <1>1, SubSeqProperties
  <2> HIDE DEF s, n
  <2>2. at + 1 <= n
    BY <1>1 DEF n
  <2>3. n - (at + 1) + 1 = n - at
    BY <1>1
  <2>4. \A i \in 1..(n - at) : (at + 1) + i - 1 = at + i
    BY <1>1
  <2> QED
    BY <2>1, <2>2, <2>3, <2>4
<1>3. BlockEnds(s) # {}
  BY DEF ParsesAt
<1> HIDE DEF s
<1>4. PICK i \in BlockEnds(s) : TRUE
  BY <1>3
<1>5. i \in 2..Len(s) /\ EndsBlock(s, i)
  BY <1>1, <1>2, <1>4, BlockEndsIs
<1>6. i \in 2..(n - at) /\ at + i \in ((at + 1) + 1)..n /\ s[i] = text[at + i]
  BY <1>1, <1>2, <1>5
<1>7. EndsBlock(text, at + i)
  <2>1. CASE i = Len(s)
    <3>1. at + i = n
      BY <1>1, <1>2, <2>1
    <3> QED
      BY <1>5, <1>6, <3>1 DEF EndsBlock, n
  <2>2. CASE s[i + 1] = "nl" /\ i # Len(s)
    <3>0. i \in Nat /\ i <= n - at /\ i # n - at
      BY <1>2, <1>6, <2>2
    <3>1. i + 1 \in 1..(n - at) /\ at + (i + 1) = (at + i) + 1
      <4> HIDE DEF n
      <4> QED
        BY <1>1, <3>0
    <3>2. text[(at + i) + 1] = "nl"
      BY <1>2, <2>2, <3>1
    <3> QED
      BY <1>5, <1>6, <3>2 DEF EndsBlock
  <2> QED
    BY <1>5, <2>1, <2>2 DEF EndsBlock
<1>8. at + i \in Terminators(text, at + 1)
  BY <1>6, <1>7 DEF Terminators, n
<1> QED
  BY <1>8

\* What was accounted for stays so, if more ranges are found ahead of the cursor.
LEMMA AccountedStays ==
    ASSUME text' = text, cursor \in Nat, NEW at \in 0..(cursor - 1), Accounted(at),
           NEW New, Edited' = Edited \cup New,
           \A r \in New : r.start \in Nat /\ cursor <= r.start
    PROVE  Accounted(at)'
<1>1. CASE \E r \in Edited : Covers(r, at)
  BY <1>1 DEF Accounted, Covers
<1>2. CASE \E h \in 0..(at - 1) :
             /\ Markers(h) # {}
             /\ ~\E r \in Edited : Covers(r, h)
             /\ \A k \in StopsAt(h) : \E j \in StopsAt(h) : j <= k /\ at < j
  <2>1. PICK h \in 0..(at - 1) :
             /\ Markers(h) # {}
             /\ ~\E r \in Edited : Covers(r, h)
             /\ \A k \in StopsAt(h) : \E j \in StopsAt(h) : j <= k /\ at < j
    BY <1>2
  <2>2. h \in Nat /\ h < cursor
    OBVIOUS
  <2>3. \A r \in New : ~Covers(r, h)
    BY <2>2 DEF Covers
  <2>4. ~\E r \in Edited' : Covers(r, h)
    BY <2>1, <2>3
  <2>5. Markers(h)' # {} /\ StopsAt(h)' = StopsAt(h)
    BY <2>1, SameText
  <2>6. \A r : Covers(r, h)' <=> Covers(r, h)
    BY DEF Covers
  <2>7. ~\E r \in Edited' : Covers(r, h)'
    BY <2>4, <2>6
  <2>8. \A k \in StopsAt(h)' : \E j \in StopsAt(h)' : j <= k /\ at < j
    BY <2>1, <2>5
  <2> QED
    BY <2>5, <2>7, <2>8 DEF Accounted
<1> QED
  BY <1>1, <1>2 DEF Accounted

\* A cursor that moves past what is accounted for leaves nothing behind.
LEMMA LostStep ==
    ASSUME IInv, LostOK, text' = text, NEW to \in Nat, cursor' = to, cursor <= to,
           NEW New, Edited' = Edited \cup New,
           \A r \in New : r.start \in Nat /\ cursor <= r.start,
           \A at \in cursor..(to - 1) :
             (at \in Markers(at) /\ ParsesAt(at)) => Accounted(at)'
    PROVE  LostOK'
<1>1. cursor \in Nat
  BY LenProperties DEF IInv, TextOK
<1>2. ASSUME NEW at \in 0..(to - 1), at \in Markers(at), ParsesAt(at)
      PROVE  Accounted(at)'
  <2>1. CASE at < cursor
    <3>1. at \in 0..(cursor - 1)
      BY <1>1, <2>1
    <3>2. Accounted(at)
      BY <1>2, <3>1 DEF LostOK
    <3> QED
      BY <1>1, <3>1, <3>2, AccountedStays
  <2>2. CASE ~(at < cursor)
    <3>1. at \in cursor..(to - 1)
      BY <1>1, <2>2
    <3> QED
      BY <1>2, <3>1
  <2> QED
    BY <2>1, <2>2
<1>3. \A at \in 0..(to - 1) : (at \in Markers(at) /\ ParsesAt(at))' => Accounted(at)'
  BY <1>2, SameText
<1> QED
  BY <1>3 DEF LostOK

LEMMA InitScan == IncludesInit => ScanExact
<1> SUFFICES ASSUME IncludesInit PROVE ScanExact
  OBVIOUS
<1>1. ScanOK
  BY DEF IncludesInit, Unscanned, ScanOK, Searching, Parsing
<1>2. QuotedLinesOnly
  BY DEF IncludesInit, Unscanned, QuotedLinesOnly
<1>3. LostOK
  <2>1. cursor = 0
    BY DEF IncludesInit, Unscanned
  <2>2. 0..(cursor - 1) = {}
    BY <2>1
  <2> QED
    BY <2>2 DEF LostOK
<1> QED
  BY <1>1, <1>2, <1>3 DEF ScanExact

\* Steps that find nothing.
LEMMA SameQuoted ==
    ASSUME QuotedLinesOnly, UNCHANGED <<text, consumed>>
    PROVE  QuotedLinesOnly'
<1>1. \A e : EndsBlock(text, e)' <=> EndsBlock(text, e)
  BY DEF EndsBlock
<1> QED
  BY <1>1, SameText DEF QuotedLinesOnly

LEMMA SameEdited ==
    ASSUME UNCHANGED <<includes, consumed>>
    PROVE  Edited' = Edited
BY DEF Edited

LEMMA SameFound ==
    ASSUME IInv, ScanExact, UNCHANGED <<text, cursor, includes, consumed>>
    PROVE  QuotedLinesOnly' /\ LostOK'
<1>1. QuotedLinesOnly'
  BY SameQuoted DEF ScanExact
<1>2. LostOK'
  <2>1. cursor \in Nat
    BY LenProperties DEF IInv, TextOK
  <2>2. Edited' = Edited \cup {}
    BY SameEdited
  <2>3. cursor..(cursor - 1) = {} /\ cursor <= cursor
    BY <2>1
  <2>4. \A at \in cursor..(cursor - 1) :
          (at \in Markers(at) /\ ParsesAt(at)) => Accounted(at)'
    BY <2>3
  <2>5. cursor' = cursor
    OBVIOUS
  <2>6. \A r \in {} : r.start \in Nat /\ cursor <= r.start
    OBVIOUS
  <2> QED
    BY <2>1, <2>2, <2>3, <2>4, <2>5, <2>6, LostStep DEF ScanExact
<1> QED
  BY <1>1, <1>2

\* Steps outside the search.
LEMMA IdleScan ==
    ASSUME IInv, ScanExact, UNCHANGED <<text, cursor, includes, consumed>>,
           status' \notin Searching
    PROVE  ScanExact'
<1>1. ScanOK'
  BY DEF ScanOK, Searching, Parsing
<1> QED
  BY <1>1, SameFound DEF ScanExact

LEMMA FindOpenerScan == IInv /\ ScanExact /\ FindOpener => ScanExact'
<1> SUFFICES ASSUME IInv, ScanExact, FindOpener PROVE ScanExact'
  OBVIOUS
<1>1. /\ UNCHANGED <<text, cursor, includes, consumed>> /\ status' = "matched"
      /\ Matches # {}
      /\ match' = [start |-> Least(Matches), marker |-> Least(Markers(Least(Matches)))]
  BY DEF FindOpener, input, found
<1>2. Start' = Least(Matches) /\ Marker' = Least(Markers(Least(Matches)))
  BY <1>1 DEF Start, Marker
<1>3. Matches' = Matches
  BY <1>1, SameText DEF Matches
<1>4. Markers(Start)' = Markers(Least(Matches))
  BY <1>1, <1>2 DEF Markers, Quotes, LineStart
<1>5. Marker' = Least(Markers(Start)') /\ Start' = Least(Matches')
  BY <1>2, <1>3, <1>4
<1>6. ScanOK'
  BY <1>1, <1>3, <1>5 DEF ScanOK
<1> QED
  BY <1>1, <1>6, SameFound DEF ScanExact

\* What is taken to be parsed.
LEMMA TakeScan ==
    ASSUME IInv, ScanExact, status \in Searching,
           NEW kept, NEW tokens, NEW then \in Parsing, Take(kept, tokens, then),
           then = "plain" => /\ Marker = Start /\ kept = (Start + 1)..Len(text)
                             /\ tokens = SubSeq(text, Start + 1, Len(text)),
           then # "plain" => /\ Marker # Start /\ tokens = Normalized(kept)
                             /\ \E bound \in {Candidate, Len(text)} :
                                  kept = Kept(Start, Marker - Start, bound)
    PROVE  ScanExact'
<1>1. /\ UNCHANGED <<text, cursor, match, includes, consumed>>
      /\ status' = then /\ blockText'.kept = kept /\ blockText'.tokens = tokens
  BY DEF Take, input, found
<1>2. Start' = Start /\ Marker' = Marker
  BY <1>1 DEF Start, Marker
<1>3. Matches' = Matches /\ Markers(Start)' = Markers(Start)
  <2>1. Markers(Start)' = Markers(Start)
    BY <1>1, <1>2 DEF Markers, Quotes, LineStart
  <2> QED
    BY <1>1, <2>1, SameText DEF Matches
<1>4. Candidate' = Candidate
  BY <1>1, <1>2 DEF Candidate
<1>5. Normalized(blockText.kept)' = Normalized(kept)
  BY <1>1 DEF Normalized
<1>6. \A b : Kept(Start, Marker - Start, b)' = Kept(Start, Marker - Start, b)
  <2>1. \A a, d, b : RegionEnd(a, d, b)' = RegionEnd(a, d, b)
    BY <1>1 DEF RegionEnd, LineStart, Prefixed, Quotes
  <2>2. \A a, d, b : Kept(a, d, b)' = Kept(a, d, b)
    BY <1>1, <2>1 DEF Kept, LineStart
  <2> QED
    BY <1>1, <1>2, <2>2 DEF Start, Marker
<1>7. ScanOK'
  <2>1. Matches # {} /\ Start = Least(Matches) /\ Marker = Least(Markers(Start))
    BY DEF ScanExact, ScanOK
  <2>2. then # "plain" => \E b \in {Candidate', Len(text)'} :
                             blockText'.kept = Kept(Start, Marker - Start, b)'
    BY <1>1, <1>4, <1>6
  <2>3. then \in {"lines", "region"} => then # "plain"
    OBVIOUS
  <2> QED
    BY <1>1, <1>2, <1>3, <1>5, <2>1, <2>2, <2>3 DEF ScanOK
<1> QED
  BY <1>1, <1>7, SameFound DEF ScanExact

LEMMA TakePlainScan == IInv /\ ScanExact /\ TakePlain => ScanExact'
<1> SUFFICES ASSUME IInv, ScanExact, TakePlain PROVE ScanExact'
  OBVIOUS
<1>1. status \in Searching /\ Marker = Start /\ "plain" \in Parsing
      /\ Take((Start + 1)..Len(text), SubSeq(text, Start + 1, Len(text)), "plain")
  BY DEF TakePlain, Bounded, Unquoted, Searching, Parsing
<1> QED
  BY <1>1, TakeScan

LEMMA TakeLinesScan == IInv /\ ScanExact /\ TakeLines => ScanExact'
<1> SUFFICES ASSUME IInv, ScanExact, TakeLines PROVE ScanExact'
  OBVIOUS
<1> DEFINE K == Kept(Start, Marker - Start, Candidate)
<1>1. status \in Searching /\ Marker # Start /\ "lines" \in Parsing
      /\ Take(K, Normalized(K), "lines")
  BY DEF TakeLines, TakeQuoted, Bounded, Unquoted, Searching, Parsing
<1>2. \E bound \in {Candidate, Len(text)} : K = Kept(Start, Marker - Start, bound)
  OBVIOUS
<1> HIDE DEF K
<1> QED
  BY <1>1, <1>2, TakeScan

LEMMA TakeRegionScan == IInv /\ ScanExact /\ TakeRegion => ScanExact'
<1> SUFFICES ASSUME IInv, ScanExact, TakeRegion PROVE ScanExact'
  OBVIOUS
<1> DEFINE K == Kept(Start, Marker - Start, Len(text))
<1>1. status \in Searching /\ Marker # Start /\ "region" \in Parsing
      /\ Take(K, Normalized(K), "region")
  BY DEF TakeRegion, TakeQuoted, Searching, Parsing, ScanExact, ScanOK
<1>2. \E bound \in {Candidate, Len(text)} : K = Kept(Start, Marker - Start, bound)
  OBVIOUS
<1> HIDE DEF K
<1> QED
  BY <1>1, <1>2, TakeScan

\* An opener that is a block by itself is parsed as one.
LEMMA OwnBlock ==
    ASSUME IInv, ScanOK, status \in Searching, Start \in Markers(Start), ParsesAt(Start)
    PROVE  /\ Terminators(text, Marker + 1) # {}
           /\ status \in Parsing => status = "plain" /\ Ends # {}
<1>1. /\ Start \in Nat /\ Marker = Start /\ Start < Len(text) /\ Len(text) \in Nat
      /\ text \in Seq(Token)
  BY OpenerIs DEF IInv, TextOK
<1>2. Terminators(text, Marker + 1) # {}
  BY <1>1, ParseStops
<1>3. ASSUME status \in Parsing PROVE status = "plain" /\ Ends # {}
  <2>1. status = "plain"
    BY <1>1, <1>3 DEF ScanOK, Parsing
  <2> DEFINE K == (Start + 1)..Len(text)
             s == SubSeq(text, Start + 1, Len(text))
  <2>2. blockText.kept = K /\ blockText.tokens = s
    BY <2>1 DEF ScanOK
  <2>3. s \in Seq(Token) /\ Len(s) > 0 /\ Len(s) = Cardinality(K)
    <3>1. \A k \in (Start + 1)..Len(text) : text[k] \in Token
      BY <1>1, ElementOfSeq
    <3>2. /\ s \in Seq(Token)
          /\ Len(s) = IF Start + 1 <= Len(text) THEN Len(text) - (Start + 1) + 1 ELSE 0
      BY <1>1, <3>1, SubSeqProperties
    <3>3. Cardinality(K) = IF Start + 1 > Len(text) THEN 0 ELSE Len(text) - (Start + 1) + 1
      BY <1>1, FS_Interval
    <3> HIDE DEF K, s
    <3> QED
      BY <1>1, <3>2, <3>3
  <2>4. IsFiniteSet(K) /\ K \in SUBSET Nat
    BY <1>1, FS_Interval
  <2>5. BlockEnds(s) # {}
    BY DEF ParsesAt
  <2> HIDE DEF K, s
  <2>6. PICK i \in BlockEnds(s) : i \in 1..Cardinality(K)
    BY <2>3, <2>5, BlockEndsIs
  <2>7. PICK k \in K : Original(K, i) = {k}
    BY <2>4, <2>6, OriginalIs
  <2>8. k \in Ends
    BY <2>2, <2>6, <2>7 DEF Ends
  <2> QED
    BY <2>1, <2>8
<1> QED
  BY <1>2, <1>3

\* No range found so far covers an opener ahead of the cursor.
LEMMA NotCovered ==
    ASSUME IInv, NEW h \in Nat, cursor <= h
    PROVE  ~\E r \in Edited : Covers(r, h)
<1> SUFFICES ASSUME NEW r \in Edited, Covers(r, h) PROVE FALSE
  OBVIOUS
<1>1. cursor \in Nat
  BY LenProperties DEF IInv, TextOK
<1>2. r.end \in Nat /\ r.end <= cursor
  <2>1. CASE \E i \in DOMAIN includes : r = includes[i]
    BY <2>1, Typed DEF IInv, FoundOK
  <2>2. CASE \E i \in DOMAIN consumed : r = consumed[i]
    BY <2>2, Typed DEF IInv, FoundOK
  <2> QED
    BY <2>1, <2>2 DEF Edited
<1> QED
  BY <1>1, <1>2 DEF Covers

\* What an opener takes down with it lies before its terminator, if it has one.
LEMMA GoneDown ==
    ASSUME IInv, ScanOK, status \in Searching, UNCHANGED <<text, includes, consumed>>,
           NEW at \in Nat, Start < at,
           \A k \in StopsAt(Start) : \E j \in StopsAt(Start) : j <= k /\ at < j
    PROVE  Accounted(at)'
<1>1. Start \in Nat /\ cursor <= Start /\ Markers(Start) # {}
  BY OpenerIs
<1> DEFINE h == Start
<1>2. h \in Nat /\ h \in 0..(at - 1)
  BY <1>1
<1>3. ~\E r \in Edited : Covers(r, h)
  BY <1>1, NotCovered
<1>4. /\ Markers(h) # {}
      /\ \A k \in StopsAt(h) : \E j \in StopsAt(h) : j <= k /\ at < j
  BY <1>1
<1> HIDE DEF h
<1>5. PICK g \in Nat : g = h
  BY <1>2
<1>6. Markers(g)' = Markers(g) /\ StopsAt(g)' = StopsAt(g)
  BY SameText
<1>7. ~\E r \in Edited' : Covers(r, g)'
  BY <1>3, <1>5, SameEdited DEF Covers
<1>8. g \in 0..(at - 1) /\ Markers(g)' # {}
  BY <1>2, <1>4, <1>5, <1>6
<1>9. \A k \in StopsAt(g)' : \E j \in StopsAt(g)' : j <= k /\ at < j
  BY <1>4, <1>5, <1>6
<1> QED
  BY <1>7, <1>8, <1>9 DEF Accounted

LEMMA SkipRestScan == IInv /\ ScanExact /\ SkipRest => ScanExact'
<1> SUFFICES ASSUME IInv, ScanExact, SkipRest PROVE ScanExact'
  OBVIOUS
<1>1. /\ UNCHANGED <<text, includes, consumed>> /\ cursor' = Len(text)
      /\ status = "matched" /\ status' = "scanning"
      /\ Terminators(text, Marker + 1) = {}
  BY DEF SkipRest, input, found, Bounded
<1>2. status \in Searching /\ ScanOK
  BY <1>1 DEF Searching, ScanExact
<1>3. /\ Start \in Nat /\ Len(text) \in Nat /\ cursor \in Nat /\ cursor <= Len(text)
      /\ MarkerAt(Start) = Marker
      /\ \A at \in cursor..(Len(text) - 1) : Markers(at) # {} => Start <= at
  <2>1. cursor <= Len(text)
    BY DEF IInv, TextOK
  <2> QED
    BY <1>2, <2>1, OpenerIs
<1>4. StopsAt(Start) = {}
  BY <1>1, <1>3 DEF StopsAt
<1>5. ASSUME NEW at \in cursor..(Len(text) - 1), at \in Markers(at), ParsesAt(at)
      PROVE  Accounted(at)'
  <2>1. at \in Nat /\ Start <= at
    BY <1>3, <1>5
  <2>2. Start # at
    BY <1>1, <1>2, <1>5, OwnBlock
  <2>3. Start < at
    BY <1>3, <2>1, <2>2
  <2>4. \A k \in StopsAt(Start) : \E j \in StopsAt(Start) : j <= k /\ at < j
    BY <1>4
  <2> QED
    BY <1>1, <1>2, <2>1, <2>3, <2>4, GoneDown
<1>6. LostOK'
  <2>1. Edited' = Edited \cup {}
    BY <1>1, SameEdited
  <2>2. \A r \in {} : r.start \in Nat /\ cursor <= r.start
    OBVIOUS
  <2>3. \A at \in cursor..(Len(text) - 1) :
          (at \in Markers(at) /\ ParsesAt(at)) => Accounted(at)'
    BY <1>5
  <2> QED
    BY <1>1, <1>3, <2>1, <2>2, <2>3, LostStep DEF ScanExact
<1>7. QuotedLinesOnly'
  BY <1>1, SameQuoted DEF ScanExact
<1>8. ScanOK'
  BY <1>1 DEF ScanOK, Searching, Parsing
<1> QED
  BY <1>6, <1>7, <1>8 DEF ScanExact

LEMMA NotABlockScan == IInv /\ ScanExact /\ NotABlock => ScanExact'
<1> SUFFICES ASSUME IInv, ScanExact, NotABlock PROVE ScanExact'
  OBVIOUS
<1>1. /\ UNCHANGED <<text, includes, consumed>> /\ cursor' = Candidate
      /\ status \in Parsing /\ Ends = {} /\ status' = "scanning"
  BY DEF NotABlock, Refused, Scanned, input, found, Parsing
<1>2. status \in Searching /\ ScanOK /\ Terminators(text, Marker + 1) # {}
  BY <1>1 DEF Searching, ScanExact, IInv, SearchOK
<1>3. /\ Start \in Nat /\ Marker \in Nat /\ Len(text) \in Nat /\ cursor \in Nat
      /\ cursor <= Start /\ MarkerAt(Start) = Marker
      /\ \A at \in cursor..(Len(text) - 1) : Markers(at) # {} => Start <= at
  BY <1>2, OpenerIs
<1>4. Candidate \in Nat /\ Candidate > Start + 1 /\ Candidate <= Len(text)
  BY <1>2, CandidateIs
<1>5. Candidate \in StopsAt(Start) /\ \A k \in StopsAt(Start) : Candidate <= k
  <2>1. StopsAt(Start) = Terminators(text, Marker + 1)
    BY <1>3 DEF StopsAt
  <2>2. Terminators(text, Marker + 1) \in SUBSET Nat
    BY <1>3 DEF Terminators
  <2> QED
    BY <1>2, <2>1, <2>2, LeastIs DEF Candidate
<1> DEFINE to == Candidate
<1>6. ASSUME NEW at \in cursor..(to - 1), at \in Markers(at), ParsesAt(at)
      PROVE  Accounted(at)'
  <2>1. at \in Nat /\ at \in cursor..(Len(text) - 1) /\ at < Candidate
    BY <1>3, <1>4
  <2>2. Start <= at
    BY <1>3, <1>6, <2>1
  <2>3. Start # at
    BY <1>1, <1>2, <1>6, OwnBlock
  <2>4. Start < at
    BY <1>3, <2>1, <2>2, <2>3
  <2>5. \A k \in StopsAt(Start) : \E j \in StopsAt(Start) : j <= k /\ at < j
    BY <1>5, <2>1
  <2> QED
    BY <1>1, <1>2, <2>1, <2>4, <2>5, GoneDown
<1>7. LostOK'
  <2>1. Edited' = Edited \cup {}
    BY <1>1, SameEdited
  <2>2. \A r \in {} : r.start \in Nat /\ cursor <= r.start
    OBVIOUS
  <2>3. to \in Nat /\ cursor' = to /\ cursor <= to
    BY <1>1, <1>3, <1>4
  <2>4. \A at \in cursor..(to - 1) :
          (at \in Markers(at) /\ ParsesAt(at)) => Accounted(at)'
    BY <1>6
  <2> HIDE DEF to
  <2> QED
    BY <1>1, <2>1, <2>2, <2>3, <2>4, LostStep DEF ScanExact
<1>8. QuotedLinesOnly'
  BY <1>1, SameQuoted DEF ScanExact
<1>9. ScanOK'
  BY <1>1 DEF ScanOK, Searching, Parsing
<1> QED
  BY <1>7, <1>8, <1>9 DEF ScanExact

\* A block found: what lies before its end is part of it.
LEMMA FoundLost ==
    ASSUME IInv, ScanExact, status \in Parsing, text' = text,
           NEW e \in Ends, cursor' = e, NEW r, r.start = Start, r.end = e,
           Edited' = Edited \cup {r}
    PROVE  LostOK'
<1>1. status \in Searching /\ ScanOK
  BY DEF Searching, ScanExact
<1>2. /\ Start \in Nat /\ Len(text) \in Nat /\ cursor \in Nat /\ cursor <= Start
      /\ \A at \in cursor..(Len(text) - 1) : Markers(at) # {} => Start <= at
  BY <1>1, OpenerIs
<1>3. e \in Nat /\ Start < e /\ e <= Len(text)
  BY EndsAfter
<1>4. ASSUME NEW at \in cursor..(e - 1), at \in Markers(at), ParsesAt(at)
      PROVE  Accounted(at)'
  <2>1. at \in cursor..(Len(text) - 1) /\ at < e
    BY <1>2, <1>3
  <2>2. Start <= at
    BY <1>2, <1>4, <2>1
  <2>3. Covers(r, at)
    BY <2>1, <2>2 DEF Covers
  <2>4. r \in Edited'
    OBVIOUS
  <2> QED
    BY <2>3, <2>4 DEF Accounted, Covers
<1>5. \A q \in {r} : q.start \in Nat /\ cursor <= q.start
  BY <1>2
<1>6. cursor <= e
  BY <1>2, <1>3
<1>7. \A at \in cursor..(e - 1) : (at \in Markers(at) /\ ParsesAt(at)) => Accounted(at)'
  BY <1>4
<1> DEFINE New == {r}
<1>8. Edited' = Edited \cup New /\ \A q \in New : q.start \in Nat /\ cursor <= q.start
  BY <1>5
<1>9. e \in Nat /\ cursor' = e /\ LostOK
  BY <1>3 DEF ScanExact
<1> HIDE DEF New
<1> QED
  BY <1>6, <1>7, <1>8, <1>9, LostStep

LEMMA FoundPlainScan == IInv /\ ScanExact /\ FoundPlain => ScanExact'
<1> SUFFICES ASSUME IInv, ScanExact, FoundPlain PROVE ScanExact'
  OBVIOUS
<1>1. PICK e \in Ends : Include(e) /\ cursor' = e
  BY DEF FoundPlain
<1>2. /\ UNCHANGED <<text, consumed>> /\ status = "plain" /\ status' = "scanning"
  BY DEF FoundPlain, Scanned, input
<1> DEFINE r == [start |-> Start, end |-> e, page |-> Target(blockText.tokens)]
<1>3. includes' = Append(includes, r) /\ r.start = Start /\ r.end = e
  BY <1>1 DEF Include
<1>4. r \in Block
  <2>1. e \in Nat /\ Start \in Nat
    BY <1>2, EndsAfter DEF Parsing
  <2>2. Target(blockText.tokens) \in Seq(Token)
    BY <1>2, TargetIs DEF IInv, SearchOK
  <2> QED
    BY <2>1, <2>2 DEF Block
<1> HIDE DEF r
<1>5. Edited' = Edited \cup {r}
  <2> DEFINE n == Len(includes)
  <2>1. /\ includes' \in Seq(Block) /\ Len(includes') = n + 1 /\ n \in Nat
        /\ \A i \in 1..n : includes'[i] = includes[i]
        /\ includes'[n + 1] = r
    BY <1>3, <1>4, AppendProperties, LenProperties DEF IInv, FoundOK
  <2>2. DOMAIN includes' = 1..(n + 1) /\ DOMAIN includes = 1..n
    BY <2>1, LenProperties DEF IInv, FoundOK
  <2> HIDE DEF n
  <2>3. {includes'[i] : i \in 1..(n + 1)} = {includes[i] : i \in 1..n} \cup {r}
    <3>1. \A i \in 1..(n + 1) : i \in 1..n \/ i = n + 1
      BY <2>1
    <3>2. \A i \in 1..n : i \in 1..(n + 1)
      BY <2>1
    <3>3. n + 1 \in 1..(n + 1)
      BY <2>1
    <3> QED
      BY <2>1, <3>1, <3>2, <3>3
  <2> QED
    BY <1>2, <2>2, <2>3 DEF Edited
<1>6. LostOK'
  <2>1. status \in Parsing /\ text' = text /\ cursor' = e
    BY <1>1, <1>2 DEF Parsing
  <2> QED
    BY <1>3, <1>5, <2>1, FoundLost
<1>7. QuotedLinesOnly'
  BY <1>2, SameQuoted DEF ScanExact
<1>8. ScanOK'
  BY <1>2 DEF ScanOK, Searching, Parsing
<1> QED
  BY <1>6, <1>7, <1>8 DEF ScanExact

\* A quoted block found has lines of its own quotes only.
LEMMA QuotedLines ==
    ASSUME IInv, ScanOK, status \in {"lines", "region"}, NEW e \in Ends
    PROVE  /\ EndsBlock(text, e)
           /\ \A at \in Start..(e - 1) :
                LineStart(at) => /\ at + (MarkerAt(Start) - Start) < e
                                 /\ Quotes(at, at + (MarkerAt(Start) - Start))
<1> DEFINE depth == Marker - Start
<1>1. status \in Searching /\ status \in Parsing
  BY DEF Searching, Parsing
<1>2. /\ text \in Seq(Token) /\ Start \in Nat /\ Marker \in Nat /\ Len(text) \in Nat
      /\ Start < Len(text) /\ MarkerAt(Start) = Marker /\ Marker \in Markers(Start)
  BY <1>1, OpenerIs DEF IInv, TextOK
<1>3. Start <= Marker /\ Quotes(Start, Marker)
  BY <1>2 DEF Markers
<1>4. depth \in Nat /\ Start + depth = Marker
  BY <1>2, <1>3
<1>5. PICK bound : /\ blockText.kept = Kept(Start, depth, bound)
                   /\ blockText.tokens = Normalized(blockText.kept)
  BY DEF ScanOK
<1> HIDE DEF depth
<1> DEFINE K == blockText.kept
<1>6. PICK i \in BlockEnds(Normalized(K)) : e \in Original(K, i)
  BY <1>5 DEF Ends
<1>7. K = Kept(Start, depth, bound)
  BY <1>5
<1> HIDE DEF K
<1>8. /\ EndsBlock(text, e)
      /\ e \in (Start + 1)..RegionEnd(Start, depth, bound)
      /\ \A at \in Start..(e - 1) : LineStart(at) => e > at + depth
  BY <1>2, <1>4, <1>6, <1>7, QuotedEnd
<1>9. /\ RegionEnd(Start, depth, bound) \in (Start + 1)..Len(text)
      /\ \A at \in (Start + 1)..(RegionEnd(Start, depth, bound) - 1) :
           LineStart(at) => Prefixed(at, depth)
  BY <1>2, RegionIs
<1>10. ASSUME NEW at \in Start..(e - 1), LineStart(at)
       PROVE  at + depth < e /\ Quotes(at, at + depth)
  <2>1. at \in Nat /\ e \in Nat /\ Start <= at /\ at < e
    BY <1>2, <1>8
  <2>2. at + depth < e
    BY <1>4, <1>8, <1>10, <2>1
  <2>3. CASE at = Start
    BY <1>3, <1>4, <2>2, <2>3
  <2>4. CASE at # Start
    <3>1. at \in (Start + 1)..(RegionEnd(Start, depth, bound) - 1)
      BY <1>2, <1>8, <1>9, <2>1, <2>4
    <3>2. Prefixed(at, depth)
      BY <1>9, <1>10, <3>1
    <3> QED
      BY <2>2, <3>2 DEF Prefixed
  <2> QED
    BY <2>3, <2>4
<1> QED
  BY <1>2, <1>8, <1>10 DEF depth

LEMMA FoundQuotedScan == IInv /\ ScanExact /\ FoundQuoted => ScanExact'
<1> SUFFICES ASSUME IInv, ScanExact, FoundQuoted PROVE ScanExact'
  OBVIOUS
<1> DEFINE R(e) == [start |-> Start, end |-> e]
<1>1. PICK e \in Ends : consumed' = Append(consumed, R(e)) /\ cursor' = e
  BY DEF FoundQuoted
<1>2. /\ UNCHANGED <<text, includes>>
      /\ status \in {"lines", "region"} /\ status' = "scanning"
  BY DEF FoundQuoted, Scanned, input
<1> DEFINE r == R(e)
<1>3. consumed' = Append(consumed, r) /\ r.start = Start /\ r.end = e
  BY <1>1
<1>4. r \in Quote
  <2>1. e \in Nat /\ Start \in Nat
    BY <1>2, EndsAfter DEF Parsing
  <2> QED
    BY <2>1 DEF Quote
<1> HIDE DEF r
<1> DEFINE n == Len(consumed)
<1>5. /\ n \in Nat /\ DOMAIN consumed' = 1..(n + 1) /\ DOMAIN consumed = 1..n
      /\ \A i \in 1..n : consumed'[i] = consumed[i]
      /\ consumed'[n + 1] = r
  <2>1. /\ consumed' \in Seq(Quote) /\ Len(consumed') = n + 1 /\ n \in Nat
        /\ \A i \in 1..n : consumed'[i] = consumed[i]
        /\ consumed'[n + 1] = r
    BY <1>3, <1>4, AppendProperties, LenProperties DEF IInv, FoundOK
  <2>2. DOMAIN consumed' = 1..(n + 1) /\ DOMAIN consumed = 1..n
    BY <2>1, LenProperties DEF IInv, FoundOK
  <2> QED
    BY <2>1, <2>2
<1> HIDE DEF n
<1>6. /\ \A i \in 1..(n + 1) : i \in 1..n \/ i = n + 1
      /\ \A i \in 1..n : i \in 1..(n + 1)
      /\ n + 1 \in 1..(n + 1)
  BY <1>5
<1>7. Edited' = Edited \cup {r}
  <2>1. {consumed'[i] : i \in 1..(n + 1)} = {consumed[i] : i \in 1..n} \cup {r}
    BY <1>5, <1>6
  <2> QED
    BY <1>2, <1>5, <2>1 DEF Edited
<1>8. LostOK'
  <2>1. status \in Parsing /\ text' = text /\ cursor' = e
    BY <1>1, <1>2 DEF Parsing
  <2> QED
    BY <1>3, <1>7, <2>1, FoundLost
<1>9. QuotedLinesOnly'
  <2> DEFINE Lines(q) == /\ EndsBlock(text, q.end)
                         /\ \A at \in q.start..(q.end - 1) :
                              LineStart(at) =>
                                /\ at + (MarkerAt(q.start) - q.start) < q.end
                                /\ Quotes(at, at + (MarkerAt(q.start) - q.start))
  <2>1. \A i \in DOMAIN consumed : Lines(consumed[i])
    BY DEF ScanExact, QuotedLinesOnly
  <2>2. Lines(r)
    BY <1>2, <1>3, QuotedLines DEF ScanExact
  <2> HIDE DEF Lines
  <2>3. \A i \in DOMAIN consumed' : Lines(consumed'[i])
    BY <1>5, <1>6, <2>1, <2>2
  <2>4. \A q : Lines(q)' <=> Lines(q)
    <3>1. \A at : EndsBlock(text, at)' <=> EndsBlock(text, at)
      BY <1>2 DEF EndsBlock
    <3> QED
      BY <1>2, <3>1, SameText DEF Lines
  <2>5. \A i \in DOMAIN consumed' : Lines(consumed[i])'
    <3>1. \A i \in DOMAIN consumed' : Lines(consumed[i])' <=> Lines(consumed'[i])
      BY <1>2 DEF Lines, EndsBlock, LineStart, Quotes, MarkerAt, Markers
    <3> QED
      BY <2>3, <3>1
  <2> QED
    BY <2>5 DEF QuotedLinesOnly, Lines
<1>10. ScanOK'
  BY <1>2 DEF ScanOK, Searching, Parsing
<1> QED
  BY <1>8, <1>9, <1>10 DEF ScanExact

LEMMA NextScan == IInv /\ ScanExact /\ [IncludesNext]_includesVars => ScanExact'
<1> SUFFICES ASSUME IInv, ScanExact, [IncludesNext]_includesVars PROVE ScanExact'
  OBVIOUS
<1> DEFINE Idle == UNCHANGED <<text, cursor, includes, consumed>> /\ status' \notin Searching
<1>1. Idle => ScanExact'
  BY IdleScan
<1>2. CASE Disabled
  <2>1. Idle
    BY <1>2 DEF Disabled, input, found, Searching, Parsing
  <2> QED
    BY <1>1, <2>1
<1>3. CASE FindOpener
  BY <1>3, FindOpenerScan
<1>4. CASE SkipRest
  BY <1>4, SkipRestScan
<1>5. CASE TakePlain
  BY <1>5, TakePlainScan
<1>6. CASE TakeLines
  BY <1>6, TakeLinesScan
<1>7. CASE TakeRegion
  BY <1>7, TakeRegionScan
<1>8. CASE FoundPlain
  BY <1>8, FoundPlainScan
<1>9. CASE FoundQuoted
  BY <1>9, FoundQuotedScan
<1>10. CASE NotABlock
  BY <1>10, NotABlockScan
<1>11. CASE FetchFails \/ FetchMiscounts \/ FetchAnswers
  <2>1. Idle
    BY <1>11 DEF FetchFails, FetchMiscounts, FetchAnswers, Substitutes, Answered, input,
                found, Searching, Parsing
  <2> QED
    BY <1>1, <2>1
<1>12. CASE DropQuoted \/ OtherPage \/ NoSuchIncludeFails \/ IncludePage \/ Finish
  <2>1. Idle
    BY <1>12 DEF DropQuoted, OtherPage, NoSuchIncludeFails, IncludePage, Finish,
                Substituting, Substituted, input, found, Searching, Parsing
  <2> QED
    BY <1>1, <2>1
<1>13. CASE UNCHANGED includesVars
  <2>1. UNCHANGED <<text, cursor, match, blockText, includes, consumed, status>>
    BY <1>13 DEF includesVars, input, found
  <2>2. Start' = Start /\ Marker' = Marker
    BY <2>1 DEF Start, Marker
  <2>3. Matches' = Matches /\ Markers(Start)' = Markers(Start) /\ Candidate' = Candidate
    <3>1. Markers(Start)' = Markers(Start)
      BY <2>1, <2>2 DEF Markers, Quotes, LineStart
    <3> QED
      BY <2>1, <2>2, <3>1, SameText DEF Matches, Candidate
  <2>4. Normalized(blockText.kept)' = Normalized(blockText.kept)
    BY <2>1 DEF Normalized
  <2>5. \A b : Kept(Start, Marker - Start, b)' = Kept(Start, Marker - Start, b)
    <3>1. \A a, d, b : RegionEnd(a, d, b)' = RegionEnd(a, d, b)
      BY <2>1 DEF RegionEnd, LineStart, Prefixed, Quotes
    <3>2. \A a, d, b : Kept(a, d, b)' = Kept(a, d, b)
      BY <2>1, <3>1 DEF Kept, LineStart
    <3> QED
      BY <2>1, <2>2, <3>2 DEF Start, Marker
  <2>6. ScanOK'
    BY <2>1, <2>2, <2>3, <2>4, <2>5 DEF ScanExact, ScanOK
  <2> QED
    BY <2>1, <2>6, SameFound DEF ScanExact
<1> QED
  BY <1>2, <1>3, <1>4, <1>5, <1>6, <1>7, <1>8, <1>9, <1>10, <1>11, <1>12, <1>13 DEF IncludesNext

\* For every text: a quoted include goes with lines of its own quotes and with nothing
\* after its terminator; and when the pages are asked for, every include is among the
\* ranges, in one of them, or went down with a malformed opener before it.
THEOREM NothingLost == IncludesSpec => []IncludesExact
<1>1. IInv /\ ScanExact => IncludesExact
  <2> SUFFICES ASSUME IInv, ScanExact, Asked,
                      NEW at \in 0..(Len(text) - 1), at \in Markers(at), ParsesAt(at)
               PROVE  Accounted(at)
    BY DEF IncludesExact, NoneLost, ScanExact
  <2>1. cursor \in Nat /\ Len(text) \in Nat
    BY LenProperties DEF IInv, TextOK
  <2>2. ~(at >= cursor)
    <3>1. at >= cursor => at \in cursor..(Len(text) - 1)
      BY <2>1
    <3>2. at \notin Matches
      BY DEF Asked
    <3> QED
      BY <3>1, <3>2 DEF Matches
  <2>3. at \in 0..(cursor - 1)
    BY <2>1, <2>2
  <2> QED
    BY <2>3 DEF ScanExact, LostOK
<1>2. IncludesSpec => []ScanExact
  BY InitScan, NextScan, Invariance, PTL DEF IncludesSpec
<1> QED
  BY <1>1, <1>2, Invariance, PTL

-----------------------------------------------------------------------------
(* Texts put together *)

\* A set of numbers that holds 0 and the successor of each of its numbers holds them all.
LEMMA Induct ==
    ASSUME NEW S \in SUBSET Nat, 0 \in S, \A n \in S : n + 1 \in S
    PROVE  S = Nat
<1> SUFFICES ASSUME Nat \ S # {} PROVE FALSE
  OBVIOUS
<1> DEFINE T == Nat \ S
<1>1. T \in SUBSET Nat /\ T # {}
  OBVIOUS
<1> DEFINE x == Least(T)
<1>2. x \in T /\ \A j \in T : x <= j
  <2> HIDE DEF T
  <2> QED
    BY <1>1, LeastIs
<1> HIDE DEF x
<1>3. x \in Nat /\ x \notin S /\ x # 0
  BY <1>2
<1>4. x - 1 \in Nat /\ ~(x <= x - 1) /\ (x - 1) + 1 = x
  BY <1>3
<1>5. x - 1 \in S
  BY <1>2, <1>4
<1> QED
  BY <1>3, <1>4, <1>5

LEMMA TokensAssociative ==
    ASSUME NEW s \in Seq(Token), NEW t \in Seq(Token), NEW u \in Seq(Token)
    PROVE  (s \o t) \o u = s \o (t \o u)
BY ConcatAssociative

\* From puts the parts together one by one.
LEMMA FromSteps ==
    ASSUME NEW parts, Len(parts) \in Nat
    PROVE  /\ From(parts)[Len(parts) + 1] = << >>
           /\ \A k \in 1..Len(parts) : From(parts)[k] = parts[k] \o From(parts)[k + 1]
<1> DEFINE z == Len(parts)
           B(f, k) == IF k > z THEN << >> ELSE parts[k] \o f[k + 1]
           S == {m \in Nat : \E f : \A k \in 1..(z + 1) : k + m > z => f[k] = B(f, k)}
<1>0. z \in Nat
  OBVIOUS
<1>1. \A f : B(f, z + 1) = << >>
  BY <1>0
<1>2. \A f : \A k \in 1..z : B(f, k) = parts[k] \o f[k + 1]
  <2> SUFFICES ASSUME NEW f, NEW k \in 1..z PROVE B(f, k) = parts[k] \o f[k + 1]
    OBVIOUS
  <2>1. ~(k > z)
    BY <1>0
  <2> QED
    BY <2>1
<1>3. \A f, g : \A k \in 1..(z + 1) :
        (k + 1 \in 1..(z + 1) => f[k + 1] = g[k + 1]) => B(f, k) = B(g, k)
  <2> SUFFICES ASSUME NEW f, NEW g, NEW k \in 1..(z + 1),
                      k + 1 \in 1..(z + 1) => f[k + 1] = g[k + 1]
               PROVE  B(f, k) = B(g, k)
    OBVIOUS
  <2>1. CASE k = z + 1
    BY <1>1, <2>1
  <2>2. CASE k # z + 1
    <3>1. k \in 1..z /\ k + 1 \in 1..(z + 1)
      BY <1>0, <2>2
    <3> QED
      BY <1>2, <3>1
  <2> QED
    BY <2>1, <2>2
<1> HIDE DEF B
<1>4. 0 \in S
  <2> DEFINE g == [k \in 1..(z + 1) |-> << >>]
  <2>1. ASSUME NEW k \in 1..(z + 1), k + 0 > z PROVE g[k] = B(g, k)
    <3>1. k = z + 1
      BY <1>0, <2>1
    <3> QED
      BY <1>1, <3>1
  <2> HIDE DEF g
  <2> QED
    BY <2>1
<1>5. ASSUME NEW m \in S PROVE m + 1 \in S
  <2>1. PICK f : \A k \in 1..(z + 1) : k + m > z => f[k] = B(f, k)
    OBVIOUS
  <2> DEFINE g == [k \in 1..(z + 1) |-> IF k + m > z THEN f[k] ELSE B(f, k)]
  <2>2. \A k \in 1..(z + 1) : g[k] = B(f, k)
    BY <2>1
  <2>3. \A k \in 1..(z + 1) : k + m > z => g[k] = f[k]
    OBVIOUS
  <2> HIDE DEF g
  <2>4. ASSUME NEW k \in 1..(z + 1), k + (m + 1) > z PROVE g[k] = B(g, k)
    <3>1. m \in Nat /\ k \in Nat
      OBVIOUS
    <3>2. (k + 1) + m > z
      BY <1>0, <2>4, <3>1
    <3>3. k + 1 \in 1..(z + 1) => f[k + 1] = g[k + 1]
      BY <2>3, <3>2
    <3>4. B(f, k) = B(g, k)
      BY <1>3, <3>3
    <3> QED
      BY <2>2, <3>4
  <2>5. m + 1 \in Nat
    OBVIOUS
  <2> QED
    BY <2>4, <2>5
<1>6. z \in S
  <2>1. S \in SUBSET Nat
    OBVIOUS
  <2> HIDE DEF S
  <2>2. S = Nat
    BY <1>4, <1>5, <2>1, Induct
  <2> QED
    BY <1>0, <2>2
<1>7. PICK f : \A k \in 1..(z + 1) : f[k] = B(f, k)
  <2>1. PICK f : \A k \in 1..(z + 1) : k + z > z => f[k] = B(f, k)
    BY <1>6
  <2>2. \A k \in 1..(z + 1) : k + z > z
    BY <1>0
  <2> QED
    BY <2>1, <2>2
<1> DEFINE g == [k \in 1..(z + 1) |-> f[k]]
<1>8. g = [k \in 1..(z + 1) |-> B(g, k)]
  <2>1. \A k \in 1..(z + 1) : k + 1 \in 1..(z + 1) => f[k + 1] = g[k + 1]
    OBVIOUS
  <2>2. \A k \in 1..(z + 1) : B(f, k) = B(g, k)
    BY <1>3, <2>1
  <2> QED
    BY <1>7, <2>2
<1> DEFINE h == CHOOSE h : h = [k \in 1..(z + 1) |-> B(h, k)]
<1>9. From(parts) = h
  BY DEF From, B
<1> HIDE DEF g
<1>10. h = [k \in 1..(z + 1) |-> B(h, k)]
  BY <1>8
<1> HIDE DEF h
<1>11. \A k \in 1..(z + 1) : h[k] = B(h, k)
  BY <1>10
<1>12. h[z + 1] = << >>
  BY <1>0, <1>1, <1>11
<1>13. \A k \in 1..z : h[k] = parts[k] \o h[k + 1]
  <2>1. \A k \in 1..z : k \in 1..(z + 1)
    BY <1>0
  <2> QED
    BY <1>2, <1>11, <2>1
<1> QED
  BY <1>9, <1>12, <1>13

LEMMA FromIs ==
    ASSUME NEW parts, Len(parts) \in Nat, \A k \in 1..Len(parts) : parts[k] \in Seq(Token)
    PROVE  /\ From(parts)[Len(parts) + 1] = << >>
           /\ \A k \in 1..Len(parts) : From(parts)[k] = parts[k] \o From(parts)[k + 1]
           /\ \A k \in 1..(Len(parts) + 1) : From(parts)[k] \in Seq(Token)
<1> DEFINE z == Len(parts)
           h == From(parts)
<1>0. z \in Nat
  OBVIOUS
<1>12. h[z + 1] = << >> /\ \A k \in 1..z : h[k] = parts[k] \o h[k + 1]
  BY FromSteps
<1> HIDE DEF h
<1>14. \A k \in 1..(z + 1) : h[k] \in Seq(Token)
  <2> DEFINE U == {m \in Nat : m <= z => h[z + 1 - m] \in Seq(Token)}
  <2>1. 0 \in U
    <3>1. z + 1 - 0 = z + 1 /\ << >> \in Seq(Token)
      BY <1>0
    <3> QED
      BY <1>12, <3>1
  <2>2. ASSUME NEW m \in U PROVE m + 1 \in U
    <3>1. SUFFICES ASSUME m + 1 <= z PROVE h[z + 1 - (m + 1)] \in Seq(Token)
      OBVIOUS
    <3>2. m \in Nat /\ z + 1 - (m + 1) \in 1..z /\ (z + 1 - (m + 1)) + 1 = z + 1 - m /\ m <= z
      BY <1>0, <3>1
    <3>3. h[z + 1 - m] \in Seq(Token)
      BY <3>2
    <3>4. parts[z + 1 - (m + 1)] \in Seq(Token)
      BY <3>2
    <3>5. h[z + 1 - (m + 1)] = parts[z + 1 - (m + 1)] \o h[z + 1 - m]
      BY <1>12, <3>2
    <3> QED
      BY <3>3, <3>4, <3>5, ConcatProperties
  <2>3. U = Nat
    <3>1. U \in SUBSET Nat
      OBVIOUS
    <3> HIDE DEF U
    <3> QED
      BY <2>1, <2>2, <3>1, Induct
  <2>4. ASSUME NEW k \in 1..(z + 1) PROVE h[k] \in Seq(Token)
    <3>1. z + 1 - k \in Nat /\ z + 1 - k <= z /\ z + 1 - (z + 1 - k) = k
      BY <1>0
    <3>2. z + 1 - k \in U
      BY <2>3, <3>1
    <3> QED
      BY <3>1, <3>2
  <2> QED
    BY <2>4
<1> QED
  BY <1>12, <1>14 DEF h

-----------------------------------------------------------------------------
(* What each token becomes *)

LEMMA EditsTyped ==
    ASSUME EditsAll, status = "substituting"
    PROVE  /\ DOMAIN edits = 1..Len(edits) /\ Len(edits) \in Nat
           /\ \A n \in DOMAIN edits :
                /\ edits[n].start \in Nat /\ edits[n].end \in Nat
                /\ edits[n].start < edits[n].end /\ edits[n].end <= Len(text)
                /\ edits[n].answer \in Answer \cup {"quoted"}
           /\ \A n, m \in DOMAIN edits : n < m => edits[n].end <= edits[m].start
<1>1. edits \in Seq(Replacement)
  BY DEF EditsAll
<1>2. DOMAIN edits = 1..Len(edits) /\ Len(edits) \in Nat
  BY <1>1, LenProperties
<1>3. \A n \in 1..Len(edits) : edits[n] \in Replacement
  BY <1>1, ElementOfSeq
<1> QED
  BY <1>2, <1>3 DEF Replacement, EditsAll

\* The ranges found are those of the edits.
LEMMA CoveredIs ==
    ASSUME EditsAll, status = "substituting", NEW k
    PROVE  (\E r \in Edited : Covers(r, k)) <=> (\E n \in DOMAIN edits : Covers(edits[n], k))
<1>1. \A r, q : SameRange(r, q) => (Covers(r, k) <=> Covers(q, k))
  BY DEF SameRange, Covers
<1>2. ASSUME NEW n \in DOMAIN edits, Covers(edits[n], k)
      PROVE  \E r \in Edited : Covers(r, k)
  <2>1. \/ \E i \in DOMAIN consumed : SameRange(edits[n], consumed[i])
        \/ \E i \in DOMAIN includes : SameRange(edits[n], includes[i])
    BY EditsTyped DEF EditsAll
  <2> QED
    BY <1>1, <1>2, <2>1 DEF Edited
<1>3. ASSUME NEW r \in Edited, Covers(r, k)
      PROVE  \E n \in DOMAIN edits : Covers(edits[n], k)
  <2>1. \E n \in DOMAIN edits : SameRange(edits[n], r)
    BY EditsTyped DEF EditsAll, Edited
  <2> QED
    BY <1>1, <1>3, <2>1
<1> QED
  BY <1>2, <1>3

\* No two edits have a token in common.
LEMMA OneEdit ==
    ASSUME EditsAll, status = "substituting", NEW n \in DOMAIN edits, NEW m \in DOMAIN edits,
           NEW k \in Nat, Covers(edits[n], k), Covers(edits[m], k)
    PROVE  n = m
<1>1. n \in Nat /\ m \in Nat
  BY EditsTyped
<1>2. /\ edits[n].start \in Nat /\ edits[n].end \in Nat
      /\ edits[m].start \in Nat /\ edits[m].end \in Nat
  BY EditsTyped
<1>3. ~(n < m)
  BY <1>2, EditsTyped DEF Covers
<1>4. ~(m < n)
  BY <1>2, EditsTyped DEF Covers
<1> QED
  BY <1>1, <1>3, <1>4

\* Each edit starts at a token it covers.
LEMMA StartCovered ==
    ASSUME EditsAll, status = "substituting", NEW n \in DOMAIN edits
    PROVE  Covers(edits[n], edits[n].start)
BY EditsTyped DEF Covers

LEMMA BecomesPage ==
    ASSUME text \in Seq(Token), EditsAll, status = "substituting",
           NEW n \in DOMAIN edits, Printed(n)
    PROVE  Becomes(edits[n].start + 1) = Separated(edits[n], With(edits[n].answer))
<1> DEFINE k == edits[n].start + 1
           showing == {m \in DOMAIN edits : edits[m].start = k - 1 /\ Printed(m)}
           with == IF edits[n].answer = "text" THEN Page ELSE NoPage
<1>1. edits[n].start \in Nat /\ edits[n].end \in Nat /\ k - 1 = edits[n].start
  BY EditsTyped
<1>2. showing = {n}
  <2>1. n \in showing
    BY <1>1
  <2>2. ASSUME NEW m \in showing PROVE m = n
    <3>1. m \in DOMAIN edits /\ edits[m].start = edits[n].start
      BY <1>1
    <3>2. Covers(edits[m], edits[n].start) /\ Covers(edits[n], edits[n].start)
      BY <3>1, StartCovered
    <3> QED
      BY <1>1, <3>1, <3>2, OneEdit
  <2> QED
    BY <2>1, <2>2
<1>3. (CHOOSE m \in showing : TRUE) = n
  BY <1>2
<1>4. Becomes(k) = Separators(edits[n])[1] \o with \o Separators(edits[n])[2]
  BY <1>2, <1>3 DEF Becomes
<1>5. with = With(edits[n].answer) /\ with # << >>
  BY DEF Printed, With
<1>6. Separators(edits[n])[1] = IF edits[n].start > 0 THEN <<"nl">> ELSE << >>
  BY <1>1 DEF Separators
<1>7. Separators(edits[n])[2] = IF edits[n].end < Len(text) THEN <<"nl">> ELSE << >>
  <2>1. edits[n].end <= Len(text) /\ Len(text) \in Nat
    BY EditsTyped, LenProperties
  <2> QED
    BY <1>1, <2>1 DEF Separators
<1> HIDE DEF with, k
<1> QED
  BY <1>4, <1>5, <1>6, <1>7 DEF Separated, k

\* What an edit covers and does not print goes.
LEMMA BecomesNone ==
    ASSUME EditsAll, status = "substituting", NEW n \in DOMAIN edits, NEW k \in Nat \ {0},
           Covers(edits[n], k - 1), k - 1 = edits[n].start => ~Printed(n)
    PROVE  Becomes(k) = << >>
<1> DEFINE showing == {m \in DOMAIN edits : edits[m].start = k - 1 /\ Printed(m)}
<1>1. k - 1 \in Nat
  OBVIOUS
<1>2. showing = {}
  <2> SUFFICES ASSUME NEW m \in showing PROVE FALSE
    OBVIOUS
  <2>1. m \in DOMAIN edits /\ edits[m].start = k - 1 /\ Printed(m)
    OBVIOUS
  <2>2. Covers(edits[m], k - 1)
    BY <2>1, StartCovered
  <2>3. m = n
    BY <1>1, <2>1, <2>2, OneEdit
  <2> QED
    BY <2>1, <2>3
<1>3. \E r \in Edited : Covers(r, k - 1)
  BY CoveredIs
<1> QED
  BY <1>2, <1>3 DEF Becomes

\* What no edit covers stays.
LEMMA BecomesItself ==
    ASSUME EditsAll, status = "substituting", NEW k \in Nat \ {0},
           \A n \in DOMAIN edits : ~Covers(edits[n], k - 1)
    PROVE  Becomes(k) = <<text[k]>>
<1> DEFINE showing == {m \in DOMAIN edits : edits[m].start = k - 1 /\ Printed(m)}
<1>1. showing = {}
  BY StartCovered
<1>2. ~\E r \in Edited : Covers(r, k - 1)
  BY CoveredIs
<1> QED
  BY <1>1, <1>2 DEF Becomes

\* What an edit becomes is a text.
LEMMA SeparatedIs ==
    ASSUME NEW edit, NEW with \in Seq(Token)
    PROVE  Separated(edit, with) \in Seq(Token)
<1>1. <<"nl">> \in Seq(Token) /\ << >> \in Seq(Token)
  BY DEF Token
<1> QED
  BY <1>1, ConcatProperties DEF Separated

LEMMA PartsAre ==
    ASSUME text \in Seq(Token), EditsAll, status = "substituting"
    PROVE  /\ Len(Parts) = Len(text) /\ Len(text) \in Nat
           /\ \A k \in 1..Len(text) : Parts[k] = Becomes(k) /\ Becomes(k) \in Seq(Token)
<1>1. Len(text) \in Nat /\ \A k \in 1..Len(text) : text[k] \in Token
  BY LenProperties, ElementOfSeq
<1>2. Len(Parts) = Len(text) /\ \A k \in 1..Len(text) : Parts[k] = Becomes(k)
  BY <1>1 DEF Parts
<1>3. ASSUME NEW k \in 1..Len(text) PROVE Becomes(k) \in Seq(Token)
  <2>1. k \in Nat \ {0}
    BY <1>1
  <2>2. CASE \A n \in DOMAIN edits : ~Covers(edits[n], k - 1)
    <3>1. Becomes(k) = <<text[k]>>
      BY <2>1, <2>2, BecomesItself
    <3> QED
      BY <1>1, <3>1
  <2>3. ASSUME NEW n \in DOMAIN edits, Covers(edits[n], k - 1)
        PROVE  Becomes(k) \in Seq(Token)
    <3>1. CASE k - 1 = edits[n].start /\ Printed(n)
      <4>1. edits[n].start + 1 = k
        BY <2>1, <3>1
      <4>2. Becomes(k) = Separated(edits[n], With(edits[n].answer))
        BY <3>1, <4>1, BecomesPage
      <4>3. With(edits[n].answer) \in Seq(Token)
        BY <3>1, IncludesAssumption DEF Printed, With
      <4> QED
        BY <4>2, <4>3, SeparatedIs
    <3>2. CASE ~(k - 1 = edits[n].start /\ Printed(n))
      <4>1. Becomes(k) = << >>
        BY <2>1, <2>3, <3>2, BecomesNone
      <4>2. << >> \in Seq(Token)
        OBVIOUS
      <4> QED
        BY <4>1, <4>2
    <3> QED
      BY <3>1, <3>2
  <2> QED
    BY <2>2, <2>3
<1> QED
  BY <1>1, <1>2, <1>3

\* From on the parts of a text.
LEMMA FromParts ==
    ASSUME text \in Seq(Token), EditsAll, status = "substituting"
    PROVE  /\ From(Parts)[Len(text) + 1] = << >>
           /\ \A k \in 1..Len(text) : From(Parts)[k] = Becomes(k) \o From(Parts)[k + 1]
           /\ \A k \in 1..(Len(text) + 1) : From(Parts)[k] \in Seq(Token)
<1> DEFINE parts == Parts
<1>1. /\ Len(parts) = Len(text) /\ Len(text) \in Nat
      /\ \A k \in 1..Len(text) : parts[k] = Becomes(k)
      /\ \A k \in 1..Len(text) : parts[k] \in Seq(Token)
  BY PartsAre
<1> HIDE DEF parts
<1>2. /\ From(parts)[Len(parts) + 1] = << >>
      /\ \A k \in 1..Len(parts) : From(parts)[k] = parts[k] \o From(parts)[k + 1]
      /\ \A k \in 1..(Len(parts) + 1) : From(parts)[k] \in Seq(Token)
  BY <1>1, FromIs
<1>3. /\ From(parts)[Len(text) + 1] = << >>
      /\ \A k \in 1..Len(text) : From(parts)[k] = Becomes(k) \o From(parts)[k + 1]
      /\ \A k \in 1..(Len(text) + 1) : From(parts)[k] \in Seq(Token)
  BY <1>1, <1>2
<1> QED
  BY <1>3 DEF parts

\* What is not covered may be replaced by itself or left alone.
LEMMA Gap ==
    ASSUME text \in Seq(Token), EditsAll, status = "substituting",
           NEW p \in Nat, NEW q \in Nat, p <= q, q <= Len(text),
           \A k \in p..(q - 1) : \A n \in DOMAIN edits : ~Covers(edits[n], k)
    PROVE  Replacing(p) = Replacing(q)
<1>0. Len(text) \in Nat /\ \A k \in 1..Len(text) : text[k] \in Token
  BY LenProperties, ElementOfSeq
<1> DEFINE S == {d \in Nat : p + d <= q => Replacing(p) = Replacing(p + d)}
<1>1. 0 \in S
  <2>1. p + 0 = p
    OBVIOUS
  <2> QED
    BY <2>1
<1>2. ASSUME NEW d \in S PROVE d + 1 \in S
  <2>1. SUFFICES ASSUME p + (d + 1) <= q PROVE Replacing(p) = Replacing(p + (d + 1))
    OBVIOUS
  <2> DEFINE k == p + (d + 1)
             x == SubSeq(text, 1, k - 1)
             z == From(Parts)[k + 1]
  <2>2. /\ d \in Nat /\ k \in 1..Len(text) /\ k - 1 = p + d /\ k \in Nat \ {0}
        /\ p + d <= q /\ k - 1 \in p..(q - 1) /\ (p + d) + 1 = k
    BY <1>0, <2>1
  <2>3. Replacing(p) = Replacing(p + d)
    BY <2>2
  <2> HIDE DEF k
  <2>4. Becomes(k) = <<text[k]>>
    BY <2>2, BecomesItself
  <2>5. From(Parts)[k] = <<text[k]>> \o z
    BY <2>2, <2>4, FromParts
  <2>6. z \in Seq(Token)
    <3>1. k + 1 \in 1..(Len(text) + 1)
      BY <1>0, <2>2
    <3> QED
      BY <3>1, FromParts
  <2>7. <<text[k]>> \in Seq(Token) /\ x \in Seq(Token)
    <3>1. text[k] \in Token
      BY <1>0, <2>2
    <3>2. \A i \in 1..(k - 1) : text[i] \in Token
      BY <1>0, <2>2
    <3>3. x \in Seq(Token)
      BY <1>0, <2>2, <3>2, SubSeqProperties
    <3> QED
      BY <3>1, <3>3
  <2>8. SubSeq(text, 1, k) = x \o <<text[k]>>
    <3>1. 1 \in 1..Len(text) /\ k \in 1..Len(text)
      BY <1>0, <2>2
    <3> QED
      BY <2>2, <3>1, SubSeqRecursiveSecond
  <2>9. Replacing(p + d) = x \o (<<text[k]>> \o z)
    BY <2>2, <2>5 DEF Replacing
  <2>10. Replacing(k) = (x \o <<text[k]>>) \o z
    BY <2>8 DEF Replacing
  <2> HIDE DEF x, z
  <2>11. Replacing(p + d) = Replacing(k)
    BY <2>6, <2>7, <2>9, <2>10, TokensAssociative
  <2> QED
    BY <2>3, <2>11 DEF k
<1>3. S = Nat
  <2>1. S \in SUBSET Nat
    OBVIOUS
  <2> HIDE DEF S
  <2> QED
    BY <1>1, <1>2, <2>1, Induct
<1>4. q - p \in Nat /\ p + (q - p) = q /\ q <= q
  OBVIOUS
<1>5. q - p \in S
  <2> HIDE DEF S
  <2> QED
    BY <1>3, <1>4
<1>6. Replacing(p) = Replacing(p + (q - p))
  BY <1>4, <1>5
<1> QED
  BY <1>4, <1>6

\* Nothing is left of a range but what its first token becomes.
LEMMA Inside ==
    ASSUME text \in Seq(Token), EditsAll, status = "substituting", NEW n \in DOMAIN edits
    PROVE  From(Parts)[edits[n].start + 2] = From(Parts)[edits[n].end + 1]
<1> DEFINE a == edits[n].start
           b == edits[n].end
<1>0. a \in Nat /\ b \in Nat /\ a < b /\ b <= Len(text) /\ Len(text) \in Nat
  BY EditsTyped, LenProperties
<1> DEFINE S == {d \in Nat : a + 1 + d <= b =>
                               From(Parts)[a + 2] = From(Parts)[a + 2 + d]}
<1>1. 0 \in S
  <2>1. a + 2 + 0 = a + 2
    BY <1>0
  <2> QED
    BY <2>1
<1>2. ASSUME NEW d \in S PROVE d + 1 \in S
  <2>1. SUFFICES ASSUME a + 1 + (d + 1) <= b
                 PROVE  From(Parts)[a + 2] = From(Parts)[a + 2 + (d + 1)]
    OBVIOUS
  <2> DEFINE k == a + 2 + d
  <2>2. /\ d \in Nat /\ a + 1 + d <= b /\ k \in 1..Len(text) /\ k \in Nat \ {0}
        /\ a <= k - 1 /\ k - 1 < b /\ k - 1 # a /\ a + 2 + (d + 1) = k + 1
    <3>1. d \in Nat
      OBVIOUS
    <3> HIDE DEF a, b, S
    <3> QED
      BY <1>0, <2>1, <3>1
  <2>3. From(Parts)[a + 2] = From(Parts)[k]
    BY <2>2
  <2> HIDE DEF k
  <2>4. Becomes(k) = << >>
    <3>1. Covers(edits[n], k - 1) /\ k - 1 # edits[n].start
      BY <2>2 DEF Covers
    <3> QED
      BY <2>2, <3>1, BecomesNone
  <2>5. From(Parts)[k] = << >> \o From(Parts)[k + 1]
    BY <2>2, <2>4, FromParts
  <2>6. From(Parts)[k + 1] \in Seq(Token)
    <3>1. k + 1 \in 1..(Len(text) + 1)
      BY <1>0, <2>2
    <3> QED
      BY <3>1, FromParts
  <2>7. From(Parts)[k] = From(Parts)[k + 1]
    BY <2>5, <2>6, ConcatEmptySeq
  <2> QED
    BY <2>2, <2>3, <2>7
<1>3. S = Nat
  <2>1. S \in SUBSET Nat
    OBVIOUS
  <2> HIDE DEF S
  <2> QED
    BY <1>1, <1>2, <2>1, Induct
<1>4. b - a - 1 \in Nat /\ a + 1 + (b - a - 1) <= b /\ a + 2 + (b - a - 1) = b + 1
  BY <1>0
<1>5. b - a - 1 \in S
  BY <1>3, <1>4
<1>6. From(Parts)[a + 2] = From(Parts)[a + 2 + (b - a - 1)]
  BY <1>4, <1>5
<1> QED
  BY <1>4, <1>6

-----------------------------------------------------------------------------
(* The substitution *)

\* Replacing a range in a text put together from two.
LEMMA CutTwo ==
    ASSUME NEW s \in Seq(Token), NEW z \in Seq(Token), NEW a \in Nat, NEW b \in Nat,
           a <= b, b <= Len(s)
    PROVE  LET t == SubSeq(s, 1, b) \o z
           IN  SubSeq(t, 1, a) = SubSeq(s, 1, a) /\ SubSeq(t, b + 1, Len(t)) = z
<1> DEFINE x == SubSeq(s, 1, b)
           t == x \o z
           y == SubSeq(s, 1, a)
           u == SubSeq(t, 1, a)
           v == SubSeq(t, b + 1, Len(t))
<1>1. /\ Len(s) \in Nat /\ Len(z) \in Nat
      /\ \A i \in 1..Len(s) : s[i] \in Token
      /\ \A i \in 1..Len(z) : z[i] \in Token
  BY LenProperties, ElementOfSeq
<1>2. x \in Seq(Token) /\ Len(x) = b /\ \A i \in 1..b : x[i] = s[i]
  BY <1>1, SubSeqProperties
<1>3. y \in Seq(Token) /\ Len(y) = a /\ \A i \in 1..a : y[i] = s[i]
  BY <1>1, SubSeqProperties
<1> HIDE DEF x, y
<1>4. /\ t \in Seq(Token) /\ Len(t) = b + Len(z)
      /\ \A i \in 1..b : t[i] = x[i]
      /\ \A i \in 1..Len(z) : t[b + i] = z[i]
  <2>0. /\ t \in Seq(Token) /\ Len(t) = Len(x) + Len(z)
        /\ \A i \in 1..(Len(x) + Len(z)) :
              t[i] = IF i <= Len(x) THEN x[i] ELSE z[i - Len(x)]
    <3> x \in Seq(Token)
      BY <1>2
    <3> QED
      BY ConcatProperties
  <2>1. /\ t \in Seq(Token) /\ Len(t) = b + Len(z)
        /\ \A i \in 1..(b + Len(z)) : t[i] = IF i <= b THEN x[i] ELSE z[i - b]
    <3> HIDE DEF t
    <3> Len(x) = b
      BY <1>2
    <3> QED
      BY <2>0
  <2> HIDE DEF t
  <2>2. \A i \in 1..b : i \in 1..(b + Len(z)) /\ i <= b
    BY <1>1
  <2>3. \A i \in 1..Len(z) : b + i \in 1..(b + Len(z)) /\ ~(b + i <= b) /\ (b + i) - b = i
    BY <1>1
  <2>4. \A i \in 1..Len(z) : t[b + i] = z[i]
    <3> TAKE i \in 1..Len(z)
    <3>1. t[b + i] = z[(b + i) - b]
      BY <2>1, <2>3
    <3> QED
      BY <2>3, <3>1
  <2> QED
    BY <2>1, <2>2, <2>4
<1> HIDE DEF t
<1>5. \A i \in 1..Len(t) : t[i] \in Token
  BY <1>4, ElementOfSeq
<1>6. u \in Seq(Token) /\ Len(u) = a /\ \A i \in 1..a : u[i] = t[i]
  <2>1. \A i \in 1..a : t[i] \in Token
    BY <1>1, <1>4, <1>5
  <2> QED
    BY <2>1, SubSeqProperties
<1>7. u = y
  <2>1. \A i \in 1..a : u[i] = y[i]
    BY <1>2, <1>3, <1>4, <1>6
  <2> HIDE DEF u
  <2> QED
    BY <1>3, <1>6, <2>1, SeqEqual
<1>8. v \in Seq(Token) /\ Len(v) = Len(z) /\ \A i \in 1..Len(z) : v[i] = t[b + i]
  <2>1. b + 1 \in Int /\ Len(t) \in Int /\ \A i \in (b + 1)..Len(t) : t[i] \in Token
    BY <1>1, <1>4, <1>5
  <2>2. /\ v \in Seq(Token)
        /\ Len(v) = IF b + 1 <= Len(t) THEN Len(t) - (b + 1) + 1 ELSE 0
        /\ \A i \in 1..(Len(t) - (b + 1) + 1) : v[i] = t[(b + 1) + i - 1]
    BY <2>1, SubSeqProperties
  <2> HIDE DEF v
  <2>3. Len(t) - (b + 1) + 1 = Len(z) /\ \A i \in 1..Len(z) : (b + 1) + i - 1 = b + i
    BY <1>1, <1>4
  <2>4. b + 1 <= Len(t) <=> Len(z) > 0
    BY <1>1, <1>4
  <2>5. Len(v) = Len(z)
    BY <1>1, <2>2, <2>3, <2>4
  <2> QED
    BY <2>2, <2>3, <2>5
<1>9. v = z
  <2> HIDE DEF v
  <2>1. \A i \in 1..Len(z) : v[i] = z[i]
    BY <1>4, <1>8
  <2> QED
    BY <1>8, <2>1, SeqEqual
<1> QED
  BY <1>7, <1>9 DEF t, x, y

\* Between the last edit left and the first one made lies no other.
LEMMA UptoIs ==
    ASSUME text \in Seq(Token), EditsAll, status = "substituting"
    PROVE  /\ Upto \in Nat /\ Upto <= Len(text)
           /\ \A n \in DOMAIN edits : n <= left => edits[n].end <= Upto
           /\ \A n \in DOMAIN edits : n > left => Upto <= edits[n].start
<1>1. /\ DOMAIN edits = 1..Len(edits) /\ Len(edits) \in Nat /\ Len(text) \in Nat
      /\ left \in 0..Len(edits)
  BY EditsTyped, LenProperties DEF EditsAll
<1>2. /\ \A n \in DOMAIN edits :
            /\ edits[n].start \in Nat /\ edits[n].end \in Nat
            /\ edits[n].start < edits[n].end /\ edits[n].end <= Len(text)
      /\ \A n, m \in DOMAIN edits : n < m => edits[n].end <= edits[m].start
  BY EditsTyped
<1>3. CASE left = Len(edits)
  <2>1. Upto = Len(text)
    BY <1>3 DEF Upto
  <2>2. \A n \in DOMAIN edits : ~(n > left)
    BY <1>1, <1>3
  <2> QED
    BY <1>1, <1>2, <2>1, <2>2
<1>4. CASE left # Len(edits)
  <2> DEFINE m == left + 1
  <2>0. left \in Nat /\ left < Len(edits) /\ m \in Nat
    <3>1. \A z \in Nat : left \in 0..z /\ left # z => left \in Nat /\ left < z
      OBVIOUS
    <3>2. left \in Nat /\ left < Len(edits)
      BY <1>1, <1>4, <3>1
    <3> QED
      BY <3>2
  <2>1. m \in DOMAIN edits /\ Upto = edits[m].start
    <3>1. m \in 1..Len(edits)
      BY <1>1, <2>0
    <3>2. Upto = edits[m].start
      BY <1>4 DEF Upto
    <3> QED
      BY <1>1, <3>1, <3>2
  <2>2. \A n \in DOMAIN edits : (n <= left <=> n < m) /\ (n > left <=> (n = m \/ m < n))
    BY <1>1
  <2> HIDE DEF m
  <2>3. \A n \in DOMAIN edits : m < n => edits[m].start <= edits[n].start
    <3> TAKE n \in DOMAIN edits
    <3> HAVE m < n
    <3>1. edits[m].end <= edits[n].start
      BY <1>2, <2>1
    <3>2. edits[m].start \in Nat /\ edits[m].end \in Nat /\ edits[n].start \in Nat
          /\ edits[m].start < edits[m].end
      BY <1>2, <2>1
    <3> QED
      BY <3>1, <3>2
  <2>4. Upto \in Nat /\ Upto <= Len(text)
    BY <1>1, <1>2, <2>1
  <2>5. \A n \in DOMAIN edits : n <= left => edits[n].end <= Upto
    BY <1>2, <2>1, <2>2
  <2>6. \A n \in DOMAIN edits : n > left => Upto <= edits[n].start
    BY <2>1, <2>2, <2>3, <2>4
  <2> QED
    BY <2>4, <2>5, <2>6
<1> QED
  BY <1>3, <1>4

\* No edit covers what lies between.
LEMMA BetweenEdits ==
    ASSUME text \in Seq(Token), EditsAll, status = "substituting",
           NEW p \in Nat, p <= Upto, \A n \in DOMAIN edits : n <= left => edits[n].end <= p
    PROVE  Replacing(p) = Replacing(Upto)
<1>1. Upto \in Nat /\ Upto <= Len(text)
  BY UptoIs
<1>2. ASSUME NEW k \in p..(Upto - 1), NEW n \in DOMAIN edits, Covers(edits[n], k)
      PROVE  FALSE
  <2>1. /\ edits[n].start \in Nat /\ edits[n].end \in Nat /\ n \in Nat /\ left \in Nat
        /\ k \in Nat /\ p <= k /\ k < Upto
    <3>1. n \in Nat /\ left \in Nat
      BY EditsTyped DEF EditsAll
    <3> QED
      BY <1>1, <3>1, EditsTyped
  <2>2. edits[n].start <= k /\ k < edits[n].end
    BY <1>2 DEF Covers
  <2>3. CASE n <= left
    BY <2>1, <2>2, <2>3
  <2>4. CASE n > left
    <3>1. Upto <= edits[n].start
      BY <2>4, UptoIs
    <3> QED
      BY <1>1, <2>1, <2>2, <3>1
  <2> QED
    BY <2>1, <2>3, <2>4
<1> QED
  BY <1>1, <1>2, Gap

\* An edit makes of its range what it becomes.
LEMMA EditMade ==
    ASSUME text \in Seq(Token), EditsAll, status = "substituting", left > 0,
           output = Replacing(Upto), This.answer # "other", NEW with,
           with = IF This.answer = "quoted" THEN << >>
                                            ELSE Separated(This, With(This.answer))
    PROVE  Replaced(This, with) = Replacing(This.start)
<1> DEFINE a == This.start
           b == This.end
           z == From(Parts)[b + 1]
           x == SubSeq(text, 1, a)
<1>1. left \in DOMAIN edits /\ This = edits[left] /\ left \in Nat
  BY EditsTyped DEF This, EditsAll
<1>2. /\ a \in Nat /\ b \in Nat /\ a < b /\ b <= Len(text) /\ Len(text) \in Nat
      /\ This.answer \in Answer \cup {"quoted"}
  BY <1>1, EditsTyped, LenProperties
<1>3. output = SubSeq(text, 1, b) \o z
  <2>1. \A n \in DOMAIN edits : n <= left => edits[n].end <= b
    <3> TAKE n \in DOMAIN edits
    <3> HAVE n <= left
    <3>0. n \in Nat
      BY EditsTyped
    <3>1. CASE n = left
      BY <1>1, <1>2, <3>1
    <3>2. CASE n < left
      <4>1. edits[n].end <= a /\ edits[n].end \in Nat
        BY <1>1, <3>2, EditsTyped
      <4> QED
        BY <1>2, <4>1
    <3> QED
      BY <1>1, <3>0, <3>1, <3>2
  <2>2. b <= Upto
    BY <1>1, UptoIs
  <2>3. b \in Nat
    BY <1>2
  <2> HIDE DEF b
  <2>4. Replacing(b) = Replacing(Upto)
    BY <2>1, <2>2, <2>3, BetweenEdits
  <2> QED
    BY <2>4 DEF Replacing
<1>4. z \in Seq(Token)
  <2>1. b + 1 \in 1..(Len(text) + 1)
    BY <1>2
  <2> QED
    BY <2>1, FromParts
<1>5. x \in Seq(Token)
  <2>1. \A i \in 1..a : text[i] \in Token
    BY <1>2, ElementOfSeq
  <2> QED
    BY <1>2, <2>1, SubSeqProperties
<1>6. SubSeq(output, 1, a) = x /\ SubSeq(output, b + 1, Len(output)) = z
  <2> HIDE DEF z, a, b
  <2> QED
    BY <1>2, <1>3, <1>4, CutTwo DEF a
<1>7. Replaced(This, with) = (x \o with) \o z
  BY <1>6 DEF Replaced
<1>8. Becomes(a + 1) = with /\ with \in Seq(Token)
  <2>0. a + 1 \in Nat \ {0} /\ (a + 1) - 1 = a /\ a + 1 \in 1..Len(text)
    BY <1>2
  <2>1. Covers(edits[left], (a + 1) - 1)
    BY <1>1, <1>2, <2>0 DEF Covers
  <2>2. CASE Printed(left)
    <3>1. with = Separated(This, With(This.answer))
      BY <1>1, <2>2 DEF Printed
    <3>2. Becomes(a + 1) = with
      BY <1>1, <2>2, <3>1, BecomesPage
    <3> QED
      BY <2>0, <3>2, PartsAre
  <2>3. CASE ~Printed(left)
    <3>1. Becomes(a + 1) = << >>
      BY <1>1, <2>0, <2>1, <2>3, BecomesNone
    <3>2. with = << >>
      <4>1. This.answer \in {"text", "empty", "missing", "quoted"}
        BY <1>2 DEF Answer
      <4>2. This.answer # "quoted" => With(This.answer) = << >>
        BY <1>1, <2>3, <4>1 DEF Printed, With
      <4> QED
        BY <4>2 DEF Separated
    <3>3. << >> \in Seq(Token)
      OBVIOUS
    <3> QED
      BY <3>1, <3>2, <3>3
  <2> QED
    BY <2>2, <2>3
<1>9. From(Parts)[a + 1] = with \o z
  <2>1. a + 1 \in 1..Len(text) /\ (a + 1) + 1 = a + 2
    BY <1>2
  <2>2. From(Parts)[a + 1] = Becomes(a + 1) \o From(Parts)[a + 2]
    BY <2>1, FromParts
  <2>3. From(Parts)[a + 2] = z
    BY <1>1, Inside
  <2> QED
    BY <1>8, <2>2, <2>3
<1>10. Replacing(a) = x \o (with \o z)
  BY <1>9 DEF Replacing
<1> HIDE DEF x, z, a
<1>11. (x \o with) \o z = x \o (with \o z)
  BY <1>4, <1>5, <1>8, TokensAssociative
<1> QED
  BY <1>7, <1>10, <1>11 DEF a

-----------------------------------------------------------------------------
(* The order of the includes, and the edits made of the answers *)

\* Nothing the text becomes changes as long as text, ranges and edits do not.
LEMMA SameReplacing ==
    ASSUME UNCHANGED <<text, edits, includes, consumed>>
    PROVE  Parts' = Parts /\ \A p : Replacing(p)' = Replacing(p)
<1>1. Edited' = Edited
  BY SameEdited
<1>2. \A n : Printed(n)' <=> Printed(n)
  BY DEF Printed
<1>3. \A range : Separators(range)' = Separators(range)
  BY DEF Separators
<1>4. \A k : Becomes(k)' = Becomes(k)
  <2> TAKE k
  <2> DEFINE showing == {n \in DOMAIN edits : edits[n].start = k - 1 /\ Printed(n)}
             n == CHOOSE n \in showing : TRUE
  <2>1. showing' = showing
    BY <1>2
  <2>2. n' = n
    BY <2>1
  <2>3. (\E r \in Edited' : Covers(r, k - 1)) <=> (\E r \in Edited : Covers(r, k - 1))
    BY <1>1
  <2> QED
    BY <1>3, <2>1, <2>2, <2>3 DEF Becomes
<1>5. Parts' = Parts
  BY <1>4 DEF Parts
<1> QED
  BY <1>5 DEF Replacing

LEMMA SameOrder ==
    ASSUME InOrder, UNCHANGED includes
    PROVE  InOrder'
BY DEF InOrder

LEMMA FoundPlainOrder == IInv /\ InOrder /\ FoundPlain => InOrder'
<1> SUFFICES ASSUME IInv, InOrder, FoundPlain PROVE InOrder'
  OBVIOUS
<1> DEFINE page == Target(blockText.tokens)
           r(e) == [start |-> Start, end |-> e, page |-> page]
<1>1. status \in Parsing
  BY DEF FoundPlain, Parsing
<1>2. PICK e \in Ends : includes' = Append(includes, r(e))
  BY DEF FoundPlain, Include
<1>3. /\ includes \in Seq(Block)
      /\ DOMAIN includes = 1..Len(includes) /\ Len(includes) \in Nat
  BY Typed DEF IInv, FoundOK
<1>4. \A i \in DOMAIN includes : includes[i].end <= Start
  BY <1>1, FoundBefore
<1> DEFINE n == Len(includes) + 1
           x == r(e)
<1> HIDE DEF page
<1>5. x.start = Start
  OBVIOUS
<1> HIDE DEF r, x
<1>6. /\ DOMAIN includes' = 1..n
      /\ \A i \in 1..n : includes'[i] = IF i = n THEN x ELSE includes[i]
  BY <1>2, <1>3, AppendProperties DEF x
<1>7. ASSUME NEW i \in 1..n, NEW j \in 1..n, i < j
      PROVE  includes'[i].end <= includes'[j].start
  <2>1. i \in DOMAIN includes /\ i # n /\ includes'[i] = includes[i]
    BY <1>3, <1>6, <1>7
  <2>2. CASE j = n
    <3>1. includes'[j] = x
      BY <1>6, <2>2
    <3> QED
      BY <1>4, <1>5, <2>1, <3>1
  <2>3. CASE j # n
    <3>1. j \in DOMAIN includes /\ includes'[j] = includes[j]
      BY <1>3, <1>6, <2>3
    <3> QED
      BY <1>7, <2>1, <3>1 DEF InOrder
  <2> QED
    BY <2>2, <2>3
<1> QED
  BY <1>6, <1>7 DEF InOrder

\* There are no more edits than ranges.
LEMMA EditsCount ==
    ASSUME IInv, NEW answers \in [DOMAIN includes -> Answer]
    PROVE  /\ IsFiniteSet(Edits(answers))
           /\ Cardinality(Edits(answers)) \in Nat
           /\ Cardinality(Edits(answers)) <= Len(includes) + Len(consumed)
<1> DEFINE S == Edits(answers)
           a == Len(includes)
           c == Len(consumed)
           n == a + c
           g == [m \in 1..n |-> IF m <= a
                                  THEN Edit(includes[m], includes[m].page, answers[m])
                                  ELSE Edit(consumed[m - a], << >>, "quoted")]
<1>1. /\ DOMAIN includes = 1..a /\ a \in Nat
      /\ DOMAIN consumed = 1..c /\ c \in Nat /\ DOMAIN answers = 1..a
  BY Typed DEF IInv
<1>2. S = {Edit(includes[i], includes[i].page, answers[i]) : i \in 1..a}
            \cup {Edit(consumed[i], << >>, "quoted") : i \in 1..c}
  BY <1>1 DEF Edits
<1> HIDE DEF S, a, c
<1>3. n \in Nat
  BY <1>1
<1>4. ASSUME NEW m \in 1..n PROVE g[m] \in S
  <2>1. CASE m <= a
    <3>1. m \in 1..a
      BY <1>1, <2>1
    <3>2. g[m] = Edit(includes[m], includes[m].page, answers[m])
      BY <2>1
    <3> QED
      BY <1>2, <3>1, <3>2
  <2>2. CASE ~(m <= a)
    <3>1. m - a \in 1..c
      BY <1>1, <2>2
    <3>2. g[m] = Edit(consumed[m - a], << >>, "quoted")
      BY <2>2
    <3> QED
      BY <1>2, <3>1, <3>2
  <2> QED
    BY <2>1, <2>2
<1>5. ASSUME NEW r \in S PROVE \E m \in 1..n : g[m] = r
  <2>1. CASE \E i \in 1..a : r = Edit(includes[i], includes[i].page, answers[i])
    <3>1. PICK i \in 1..a : r = Edit(includes[i], includes[i].page, answers[i])
      BY <2>1
    <3>2. i \in 1..n /\ i <= a
      BY <1>1
    <3>3. g[i] = r
      BY <3>1, <3>2
    <3> QED
      BY <3>2, <3>3
  <2>2. CASE \E i \in 1..c : r = Edit(consumed[i], << >>, "quoted")
    <3>1. PICK i \in 1..c : r = Edit(consumed[i], << >>, "quoted")
      BY <2>2
    <3>2. a + i \in 1..n /\ ~(a + i <= a) /\ (a + i) - a = i
      BY <1>1
    <3>3. g[a + i] = Edit(consumed[(a + i) - a], << >>, "quoted")
      BY <3>2
    <3>4. g[a + i] = r
      BY <3>1, <3>2, <3>3
    <3> QED
      BY <3>2, <3>4
  <2> QED
    BY <1>2, <2>1, <2>2
<1>6. g \in [1..n -> S]
  BY <1>4
<1> HIDE DEF n, g
<1>7. g \in Surjection(1..n, S)
  BY <1>5, <1>6 DEF Surjection
<1>8. ExistsSurjection(1..n, S)
  BY <1>7 DEF ExistsSurjection
<1>9. IsFiniteSet(S)
  BY <1>3, <1>8, FS_NatSurjection
<1>10. Cardinality(S) <= n
  BY <1>3, <1>8, FS_SurjCardinalityBound
<1>11. Cardinality(S) \in Nat
  BY <1>9, FS_CardinalityType
<1> QED
  BY <1>9, <1>10, <1>11 DEF S, n, a, c

\* In the order of their starts every edit has its place.
LEMMA EveryEdit ==
    ASSUME IInv, NEW answers \in [DOMAIN includes -> Answer],
           NEW n, n = Len(includes) + Len(consumed),
           NEW f \in Ordered(Edits(answers), n), NEW r \in Edits(answers)
    PROVE  \E m \in 1..n : f[m] = r
<1> DEFINE S == Edits(answers)
<1>1. n \in Nat
  BY Typed DEF IInv
<1>2. IsFiniteSet(S) /\ Cardinality(S) \in Nat /\ Cardinality(S) <= n
  BY EditsCount
<1>3. \A q \in S : q.start \in Nat
  BY EditsApart
<1>4. f \in [1..n -> S] /\ \A i, j \in 1..n : i < j => f[i].start < f[j].start
  BY DEF Ordered
<1> HIDE DEF S
<1>5. ASSUME NEW i \in 1..n, NEW j \in 1..n, f[i] = f[j] PROVE i = j
  <2>1. f[i] \in S /\ f[j] \in S
    BY <1>4
  <2>2. f[i].start \in Nat /\ f[j].start \in Nat /\ f[i].start = f[j].start
    BY <1>3, <1>5, <2>1
  <2>3. ~(i < j) /\ ~(j < i)
    BY <1>4, <2>2
  <2> QED
    BY <2>3
<1>6. f \in Injection(1..n, S)
  BY <1>4, <1>5 DEF Injection, IsInjective
<1>7. Cardinality(1..n) = n
  BY <1>1, FS_Interval
<1>8. Cardinality(1..n) <= Cardinality(S)
  BY <1>2, <1>6, FS_Injection
<1>9. Cardinality(1..n) = Cardinality(S)
  BY <1>1, <1>2, <1>7, <1>8
<1>10. f \in Surjection(1..n, S)
  BY <1>2, <1>6, <1>9, FS_Injection
<1> QED
  BY <1>10 DEF Surjection, S

\* An edit is made of a range, and keeps it.
LEMMA EditsOf ==
    ASSUME IInv, NEW answers \in [DOMAIN includes -> Answer], NEW r \in Edits(answers)
    PROVE  /\ r \in Replacement
           /\ IF r.answer = "quoted"
                THEN \E i \in DOMAIN consumed : SameRange(r, consumed[i])
                ELSE \E i \in DOMAIN includes : /\ SameRange(r, includes[i])
                                                /\ r.page = includes[i].page
<1>1. /\ includes \in Seq(Block) /\ consumed \in Seq(Quote)
  BY DEF IInv, FoundOK
<1>2. CASE \E i \in DOMAIN answers : r = Edit(includes[i], includes[i].page, answers[i])
  <2>1. PICK i \in DOMAIN answers : r = Edit(includes[i], includes[i].page, answers[i])
    BY <1>2
  <2>2. i \in DOMAIN includes /\ answers[i] \in Answer
    BY <2>1
  <2>3. includes[i] \in Block
    BY <1>1, <2>2
  <2>4. /\ includes[i].start \in Nat /\ includes[i].end \in Nat
        /\ includes[i].page \in Seq(Token)
    BY <2>3 DEF Block
  <2>5. /\ r.start = includes[i].start /\ r.end = includes[i].end
        /\ r.page = includes[i].page /\ r.answer = answers[i]
    BY <2>1 DEF Edit
  <2>6. r \in Replacement
    BY <2>1, <2>2, <2>4 DEF Edit, Replacement
  <2>7. r.answer # "quoted"
    BY <2>2, <2>5 DEF Answer
  <2> QED
    BY <2>2, <2>5, <2>6, <2>7 DEF SameRange
<1>3. CASE \E i \in DOMAIN consumed : r = Edit(consumed[i], << >>, "quoted")
  <2>1. PICK i \in DOMAIN consumed : r = Edit(consumed[i], << >>, "quoted")
    BY <1>3
  <2>2. consumed[i] \in Quote
    BY <1>1, <2>1
  <2>3. consumed[i].start \in Nat /\ consumed[i].end \in Nat
    BY <2>2 DEF Quote
  <2>4. r.start = consumed[i].start /\ r.end = consumed[i].end /\ r.answer = "quoted"
    BY <2>1 DEF Edit
  <2>5. << >> \in Seq(Token)
    OBVIOUS
  <2>6. r \in Replacement
    BY <2>1, <2>3, <2>5 DEF Edit, Replacement
  <2> QED
    BY <2>1, <2>4, <2>6 DEF SameRange
<1> QED
  BY <1>2, <1>3 DEF Edits

LEMMA FetchAnswersEdits == IInv /\ FetchAnswers => EditsAll'
<1> SUFFICES ASSUME IInv, FetchAnswers PROVE EditsAll'
  OBVIOUS
<1>1. PICK answers \in [DOMAIN includes -> Answer] : Substitutes(answers)
  BY DEF FetchAnswers
<1> DEFINE S == Edits(answers)
           n == Len(includes) + Len(consumed)
           f == edits'
<1>2. /\ DOMAIN includes = 1..Len(includes) /\ Len(includes) \in Nat
      /\ DOMAIN consumed = 1..Len(consumed) /\ Len(consumed) \in Nat
  BY Typed DEF IInv
<1>3. n \in Nat /\ left' = n
  <2>1. answers \in Seq(Answer) /\ Len(answers) = Len(includes)
    BY <1>2
  <2> QED
    BY <1>1, <1>2, <2>1 DEF Substitutes
<1>4. f \in Ordered(S, n)
  BY <1>1, <1>3 DEF Substitutes
<1>5. f \in [1..n -> S] /\ \A i, j \in 1..n : i < j => f[i].start < f[j].start
  BY <1>4 DEF Ordered
<1>6. UNCHANGED <<text, pageSyntax, includes, consumed>> /\ pageSyntax
  BY <1>1 DEF FetchAnswers, Asked, Scanning, Substitutes, Answered, input, found
<1>7. \A r \in S : \E m \in 1..n : f[m] = r
  BY <1>4, EveryEdit
<1>8. /\ \A r \in S : /\ r.start \in Nat /\ r.end \in Nat
                      /\ r.start < r.end /\ r.end <= Len(text)
      /\ \A r, q \in S : r.start # q.start => Apart(r, q)
  BY EditsApart
<1>9. \A r \in S :
        /\ r \in Replacement
        /\ IF r.answer = "quoted"
             THEN \E i \in DOMAIN consumed : SameRange(r, consumed[i])
             ELSE \E i \in DOMAIN includes : /\ SameRange(r, includes[i])
                                             /\ r.page = includes[i].page
  BY EditsOf
<1>10. \A i \in DOMAIN includes : \E r \in S : r.answer # "quoted" /\ SameRange(r, includes[i])
  <2> TAKE i \in DOMAIN includes
  <2> DEFINE r == Edit(includes[i], includes[i].page, answers[i])
  <2>1. r \in S
    BY DEF Edits
  <2>2. answers[i] \in Answer
    OBVIOUS
  <2>3. r.answer # "quoted" /\ SameRange(r, includes[i])
    BY <2>2 DEF Edit, Answer, SameRange
  <2> QED
    BY <2>1, <2>3
<1>11. \A i \in DOMAIN consumed : \E r \in S : SameRange(r, consumed[i])
  <2> TAKE i \in DOMAIN consumed
  <2> DEFINE r == Edit(consumed[i], << >>, "quoted")
  <2>1. r \in S
    BY DEF Edits
  <2>2. SameRange(r, consumed[i])
    BY DEF Edit, SameRange
  <2> QED
    BY <2>1, <2>2
<1> HIDE DEF S, n, f
<1>12. \A m \in 1..n : f[m] \in S
  BY <1>5
<1>13. f \in Seq(Replacement) /\ Len(f) = n /\ DOMAIN f = 1..n
  <2>1. \A m \in 1..n : f[m] \in Replacement
    BY <1>9, <1>12
  <2>2. f \in [1..n -> Replacement]
    BY <1>5, <2>1
  <2> QED
    BY <1>3, <2>2
<1>14. ASSUME NEW i \in 1..n, NEW j \in 1..n, i < j
       PROVE  f[i].end <= f[j].start
  <2>1. f[i].start < f[j].start
    BY <1>5, <1>14
  <2>2. f[i] \in S /\ f[j] \in S
    BY <1>12
  <2>3. /\ f[i].start \in Nat /\ f[i].end \in Nat /\ f[i].start < f[i].end
        /\ f[j].start \in Nat /\ f[j].end \in Nat /\ f[j].start < f[j].end
    BY <1>8, <2>2
  <2>4. f[i].start # f[j].start
    BY <2>1, <2>3
  <2>5. Apart(f[i], f[j])
    BY <1>8, <2>2, <2>4
  <2> QED
    BY <2>1, <2>3, <2>5 DEF Apart
<1>15. \A m \in 1..n : /\ f[m].start < f[m].end /\ f[m].end <= Len(text)
                       /\ IF f[m].answer = "quoted"
                            THEN \E i \in DOMAIN consumed : SameRange(f[m], consumed[i])
                            ELSE \E i \in DOMAIN includes : /\ SameRange(f[m], includes[i])
                                                            /\ f[m].page = includes[i].page
  BY <1>8, <1>9, <1>12
<1>16. \A i \in DOMAIN includes : \E m \in 1..n :
         f[m].answer # "quoted" /\ SameRange(f[m], includes[i])
  BY <1>7, <1>10
<1>17. \A i \in DOMAIN consumed : \E m \in 1..n : SameRange(f[m], consumed[i])
  BY <1>7, <1>11
<1>18. edits' = f /\ Len(edits') = n /\ left' \in 0..n /\ n = Len(includes) + Len(consumed)
  BY <1>3, <1>13 DEF f, n
<1>19. /\ pageSyntax' /\ edits' \in Seq(Replacement)
       /\ Len(edits') = Len(includes') + Len(consumed')
       /\ left' \in 0..Len(edits')
  BY <1>6, <1>13, <1>18
<1>20. \A m \in 1..Len(edits') :
         edits'[m].start < edits'[m].end /\ edits'[m].end <= Len(text')
  BY <1>6, <1>15, <1>18
<1>21. \A i, j \in 1..Len(edits') : i < j => edits'[i].end <= edits'[j].start
  BY <1>14, <1>18
<1>22. \A m \in 1..Len(edits') :
         IF edits'[m].answer = "quoted"
           THEN \E i \in DOMAIN consumed' : SameRange(edits'[m], consumed'[i])
           ELSE \E i \in DOMAIN includes' : /\ SameRange(edits'[m], includes'[i])
                                            /\ edits'[m].page = includes'[i].page
  BY <1>6, <1>15, <1>18
<1>23. \A i \in DOMAIN includes' : \E m \in 1..Len(edits') :
         edits'[m].answer # "quoted" /\ SameRange(edits'[m], includes'[i])
  BY <1>6, <1>16, <1>18
<1>24. \A i \in DOMAIN consumed' : \E m \in 1..Len(edits') :
         SameRange(edits'[m], consumed'[i])
  BY <1>6, <1>17, <1>18
<1> QED
  BY <1>19, <1>20, <1>21, <1>22, <1>23, <1>24 DEF EditsAll, SameRange

\* Before the first edit is made the text is what it was, and has no pages.
LEMMA FetchAnswersOutput ==
    IInv /\ PagesOK /\ FetchAnswers => OutputOK' /\ PagesBack'
<1> SUFFICES ASSUME IInv, PagesOK, FetchAnswers PROVE OutputOK' /\ PagesBack'
  OBVIOUS
<1> DEFINE z == Len(text)
<1>1. PICK answers \in [DOMAIN includes -> Answer] : Substitutes(answers)
  BY DEF FetchAnswers
<1>2. EditsAll' /\ status' = "substituting"
  BY <1>1, FetchAnswersEdits DEF Substitutes
<1>3. /\ DOMAIN includes = 1..Len(includes) /\ Len(includes) \in Nat
      /\ Len(consumed) \in Nat
  BY Typed DEF IInv
<1>4. left' = Len(edits') /\ Len(edits') \in Nat
  <2>1. answers \in Seq(Answer) /\ Len(answers) = Len(includes)
    BY <1>3
  <2>2. left' = Len(includes) + Len(consumed)
    BY <1>1, <2>1 DEF Substitutes
  <2>3. includes' = includes /\ consumed' = consumed
    BY <1>1 DEF Substitutes, Answered, found
  <2> QED
    BY <1>2, <1>3, <2>2, <2>3 DEF EditsAll
<1>5. /\ status = "scanning" /\ pages = << >> /\ output = text
      /\ UNCHANGED <<text, includes, output, pages>>
  BY <1>1 DEF FetchAnswers, Asked, Scanning, Substitutes, Answered, input, found, results,
             PagesOK, IInv, TextOK, Unedited
<1>6. z \in Nat /\ text \in Seq(Token) /\ \A k \in 1..z : text[k] \in Token
  BY LenProperties, ElementOfSeq DEF IInv, TextOK
<1>7. OutputOK'
  <2>1. Upto' = z
    BY <1>4, <1>5 DEF Upto
  <2>2. Len(Parts') = z
    BY <1>5, <1>6 DEF Parts
  <2> DEFINE p == Parts'
  <2>3. Len(p) = z
    BY <2>2
  <2> HIDE DEF p
  <2>4. From(p)[z + 1] = << >>
    BY <1>6, <2>3, FromSteps
  <2>5. SubSeq(text, 1, z) = text
    <3> DEFINE s == SubSeq(text, 1, z)
    <3>1. s \in Seq(Token) /\ Len(s) = z /\ \A i \in 1..z : s[i] = text[i]
      BY <1>6, SubSeqProperties
    <3> HIDE DEF s
    <3>2. s = text
      BY <1>6, <3>1, SeqEqual
    <3> QED
      BY <3>2 DEF s
  <2>6. text \o << >> = text
    BY <1>6, ConcatEmptySeq
  <2>7. Replacing(Upto)' = text
    <3>1. Replacing(Upto)' = SubSeq(text', 1, Upto') \o From(Parts')[Upto' + 1]
      BY DEF Replacing
    <3> QED
      BY <1>5, <2>1, <2>4, <2>5, <2>6, <3>1 DEF p
  <2>8. (left' + 1)..Len(edits') = {}
    BY <1>4
  <2> QED
    BY <1>5, <2>7, <2>8 DEF OutputOK
<1>8. PagesBack'
  <2>1. pages' = << >> /\ Len(<< >>) = 0 /\ << >> \in Seq(Seq(Token))
    BY <1>5
  <2>2. Len(pages') = 0 /\ Len(includes') = Len(includes)
    BY <1>5, <2>1
  <2>3. \A i \in DOMAIN includes' :
          /\ i <= Len(includes') - Len(pages')
          /\ \E n \in 1..left' : edits'[n].start = includes'[i].start
    <3> TAKE i \in DOMAIN includes'
    <3>1. i \in 1..Len(includes)
      BY <1>3, <1>5
    <3>2. i <= Len(includes') - Len(pages')
      BY <1>3, <2>2, <3>1
    <3>3. \E n \in 1..Len(edits') : SameRange(edits'[n], includes'[i])
      BY <1>2 DEF EditsAll, SameRange
    <3> QED
      BY <1>4, <3>2, <3>3 DEF SameRange
  <2>4. \A j \in 1..Len(pages') : FALSE
    BY <2>2
  <2>5. pages' \in Seq(Seq(Token)) /\ Len(pages') <= Len(includes')
    BY <1>3, <2>1, <2>2
  <2> QED
    BY <2>3, <2>4, <2>5 DEF PagesBack
<1> QED
  BY <1>7, <1>8

LEMMA SameEdits ==
    ASSUME EditsAll, status = "substituting", left' \in 0..Len(edits),
           UNCHANGED <<text, pageSyntax, includes, consumed, edits>>
    PROVE  EditsAll'
<1>1. \A r, q : SameRange(r, q)' <=> SameRange(r, q)
  BY DEF SameRange
<1> QED
  BY DEF EditsAll, SameRange

LEMMA EditOutput ==
    ASSUME IInv, EditsAll, OutputOK, Substituting, Substituted, status' = status,
           left' = left - 1, This.answer # "other",
           NEW with, output' = Replaced(This, with),
           with = IF This.answer = "quoted" THEN << >>
                                            ELSE Separated(This, With(This.answer))
    PROVE  EditsAll' /\ OutputOK'
<1>1. /\ status = "substituting" /\ left > 0
      /\ UNCHANGED <<text, pageSyntax, includes, consumed, edits, status>>
  BY DEF Substituting, Substituted, input, found
<1>2. left \in 0..Len(edits) /\ Len(edits) \in Nat /\ left \in Nat
  BY <1>1, EditsTyped DEF EditsAll
<1>3. left' \in 0..Len(edits) /\ left' + 1 = left /\ left' # Len(edits)
  BY <1>1, <1>2
<1>4. EditsAll'
  BY <1>1, <1>3, SameEdits
<1>5. Replaced(This, with) = Replacing(This.start)
  <2>1. text \in Seq(Token)
    BY DEF IInv, TextOK
  <2>2. output = Replacing(Upto)
    BY <1>1 DEF OutputOK
  <2> QED
    BY <1>1, <2>1, <2>2, EditMade
<1>6. Upto' = This.start
  BY <1>1, <1>3 DEF Upto, This
<1>7. Replacing(Upto)' = Replacing(This.start)
  <2>1. Replacing(Upto)' = SubSeq(text', 1, Upto') \o From(Parts')[Upto' + 1]
    BY DEF Replacing
  <2>2. Parts' = Parts /\ text' = text
    BY <1>1, SameReplacing
  <2> QED
    BY <1>6, <2>1, <2>2 DEF Replacing
<1>8. output' = Replacing(Upto)'
  BY <1>5, <1>7
<1>9. ASSUME NEW n \in (left' + 1)..Len(edits') PROVE edits'[n].answer # "other"
  <2>1. edits' = edits /\ n \in left..Len(edits)
    BY <1>1, <1>3
  <2>2. CASE n = left
    BY <2>1, <2>2 DEF This
  <2>3. CASE n # left
    <3>1. n \in (left + 1)..Len(edits)
      BY <1>2, <2>1, <2>3
    <3> QED
      BY <1>1, <2>1, <3>1 DEF OutputOK
  <2> QED
    BY <2>2, <2>3
<1>10. OutputOK'
  BY <1>8, <1>9 DEF OutputOK
<1> QED
  BY <1>4, <1>10

\* Where the edits and the includes start tells them apart.
LEMMA Starts ==
    ASSUME IInv, InOrder, EditsAll, status = "substituting"
    PROVE  /\ \A n, m \in DOMAIN edits : edits[n].start = edits[m].start => n = m
           /\ \A n, m \in DOMAIN edits : n < m => edits[n].start < edits[m].start
           /\ \A i, j \in DOMAIN includes : i < j => includes[i].start < includes[j].start
<1>1. ASSUME NEW n \in DOMAIN edits, NEW m \in DOMAIN edits, n < m
      PROVE  edits[n].start < edits[m].start
  <2>1. /\ edits[n].start \in Nat /\ edits[n].end \in Nat /\ edits[m].start \in Nat
        /\ edits[n].start < edits[n].end /\ edits[n].end <= edits[m].start
    BY <1>1, EditsTyped
  <2> QED
    BY <2>1
<1>2. ASSUME NEW n \in DOMAIN edits, NEW m \in DOMAIN edits,
             edits[n].start = edits[m].start
      PROVE  n = m
  <2>1. n \in Nat /\ m \in Nat /\ edits[n].start \in Nat /\ edits[m].start \in Nat
    BY EditsTyped
  <2>2. ~(n < m) /\ ~(m < n)
    BY <1>1, <1>2, <2>1
  <2> QED
    BY <2>1, <2>2
<1>3. ASSUME NEW i \in DOMAIN includes, NEW j \in DOMAIN includes, i < j
      PROVE  includes[i].start < includes[j].start
  <2>1. /\ includes[i].start \in Nat /\ includes[i].end \in Nat /\ includes[j].start \in Nat
        /\ includes[i].start < includes[i].end /\ includes[i].end <= includes[j].start
    BY <1>3, Typed DEF InOrder, IInv, FoundOK
  <2> QED
    BY <2>1
<1> QED
  BY <1>1, <1>2, <1>3

\* A quoted edit leaves the pages, and the includes they are of, as they are.
LEMMA DropQuotedPages ==
    IInv /\ InOrder /\ EditsAll /\ PagesBack /\ DropQuoted => PagesBack'
<1> SUFFICES ASSUME IInv, InOrder, EditsAll, PagesBack, DropQuoted PROVE PagesBack'
  OBVIOUS
<1>1. /\ status = "substituting" /\ left > 0 /\ This.answer = "quoted" /\ left' = left - 1
      /\ UNCHANGED <<includes, edits, pages>>
  BY DEF DropQuoted, Substituting, Substituted, found
<1>2. left \in 1..Len(edits) /\ left \in Nat /\ Len(edits) \in Nat
      /\ DOMAIN edits = 1..Len(edits)
  <2>1. left \in 0..Len(edits) /\ Len(edits) \in Nat /\ DOMAIN edits = 1..Len(edits)
    BY <1>1, EditsTyped DEF EditsAll
  <2> QED
    BY <1>1, <2>1
<1>3. ASSUME NEW i \in DOMAIN includes PROVE edits[left].start # includes[i].start
  <2>1. PICK n \in 1..Len(edits) : edits[n].answer # "quoted" /\ SameRange(edits[n], includes[i])
    BY <1>1 DEF EditsAll
  <2>2. n # left
    BY <1>1, <2>1 DEF This
  <2>3. edits[n].start # edits[left].start
    BY <1>1, <1>2, <2>2, Starts
  <2> QED
    BY <2>1, <2>3 DEF SameRange
<1>4. \A i \in DOMAIN includes :
        (\E n \in 1..left' : edits[n].start = includes[i].start)
          <=> (\E n \in 1..left : edits[n].start = includes[i].start)
  <2>1. \A n \in 1..left : n \in 1..left' \/ n = left
    BY <1>1, <1>2
  <2>2. 1..left' \subseteq 1..left
    BY <1>1, <1>2
  <2> QED
    BY <1>3, <2>1, <2>2
<1> QED
  BY <1>1, <1>4 DEF PagesBack

\* The page of an edit is that of the last include none is collected of yet.
LEMMA IncludePagePages ==
    IInv /\ InOrder /\ EditsAll /\ PagesBack /\ IncludePage => PagesBack'
<1> SUFFICES ASSUME IInv, InOrder, EditsAll, PagesBack, IncludePage PROVE PagesBack'
  OBVIOUS
<1> DEFINE a == Len(includes)
           c == Len(pages)
           k == a - c
<1>1. /\ status = "substituting" /\ left > 0 /\ This.answer # "quoted" /\ left' = left - 1
      /\ UNCHANGED <<includes, edits, status>> /\ pages' = Append(pages, This.page)
  BY DEF IncludePage, Substituting, Substituted, found
<1>2. left \in 1..Len(edits) /\ left \in Nat /\ Len(edits) \in Nat
      /\ DOMAIN edits = 1..Len(edits)
  <2>1. left \in 0..Len(edits) /\ Len(edits) \in Nat /\ DOMAIN edits = 1..Len(edits)
    BY <1>1, EditsTyped DEF EditsAll
  <2> QED
    BY <1>1, <2>1
<1>3. /\ DOMAIN includes = 1..a /\ a \in Nat /\ includes \in Seq(Block)
      /\ \A i \in DOMAIN includes : includes[i].start \in Nat
  BY Typed DEF IInv, FoundOK
<1>4. /\ pages \in Seq(Seq(Token)) /\ c \in Nat /\ c <= a
      /\ \A j \in 1..c : pages[j] = includes[a + 1 - j].page
      /\ \A i \in DOMAIN includes :
           i <= k <=> \E n \in 1..left : edits[n].start = includes[i].start
  BY <1>1, LenProperties DEF PagesBack
<1>5. /\ \A n, m \in DOMAIN edits : edits[n].start = edits[m].start => n = m
      /\ \A n, m \in DOMAIN edits : n < m => edits[n].start < edits[m].start
      /\ \A i, j \in DOMAIN includes : i < j => includes[i].start < includes[j].start
  BY <1>1, Starts
<1>6. \A n \in DOMAIN edits : edits[n].start \in Nat
  BY <1>1, EditsTyped
<1>7. PICK i \in DOMAIN includes :
        This.start = includes[i].start /\ This.page = includes[i].page
  BY <1>1, <1>2 DEF EditsAll, This, SameRange
<1>8. i \in Nat /\ k \in Nat /\ k <= a /\ i <= k
  <2>1. i <= k
    BY <1>2, <1>4, <1>7 DEF This
  <2> QED
    BY <1>3, <1>4, <2>1
<1>9. i = k
  <2> SUFFICES ASSUME i < k PROVE FALSE
    BY <1>8
  <2>1. k \in DOMAIN includes /\ k <= k
    BY <1>3, <1>8
  <2>2. PICK n \in 1..left : edits[n].start = includes[k].start
    BY <1>4, <2>1
  <2>3. includes[i].start < includes[k].start
    BY <1>5, <2>1
  <2>4. edits[left].start < edits[n].start
    BY <1>7, <2>2, <2>3 DEF This
  <2>5. n \in DOMAIN edits /\ left \in DOMAIN edits /\ n \in Nat /\ n <= left
    BY <1>2
  <2>6. edits[left].start \in Nat /\ edits[n].start \in Nat
    BY <1>6, <2>5
  <2>7. n # left
    BY <2>4, <2>6
  <2>8. edits[n].start < edits[left].start
    BY <1>2, <1>5, <2>5, <2>7
  <2> QED
    BY <2>4, <2>6, <2>8
<1> HIDE DEF a, c
<1>10. /\ pages' \in Seq(Seq(Token)) /\ Len(pages') = c + 1
       /\ \A j \in 1..c : pages'[j] = pages[j]
       /\ pages'[c + 1] = This.page
  <2>1. includes[i] \in Block
    BY <1>3, <1>7
  <2>2. This.page \in Seq(Token)
    BY <1>7, <2>1 DEF Block
  <2> DEFINE x == This.page
  <2> HIDE DEF x
  <2>3. x \in Seq(Token) /\ pages' = Append(pages, x)
    BY <1>1, <2>2 DEF x
  <2>4. /\ pages' \in Seq(Seq(Token)) /\ Len(pages') = Len(pages) + 1
        /\ \A j \in 1..Len(pages) : pages'[j] = pages[j]
        /\ pages'[Len(pages) + 1] = x
    BY <1>4, <2>3, AppendProperties
  <2> QED
    BY <2>4 DEF c, x
<1>11. c + 1 <= a /\ a - (c + 1) = k - 1 /\ a + 1 - (c + 1) = k
  BY <1>3, <1>4, <1>7, <1>8, <1>9
<1>12. ASSUME NEW j \in 1..(c + 1) PROVE pages'[j] = includes[a + 1 - j].page
  <2>1. CASE j = c + 1
    BY <1>7, <1>9, <1>10, <1>11, <2>1
  <2>2. CASE j # c + 1
    <3>1. j \in 1..c
      BY <1>4, <2>2
    <3> QED
      BY <1>4, <1>10, <3>1
  <2> QED
    BY <2>1, <2>2
<1>13. ASSUME NEW j \in DOMAIN includes
       PROVE  j <= k - 1 <=> \E n \in 1..left' : edits[n].start = includes[j].start
  <2>1. j \in Nat
    BY <1>3
  <2>2. ASSUME j <= k - 1 PROVE \E n \in 1..left' : edits[n].start = includes[j].start
    <3>1. j <= k /\ j < i
      BY <1>8, <1>9, <2>1, <2>2
    <3>2. PICK n \in 1..left : edits[n].start = includes[j].start
      BY <1>4, <3>1
    <3>3. includes[j].start < includes[i].start
      BY <1>5, <3>1
    <3>4. n # left
      BY <1>3, <1>7, <3>2, <3>3 DEF This
    <3>5. n \in 1..left'
      BY <1>1, <1>2, <3>4
    <3> QED
      BY <3>2, <3>5
  <2>3. ASSUME NEW n \in 1..left', edits[n].start = includes[j].start PROVE j <= k - 1
    <3>1. n \in 1..left /\ n # left /\ n \in DOMAIN edits /\ left \in DOMAIN edits
      BY <1>1, <1>2
    <3>2. j <= k
      BY <1>4, <2>3, <3>1
    <3>3. j # i
      BY <1>5, <1>7, <2>3, <3>1 DEF This
    <3> QED
      BY <1>8, <1>9, <2>1, <3>2, <3>3
  <2> QED
    BY <2>2, <2>3
<1> HIDE DEF k
<1>14. Len(includes') = a /\ includes' = includes /\ edits' = edits
  BY <1>1 DEF a
<1>15. Len(includes') - Len(pages') = k - 1 /\ Len(pages') <= Len(includes')
  BY <1>10, <1>11, <1>14
<1> QED
  BY <1>10, <1>12, <1>13, <1>14, <1>15 DEF PagesBack

LEMMA InitEdits == IncludesInit => EditsExact
<1> SUFFICES ASSUME IncludesInit PROVE EditsExact
  OBVIOUS
<1>1. status = "scanning" /\ includes = << >> /\ pages = << >>
  BY DEF IncludesInit, Unscanned
<1>2. InOrder
  BY <1>1 DEF InOrder
<1> QED
  BY <1>1, <1>2 DEF EditsExact, EditsAll, OutputOK, PagesOK, PagesBack, OutputMatches

\* Steps before and beside the substitution.
LEMMA NoEdits ==
    ASSUME InOrder', status' \notin {"substituting", "done"},
           status' \in Unedited => pages' = << >>
    PROVE  EditsExact'
BY DEF EditsExact, EditsAll, OutputOK, PagesOK, PagesBack, OutputMatches

LEMMA SearchEdits ==
    ASSUME EditsExact, UNCHANGED <<includes, pages>>, status \in Unedited, status' \in Unedited
    PROVE  EditsExact'
<1>1. status' \notin {"substituting", "done"}
  BY DEF Unedited, Searching, Parsing
<1>2. pages' = << >>
  BY DEF EditsExact, PagesOK
<1>3. InOrder'
  BY SameOrder DEF EditsExact
<1> QED
  BY <1>1, <1>2, <1>3, NoEdits

LEMMA FailEdits ==
    ASSUME EditsExact, UNCHANGED includes, status' \in {"failed", "invalid"}
    PROVE  EditsExact'
<1>1. InOrder'
  BY SameOrder DEF EditsExact
<1> QED
  BY <1>1, NoEdits DEF Unedited, Searching, Parsing

\* Without page syntax the text is returned as it is.
LEMMA DisabledEdits == IInv /\ EditsExact /\ Disabled => EditsExact'
<1> SUFFICES ASSUME IInv, EditsExact, Disabled PROVE EditsExact'
  OBVIOUS
<1>1. /\ status = "scanning" /\ status' = "done" /\ ~pageSyntax'
      /\ UNCHANGED <<text, includes, output>>
  BY DEF Disabled, input, found, results
<1>2. output = text
  BY <1>1 DEF IInv, TextOK, Unedited
<1>3. InOrder'
  BY <1>1, SameOrder DEF EditsExact
<1>4. OutputMatches'
  BY <1>1, <1>2 DEF OutputMatches
<1> QED
  BY <1>1, <1>3, <1>4 DEF EditsExact, EditsAll, OutputOK, PagesOK, PagesBack, Unedited,
                         Searching, Parsing

\* With the first edit made the whole text is what it becomes, and every include's page
\* is collected.
LEMMA FinishEdits == IInv /\ EditsExact /\ Finish => EditsExact'
<1> SUFFICES ASSUME IInv, EditsExact, Finish PROVE EditsExact'
  OBVIOUS
<1> DEFINE a == Len(includes)
           c == Len(pages)
<1>1. /\ status = "substituting" /\ left = 0 /\ status' = "done" /\ pages' = Reverse(pages)
      /\ UNCHANGED <<text, pageSyntax, includes, consumed, edits, output>>
  BY DEF Finish, Substituted, input, found
<1>2. text \in Seq(Token) /\ Len(text) \in Nat
  BY LenProperties DEF IInv, TextOK
<1>3. EditsAll /\ OutputOK /\ PagesBack /\ InOrder
  BY DEF EditsExact
<1>4. /\ pageSyntax /\ Len(edits) = Len(includes) + Len(consumed)
      /\ DOMAIN edits = 1..Len(edits)
      /\ \A n \in DOMAIN edits : edits[n].answer # "other"
  <2>1. pageSyntax /\ Len(edits) = Len(includes) + Len(consumed)
    BY <1>1, <1>3 DEF EditsAll
  <2>2. DOMAIN edits = 1..Len(edits)
    BY <1>1, <1>3, EditsTyped
  <2>3. \A n \in (left + 1)..Len(edits) : edits[n].answer # "other"
    BY <1>1, <1>3 DEF OutputOK
  <2>4. left + 1 = 1
    BY <1>1
  <2> QED
    BY <2>1, <2>2, <2>3, <2>4
<1>5. output = From(Parts)[1]
  <2>1. output = Replacing(Upto)
    BY <1>1, <1>3 DEF OutputOK
  <2>2. 0 \in Nat /\ 0 <= Upto /\ Upto \in Nat
    BY <1>1, <1>2, <1>3, UptoIs
  <2>3. \A n \in DOMAIN edits : n <= left => edits[n].end <= 0
    BY <1>1, <1>3, EditsTyped
  <2>4. Replacing(0) = Replacing(Upto)
    BY <1>1, <1>2, <1>3, <2>2, <2>3, BetweenEdits
  <2>5. From(Parts)[1] \in Seq(Token)
    <3>1. 1 \in 1..(Len(text) + 1)
      BY <1>2
    <3> QED
      BY <1>1, <1>2, <1>3, <3>1, FromParts
  <2> DEFINE f == From(Parts)[1]
  <2>6. SubSeq(text, 1, 0) = << >>
    BY <1>2
  <2>7. Replacing(0) = << >> \o f
    <3>1. Replacing(0) = SubSeq(text, 1, 0) \o From(Parts)[0 + 1]
      BY DEF Replacing
    <3>2. 0 + 1 = 1
      OBVIOUS
    <3> QED
      BY <2>6, <3>1, <3>2
  <2> HIDE DEF f
  <2>8. << >> \o f = f
    BY <2>5, ConcatEmptySeq DEF f
  <2> QED
    BY <2>1, <2>4, <2>7, <2>8 DEF f
<1>6. /\ pages \in Seq(Seq(Token)) /\ c \in Nat /\ c <= a
      /\ DOMAIN includes = 1..a /\ a \in Nat
      /\ \A j \in 1..c : pages[j] = includes[a + 1 - j].page
      /\ \A i \in DOMAIN includes :
           i <= a - c <=> \E n \in 1..left : edits[n].start = includes[i].start
  <2>1. pages \in Seq(Seq(Token)) /\ c \in Nat
    BY <1>1, <1>3, LenProperties DEF PagesBack
  <2>2. DOMAIN includes = 1..a /\ a \in Nat
    BY Typed DEF IInv
  <2> QED
    BY <1>1, <1>3, <2>1, <2>2 DEF PagesBack
<1> HIDE DEF a, c
<1>7. a = c
  <2> SUFFICES ASSUME a # c PROVE FALSE
    OBVIOUS
  <2>1. 1 \in 1..a /\ 1 <= a - c
    BY <1>6
  <2>2. 1..left = {}
    BY <1>1
  <2> QED
    BY <1>6, <2>1, <2>2
<1>8. pages' = [i \in 1..a |-> includes[i].page]
  <2>1. pages' = [i \in 1..c |-> pages[(c - i) + 1]]
    BY <1>1 DEF Reverse, c
  <2>2. ASSUME NEW i \in 1..c PROVE pages[(c - i) + 1] = includes[i].page
    <3>1. (c - i) + 1 \in 1..c /\ a + 1 - ((c - i) + 1) = i
      BY <1>6, <1>7
    <3>2. pages[(c - i) + 1] = includes[a + 1 - ((c - i) + 1)].page
      BY <1>6, <3>1
    <3> QED
      BY <3>1, <3>2
  <2> QED
    BY <1>7, <2>1, <2>2
<1>9. OutputMatches'
  <2>1. output' = From(Parts')[1]
    BY <1>1, <1>5, SameReplacing
  <2>2. pages' = [i \in DOMAIN includes' |-> includes'[i].page]
    BY <1>1, <1>6, <1>8
  <2>3. /\ Len(edits') = Len(includes') + Len(consumed')
        /\ \A n \in DOMAIN edits' : edits'[n].answer # "other"
        /\ pageSyntax'
    BY <1>1, <1>4
  <2> QED
    BY <2>1, <2>2, <2>3 DEF OutputMatches
<1>10. InOrder'
  BY <1>1, <1>3, SameOrder
<1> QED
  BY <1>1, <1>9, <1>10 DEF EditsExact, EditsAll, OutputOK, PagesOK, PagesBack, Unedited,
                          Searching, Parsing

LEMMA EditSteps ==
    IInv /\ EditsExact /\ (DropQuoted \/ IncludePage) => EditsExact'
<1> SUFFICES ASSUME IInv, EditsExact, DropQuoted \/ IncludePage PROVE EditsExact'
  OBVIOUS
<1>1. EditsAll /\ OutputOK /\ PagesBack /\ InOrder
  BY DEF EditsExact
<1>2. /\ status' = "substituting" /\ Substituting /\ Substituted /\ status' = status
      /\ left' = left - 1 /\ This.answer # "other" /\ UNCHANGED includes
  BY DEF DropQuoted, IncludePage, Substituting, Substituted, found
<1>3. EditsAll' /\ OutputOK'
  <2>1. CASE DropQuoted
    <3>1. /\ output' = Replaced(This, << >>)
          /\ << >> = IF This.answer = "quoted"
                       THEN << >> ELSE Separated(This, With(This.answer))
      BY <2>1 DEF DropQuoted
    <3> QED
      BY <1>1, <1>2, <3>1, EditOutput
  <2>2. CASE IncludePage
    <3> DEFINE with == Separated(This, With(This.answer))
    <3>1. output' = Replaced(This, with) /\ This.answer # "quoted"
      BY <2>2 DEF IncludePage
    <3>2. with = IF This.answer = "quoted"
                   THEN << >> ELSE Separated(This, With(This.answer))
      BY <3>1
    <3> HIDE DEF with
    <3> QED
      BY <1>1, <1>2, <3>1, <3>2, EditOutput
  <2> QED
    BY <2>1, <2>2
<1>4. PagesBack'
  BY <1>1, DropQuotedPages, IncludePagePages
<1>5. InOrder'
  BY <1>1, <1>2, SameOrder
<1> QED
  BY <1>2, <1>3, <1>4, <1>5 DEF EditsExact, PagesOK, OutputMatches, Unedited, Searching,
                               Parsing

LEMMA NextEdits == IInv /\ EditsExact /\ [IncludesNext]_includesVars => EditsExact'
<1> SUFFICES ASSUME IInv, EditsExact, [IncludesNext]_includesVars PROVE EditsExact'
  OBVIOUS
<1>1. CASE Disabled
  BY <1>1, DisabledEdits
<1>2. CASE FindOpener \/ SkipRest \/ TakePlain \/ TakeLines \/ TakeRegion \/ NotABlock
           \/ FoundQuoted
  <2>1. status \in Unedited /\ status' \in Unedited
    BY <1>2 DEF FindOpener, Scanning, SkipRest, TakePlain, Bounded, TakeLines, TakeRegion,
                TakeQuoted, Take, NotABlock, Refused, FoundQuoted, Scanned, Unedited,
                Searching, Parsing
  <2>2. UNCHANGED <<includes, pages>>
    BY <1>2 DEF FindOpener, SkipRest, TakePlain, TakeLines, TakeRegion, TakeQuoted, Take,
                NotABlock, FoundQuoted, Scanned, found, results
  <2> QED
    BY <2>1, <2>2, SearchEdits
<1>3. CASE FoundPlain
  <2>1. InOrder'
    BY <1>3, FoundPlainOrder DEF EditsExact
  <2>2. status = "plain" /\ status' = "scanning" /\ UNCHANGED pages
    BY <1>3 DEF FoundPlain, Scanned, results
  <2>3. pages' = << >>
    BY <2>2 DEF EditsExact, PagesOK, Unedited, Searching, Parsing
  <2> QED
    BY <2>1, <2>2, <2>3, NoEdits
<1>4. CASE FetchFails \/ FetchMiscounts \/ OtherPage \/ NoSuchIncludeFails
  <2>1. UNCHANGED includes /\ status' \in {"failed", "invalid"}
    BY <1>4 DEF FetchFails, FetchMiscounts, OtherPage, NoSuchIncludeFails, Answered,
                Substituted, found
  <2> QED
    BY <2>1, FailEdits
<1>5. CASE FetchAnswers
  <2>1. EditsAll'
    BY <1>5, FetchAnswersEdits
  <2>2. OutputOK' /\ PagesBack'
    BY <1>5, FetchAnswersOutput DEF EditsExact
  <2>3. status' = "substituting" /\ UNCHANGED includes
    BY <1>5 DEF FetchAnswers, Substitutes, Answered, found
  <2>4. InOrder'
    BY <2>3, SameOrder DEF EditsExact
  <2> QED
    BY <2>1, <2>2, <2>3, <2>4 DEF EditsExact, PagesOK, OutputMatches, Unedited, Searching,
                                 Parsing
<1>6. CASE DropQuoted \/ IncludePage
  BY <1>6, EditSteps
<1>7. CASE Finish
  BY <1>7, FinishEdits
<1>8. CASE UNCHANGED includesVars
  <2>1. UNCHANGED <<text, pageSyntax, includes, consumed, edits, left, output, pages, status>>
    BY <1>8 DEF includesVars, input, found, results
  <2>2. Parts' = Parts /\ \A p : Replacing(p)' = Replacing(p)
    BY <2>1, SameReplacing
  <2>3. Upto' = Upto
    BY <2>1 DEF Upto
  <2>4. InOrder' /\ PagesOK'
    BY <2>1, SameOrder DEF EditsExact, PagesOK
  <2>5. EditsAll'
    BY <2>1 DEF EditsExact, EditsAll, SameRange
  <2>6. OutputOK'
    <3>1. Replacing(Upto)' = SubSeq(text', 1, Upto') \o From(Parts')[Upto' + 1]
      BY DEF Replacing
    <3>2. Replacing(Upto)' = Replacing(Upto)
      BY <2>1, <2>2, <2>3, <3>1 DEF Replacing
    <3> QED
      BY <2>1, <3>2 DEF EditsExact, OutputOK
  <2>7. PagesBack'
    BY <2>1 DEF EditsExact, PagesBack
  <2>8. OutputMatches'
    BY <2>1, <2>2 DEF EditsExact, OutputMatches
  <2> QED
    BY <2>4, <2>5, <2>6, <2>7, <2>8 DEF EditsExact
<1> QED
  BY <1>1, <1>2, <1>3, <1>4, <1>5, <1>6, <1>7, <1>8 DEF IncludesNext

\* For every text, page and answer: when include() succeeds, it returns the text with every
\* include put in place once by its page on lines of its own, every quoted include
\* dropped and all else as it was, and the pages in the order of the text.
THEOREM OutputExact == IncludesSpec => []OutputMatches
<1>1. EditsExact => OutputMatches
  BY DEF EditsExact
<1>2. IncludesSpec => []EditsExact
  BY InitEdits, NextEdits, Invariance, PTL DEF IncludesSpec
<1> QED
  BY <1>1, <1>2, PTL

=============================================================================
