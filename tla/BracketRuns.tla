----------------------------- MODULE BracketRuns -----------------------------
(***************************************************************************)
(* repair_bracket_run_tokenization: the tokenizer reads `[[[[' as `[' and  *)
(* `[[['.  Each such pair is split again where a block then parses: two    *)
(* openers (a block whose name starts with an [[iftags]] segment), or two  *)
(* brackets in front of an opener.  So is `[[[!--', as an opener and a     *)
(* comment.                                                                *)
(*                                                                         *)
(* Trying a reading costs a parser, so two gates are asked first, and both *)
(* remember how far they have looked: the head gate, whether anything is   *)
(* left that could end a block head, and the name gate, whether what       *)
(* follows could be a block's name.                                        *)
(*                                                                         *)
(* A token is its characters, and a word is one character.  Whether a      *)
(* block parses beyond its name is taken as given for every offset.  Left  *)
(* out: `]]]', controls, the scored and residual openers, and limits on    *)
(* how far the gates look.                                                 *)
(***************************************************************************)
EXTENDS Integers, Sequences, FiniteSets, SequencesExt

CONSTANTS Pages, \* the pages to repair, as the tokenizer hands them over
          Legacy \* settings.layout.legacy()

Kind == {"[", "[[", "[[[", "[!--", "[[/", "]", "]]", "!", "--", " ", "nl",
         "iftags", "name", "word"}

VARIABLES source,   \* the text
          tokens,   \* its tokens, repaired up to index
          index,    \* the token the scan is at
          gate,     \* BracketRunHeadGate; next 0 stands for None
          stretch,  \* BracketRunNameGate
          tagged,   \* do the page's tags meet the conditions of segments?
          complete  \* the offsets at which a block with a known name parses

text == <<source, tagged, complete>>
vars == <<text, tokens, index, gate, stretch>>

-----------------------------------------------------------------------------
(* Tokens *)

Token == [token : Kind, start : Nat, end : Nat]

Chars(kind) ==
    CASE kind = "["    -> <<"[">>
      [] kind = "[["   -> <<"[", "[">>
      [] kind = "[[["  -> <<"[", "[", "[">>
      [] kind = "[!--" -> <<"[", "!", "-", "-">>
      [] kind = "[[/"  -> <<"[", "[", "/">>
      [] kind = "]]"   -> <<"]", "]">>
      [] kind = "--"   -> <<"-", "-">>
      [] OTHER         -> <<kind>>

Width(kind) == Len(Chars(kind))

Tok(kind, start) == [token |-> kind, start |-> start, end |-> start + Width(kind)]

\* A token has the characters at its place in text s.
Holds(t, s) ==
    /\ t.end = t.start + Width(t.token)
    /\ \A k \in 1..Width(t.token) : s[t.start + k] = Chars(t.token)[k]

\* Tokens c are text s from end to end.
Tiles(c, s) ==
    /\ \A i \in DOMAIN c : /\ c[i].start = IF i = 1 THEN 0 ELSE c[i - 1].end
                           /\ Holds(c[i], s)
    /\ Len(s) = IF c = << >> THEN 0 ELSE c[Len(c)].end

ASSUME PagesAssumption ==
    \A page \in Pages : /\ page.tokens \in Seq(Token)
                        /\ Tiles(page.tokens, page.source)

ASSUME LegacyAssumption == Legacy \in BOOLEAN

Is(c, i, kind) == i <= Len(c) /\ c[i].token = kind

Least(S) == CHOOSE i \in S : \A j \in S : i <= j

Words == {"iftags", "name", "word"}
Ends  == {" ", "nl", "]]"} \* what ends a name

\* Tokens from i on that are not white space.
PastSpace(c, i) == IF Is(c, i, " ") THEN i + 1 ELSE i

\* comment_closer_token_count_at
Closers(c, i) ==
    {k \in (i + 2)..Len(c) : c[k].token = "]" /\ c[k - 1].token = "--"}

-----------------------------------------------------------------------------
(* The name of a block *)

\* head_name, of an opener or closer at i.
NameAt(c, i) == PastSpace(c, i + 1)

NamesIftags(c, i) ==
    LET k == NameAt(c, i)
    IN  Is(c, k, "iftags") /\ k < Len(c) /\ c[k + 1].token \in Ends

\* Where the tag ends that token i is in, on its line.
TagEnds(c, i) ==
    {k \in i..Len(c) : /\ c[k].token = "]]"
                      /\ \A j \in i..(k - 1) : c[j].token \notin {"]]", "nl"}}

IftagsIn(c, from, to, kind) ==
    {k \in from..to : Is(c, k, kind) /\ NamesIftags(c, k)}

Balanced(c, from, to) ==
    Cardinality(IftagsIn(c, from, to, "[[")) = Cardinality(IftagsIn(c, from, to, "[[/"))

\* scan_segment: an [[iftags]] segment at i, where its body starts and the tag that
\* ends it.  Without conditions it is one in a legacy layout only.
Segments(c, i) ==
    {s \in [body : {k + 1 : k \in TagEnds(c, i)}, closer : (i + 1)..Len(c)] :
        /\ Is(c, i, "[[") /\ NamesIftags(c, i)
        /\ Legacy \/ \E k \in (NameAt(c, i) + 1)..(s.body - 2) : c[k].token # " "
        /\ s.closer \in IftagsIn(c, s.body, Len(c), "[[/")
        /\ \A k \in s.body..s.closer : c[k].token # "nl"
        /\ Balanced(c, s.body, s.closer - 1)
        /\ \A k \in IftagsIn(c, s.body, s.closer - 1, "[[/") : ~Balanced(c, s.body, k - 1)
        /\ TagEnds(c, s.closer) # {}}

Body(c, s) ==
    IF tagged THEN [k \in 1..(s.closer - s.body) |-> c[s.body + k - 1].token] ELSE << >>

After(c, s) == Least(TagEnds(c, s.closer)) + 1

\* collect_text_resolved_impl from a token on, with segments put in and comments
\* left out; "end" where the word does not end.
Collected(c) ==
    LET word[i \in 1..(Len(c) + 1)] ==
            IF i > Len(c) THEN <<"end">>
            ELSE IF c[i].token \in Ends THEN << >>
            ELSE IF c[i].token = "[!--"
              THEN IF Closers(c, i) = {} THEN <<"end">> ELSE word[Least(Closers(c, i)) + 1]
            ELSE IF Segments(c, i) # {}
              THEN LET s == CHOOSE s \in Segments(c, i) : TRUE
                   IN  Body(c, s) \o word[After(c, s)]
            ELSE <<c[i].token>> \o word[i + 1]
    IN  word

\* bracket_run_lookup_may_match, of a word that is trimmed.
Known(word) ==
    \E k \in DOMAIN word : /\ word[k] \in {"name", "iftags"}
                           /\ \A j \in DOMAIN word \ {k} : word[j] = " "

\* get_block_name; only the native layout takes white space in front of it.
NameFrom(c, i) == IF Legacy THEN i ELSE PastSpace(c, i)

HeadNamesBlock(c, i) ==
    Is(c, i, "[[") /\ NameFrom(c, i + 1) <= Len(c)
        /\ Known(Collected(c)[NameFrom(c, i + 1)])

\* bracket_run_block_parses
BlockParses(c, i) == HeadNamesBlock(c, i) /\ c[i].start \in complete

\* bracket_run_segment_prefix: a segment and what goes on behind it are one word.
SegmentPrefix(c, i) ==
    \E s \in Segments(c, i) :
        LET from == After(c, s)
            to   == Least({k \in from..(Len(c) + 1) :
                              k > Len(c) \/ c[k].token \notin Words \cup {"--"}})
        IN  /\ Body(c, s) # << >> \/ to > from
            /\ to <= Len(c) => c[to].token \in {"]", "]]", " ", "nl"}

-----------------------------------------------------------------------------
(* The head gate *)

\* bracket_run_iftags_head_may_start
IftagsMayStart(c, i) ==
    LET k == PastSpace(c, i + 1)
    IN  Is(c, k, "iftags") /\ (k < Len(c) => c[k + 1].token \in Ends \cup {"]"})

\* bracket_run_token_can_end_head
CanEndHead(c, i) ==
    \/ c[i].token \in Ends \cup {"]"}
    \/ c[i].token = "[[" /\ IftagsMayStart(c, i)

HeadEnds(c, from) == {i \in from..Len(c) : CanEndHead(c, i)}

\* Mutated form: what was found may lie in front.
AskedOnce(from) ==
    LET ends == HeadEnds(tokens, IF gate.scanned > from THEN gate.scanned ELSE from)
    IN  IF gate.next # 0 \/ gate.scanned > from THEN gate
        ELSE IF ends = {} THEN [next |-> 0, scanned |-> Len(tokens) + 1]
        ELSE [next |-> Least(ends), scanned |-> Least(ends) + 1]

\* has_head_terminator_at_or_after: the gate after the question, and its answer.
Asked(from) ==
    LET ends == HeadEnds(tokens, IF gate.scanned > from THEN gate.scanned ELSE from)
    IN  IF gate.next >= from \/ (gate.next = 0 /\ gate.scanned > from) THEN gate
        ELSE IF ends = {} THEN [next |-> 0, scanned |-> Len(tokens) + 1]
        ELSE [next |-> Least(ends), scanned |-> Least(ends) + 1]

HeadMayEnd(from) == Asked(from).next # 0

-----------------------------------------------------------------------------
(* The name gate *)

\* Where the word from a token on ends, comments passed over; 0 if it does not.
Stops(c) ==
    LET stop[i \in 1..(Len(c) + 1)] ==
            IF i > Len(c) THEN 0
            ELSE IF c[i].token \in Ends THEN i
            ELSE IF c[i].token = "[!--"
              THEN IF Closers(c, i) = {} THEN 0 ELSE stop[Least(Closers(c, i)) + 1]
            ELSE stop[i + 1]
    IN  stop

Word(i, stop) == [k \in 1..(stop - i) |-> tokens[i + k - 1].token]

\* bracket_run_iftags_closer_may_match
CloserMayMatch(i) ==
    LET k == PastSpace(tokens, i + 1)
        stop == Least({j \in k..(Len(tokens) + 1) :
                          j > Len(tokens) \/ tokens[j].token \in Ends})
    IN  stop = k \/ Word(k, stop) = <<"iftags">>

\* bracket_run_segment_may_form
SegmentMayForm(i, stop) ==
    \E k \in i..(stop - 1) : \E j \in (k + 1)..Len(tokens) :
        /\ Is(tokens, k, "[[") /\ IftagsMayStart(tokens, k)
        /\ Is(tokens, j, "[[/") /\ CloserMayMatch(j)

\* A stretch of tokens up to the end of a word; letter is the first word in it, or
\* 0, if a comment in it was passed over.
Stretch(i, stop) ==
    LET words == {k \in i..(stop - 1) : tokens[k].token \in Words}
    IN  [head |-> i, stop |-> stop,
         kind |-> IF \E k \in i..(stop - 1) : Is(tokens, k, "[!--") THEN "comment" ELSE "plain",
         letter |-> IF words = {} THEN 0 ELSE Least(words)]

\* What a stretch tells of the word from i on.
Tells(s, i) ==
    IF s.kind = "plain" THEN Known(Word(i, s.stop)) ELSE s.letter >= i

\* Mutated form: letters in front of the word are not looked past.
RemembersAll(i) == {s \in stretch : s.head <= i /\ i <= s.stop}

Remembers(i) ==
    {s \in stretch : /\ s.head <= i /\ i <= s.stop
                     /\ s.kind = "comment" => s.letter = 0 \/ s.letter >= i}

\* head_name_may_form: its answer, and the stretches it remembers.
MayNameAfresh(i) ==
    \E stop \in {Stops(tokens)[i]} :
        stop # 0 /\ (SegmentMayForm(i, stop) \/ Tells(Stretch(i, stop), i))

MayName(i) ==
    /\ i <= Len(tokens)
    /\ IF Remembers(i) # {} THEN \A s \in Remembers(i) : Tells(s, i)
                            ELSE MayNameAfresh(i)

Remembered(i) ==
    IF i > Len(tokens) \/ Remembers(i) # {} THEN stretch
    ELSE IF Stops(tokens)[i] = 0 \/ SegmentMayForm(i, Stops(tokens)[i]) THEN stretch
    ELSE {Stretch(i, Stops(tokens)[i])}

-----------------------------------------------------------------------------
(* The scan *)

PairsOf(c) == {i \in DOMAIN c : Is(c, i, "[") /\ Is(c, i + 1, "[[[")}

Init ==
    /\ \E page \in Pages : tokens = page.tokens /\ source = page.source
    /\ index = 1
    /\ gate = [next |-> 0, scanned |-> 1] /\ stretch = {}
    /\ tagged \in BOOLEAN
    /\ complete \in SUBSET {tokens[i].start + d : i \in PairsOf(tokens), d \in {0, 2}}

Scanning == index < Len(tokens)
Here     == tokens[index].start

CommentHead ==
    /\ Scanning
    /\ Is(tokens, index, "[[[") /\ Is(tokens, index + 1, "!") /\ Is(tokens, index + 2, "--")

Pair == Scanning /\ index \in PairsOf(tokens)

Spliced(n, with) ==
    SubSeq(tokens, 1, index - 1) \o with \o SubSeq(tokens, index + n, Len(tokens))

\* Mutated form: the second bracket is taken twice.
AsPrefixTwice ==
    Spliced(2, <<Tok("[", Here), Tok("[", Here), Tok("[[", Here + 2)>>)

\* The readings.
AsComment == Spliced(3, <<Tok("[[", Here), Tok("[!--", Here + 2)>>)
AsSegment == Spliced(2, <<Tok("[[", Here), Tok("[[", Here + 2)>>)
AsPrefix  == Spliced(2, <<Tok("[", Here), Tok("[", Here + 1), Tok("[[", Here + 2)>>)

\* A comment head is read as one already if its name is known.
CommentParses == \E c \in {AsComment} : HeadNamesBlock(c, index)
SegmentParses == \E c \in {AsSegment} : BlockParses(c, index)
PrefixParses  == \E c \in {AsPrefix} : BlockParses(c, index + 2)
SegmentHolds  == \E c \in {AsSegment} : SegmentPrefix(c, index + 1)

Commit(reading, n) ==
    /\ tokens' = reading
    /\ index' = index + n
    /\ gate' = [next |-> 0, scanned |-> index + n] /\ stretch' = {}
    /\ UNCHANGED text

Pass(asked, remembered) ==
    /\ index' = index + 1
    /\ gate' = asked /\ stretch' = remembered
    /\ UNCHANGED <<text, tokens>>

NoRun == Scanning /\ ~CommentHead /\ ~Pair /\ Pass(gate, stretch)

CommentRead ==
    /\ CommentHead /\ HeadMayEnd(index + 3) /\ CommentParses
    /\ Commit(AsComment, 2)

CommentLeft ==
    /\ CommentHead /\ ~(HeadMayEnd(index + 3) /\ CommentParses)
    /\ Pass(Asked(index + 3), stretch)

NoHead ==
    /\ Pair /\ ~HeadMayEnd(index + 2)
    /\ Pass(Asked(index + 2), stretch)

\* Mutated form: white space in front of the name is not passed over.
NameStartAtOnce == index + 2

\* The token the name gate looks from.
NameStart == NameFrom(tokens, index + 2)

NoName ==
    /\ Pair /\ HeadMayEnd(index + 2) /\ ~MayName(NameStart)
    /\ Pass(Asked(index + 2), Remembered(NameStart))

Tried == Pair /\ HeadMayEnd(index + 2) /\ MayName(NameStart)

SegmentRead == Tried /\ SegmentParses /\ Commit(AsSegment, 2)

PrefixRead == Tried /\ ~SegmentParses /\ PrefixParses /\ Commit(AsPrefix, 3)

SegmentPrefixRead ==
    /\ Tried /\ ~SegmentParses /\ ~PrefixParses /\ SegmentHolds
    /\ Commit(AsSegment, 2)

PairLeft ==
    /\ Tried /\ ~SegmentParses /\ ~PrefixParses /\ ~SegmentHolds
    /\ Pass(Asked(index + 2), Remembered(NameStart))

Next ==
    \/ NoRun \/ CommentRead \/ CommentLeft \/ NoHead \/ NoName
    \/ SegmentRead \/ PrefixRead \/ SegmentPrefixRead \/ PairLeft

Spec == Init /\ [][Next]_vars

-----------------------------------------------------------------------------
(* Properties *)

\* The text and its tokens, and what the gates remember of them.
TypeOK ==
    /\ tokens \in Seq(Token)
    /\ index \in Nat \ {0}
    /\ gate \in [next : Nat, scanned : Nat]
    /\ gate.next # 0 => gate.next \in DOMAIN tokens

\* Whatever is split again, the tokens are the text from end to end: each holds the
\* characters at its place and starts where the one before it ended.
TokensTile == Tiles(tokens, source)

\* The head gate answers as if it looked at all the tokens (mod.rs:572-574): it is
\* asked in order, and again from nothing after the tokens have changed.
Exact(from) == HeadMayEnd(from) <=> HeadEnds(tokens, from) # {}

HeadGateExact ==
    /\ Pair => Exact(index + 2)
    /\ CommentHead => Exact(index + 3)

\* The name gate refuses nothing for what it remembers that it would let pass if it
\* looked afresh.
MemoryRefusesNoMore ==
    Pair /\ NameStart <= Len(tokens) /\ MayNameAfresh(NameStart) => MayName(NameStart)

\* The gates only spare attempts: a pair one of whose readings parses is split that
\* way (mod.rs:396-401).
ParsingReadingTaken ==
    /\ Pair /\ (SegmentParses \/ PrefixParses \/ SegmentHolds) => Tried
    /\ CommentHead /\ CommentParses => HeadMayEnd(index + 3)

=============================================================================
