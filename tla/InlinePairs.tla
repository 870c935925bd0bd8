----------------------------- MODULE InlinePairs -----------------------------
(***************************************************************************)
(* Which inline markers of a page are pairs (inline_pairs.rs).  A page is  *)
(* cut into chunks at blank lines and blocks; in a chunk each construct    *)
(* pairs its own markers, first fit, in a fixed order.  Where two pairs    *)
(* interleave, which a recursive parser cannot express, or a marker is     *)
(* left over among pairs, every marker of the chunk is given a role and    *)
(* the parser emits flat events; any other chunk is parsed as usual.       *)
(*                                                                         *)
(* A page is a sequence of tokens; the head of a block is one token.       *)
(* These are operators on a page: nothing here has a state.                *)
(***************************************************************************)
EXTENDS Integers, Sequences, FiniteSets, SequencesExt, FiniteSetsExt

CONSTANTS Colors,       \* what normalize_wikidot_color takes, as sequences of tokens
          MaxColorHead  \* MAX_COLOR_HEAD_TOKENS

ASSUME InlinePairsAssumption == MaxColorHead \in Nat

\* The symmetric markers, in the order their rules run around the monospace rule.
BeforeMono == <<"**", "//", "__", "--">>
AfterMono == <<"^^", ",,">>
Markers == Range(BeforeMono) \cup Range(AfterMono) \cup {"{{", "}}", "##"}

\* Heads and ends of blocks, an aligned image, the end of the page.
ListEnds == {"list", "endlist"}
Structure == ListEnds \cup {"block", "note", "image", "end"}
Barriers == Structure \cup {"para"}
Opaque == {"link"}

OtherBlocks == {"block", "note", "image", "scope"}

\* 0 is None.
FirstIn(S) == IF S = {} THEN 0 ELSE Min(S)
LastIn(S) == IF S = {} THEN 0 ELSE Max(S)
Sorted(S) == SelectSeq([i \in 1..LastIn(S) |-> i], LAMBDA i : i \in S)

\* The value of a set of one value: {F(x) : x \in {e}} evaluates e once.
Only(S) == CHOOSE x \in S : TRUE

-----------------------------------------------------------------------------
(* One rule on one chunk.  A rule takes what is not removed as adjacent.    *)

NoScan == [pairs |-> {}, removed |-> {}]
Paired(scan, open, close, kind) ==
    [scan EXCEPT !.pairs = @ \cup {[open |-> open, close |-> close, kind |-> kind]}]
Removed(scan, positions) == [scan EXCEPT !.removed = @ \cup positions]
Merged(a, b) == [pairs |-> a.pairs \cup b.pairs, removed |-> a.removed \cup b.removed]

Before(chunk, scan, i) == LastIn({j \in chunk \ scan.removed : j < i})
Behind(chunk, scan, i) == FirstIn({j \in chunk \ scan.removed : j > i})
IsSpace(page, i) == i = 0 \/ page[i] = "sp"

\* Mutated form: the marker right behind the opener may close it.
FirstCloser(slot, adjacent) == slot + 1

\* The marker right behind the opener cannot close it: the body would be empty.
CloserFrom(slot, adjacent) == IF adjacent THEN slot + 2 ELSE slot + 1

\* pair_symmetric; a strike has no empty form.
Symmetric(page, chunk, scan, m) ==
    LET slots == Sorted({i \in chunk \ scan.removed : page[i] = m})
        n == Len(slots)
        Unpadded(k) == ~IsSpace(page, Before(chunk, scan, slots[k]))
        From[k \in 1..(n + 2)] ==
            IF k > n THEN NoScan
            ELSE LET next == Behind(chunk, scan, slots[k])
                     adjacent == k < n /\ slots[k + 1] = next
                     closer == IF IsSpace(page, next) THEN 0
                               ELSE FirstIn({c \in CloserFrom(k, adjacent)..n : Unpadded(c)})
                 IN  IF adjacent /\ m # "--"
                       THEN Removed(From[k + 2], {slots[k], slots[k + 1]})
                     ELSE IF closer = 0 THEN From[k + 1]
                     ELSE Paired(From[closer + 1], slots[k], slots[closer], m)
    IN  Merged(scan, From[1])

\* color_head: where the bar behind a color is, or 0.
ColorBar(page, chunk, open) ==
    LET bar == FirstIn({j \in chunk : j > open /\ page[j] \notin {"x", "sp", "##", "--"}})
    IN  IF /\ bar # 0 /\ page[bar] = "|" /\ bar <= open + MaxColorHead
           /\ SubSeq(page, open + 1, bar - 1) \in Colors
          THEN bar ELSE 0

\* pair_color takes the head out of the text.
Colored(page, chunk) ==
    LET end == Max(chunk)
        From[i \in Min(chunk)..(end + 1)] ==
            IF i > end THEN NoScan
            ELSE LET bar == IF page[i] = "##" THEN ColorBar(page, chunk, i) ELSE 0
                     close == IF bar = 0 THEN 0
                              ELSE FirstIn({j \in (bar + 2)..end : page[j] = "##"})
                 IN  IF close = 0 THEN From[i + 1]
                     ELSE Paired(Removed(From[close + 1], (i + 1)..bar), i, close, "##")
    IN  From[Min(chunk)]

\* The last of the closers in a row from the first one behind an opener.
MonoClose(page, chunk, open) ==
    LET first == FirstIn({j \in chunk : j > open /\ page[j] = "}}"})
    IN  IF first = 0 THEN 0
        ELSE LastIn({j \in chunk : j >= first /\ \A k \in first..j : page[k] = "}}"})

\* pair_monospace, and whether a brace behind a closer makes it give up.
Monospaced(page, chunk, scan) ==
    LET end == Max(chunk)
        From[i \in Min(chunk)..(end + 1)] ==
            IF i > end THEN [done |-> NoScan, split |-> FALSE]
            ELSE LET close == IF page[i] = "{{" THEN MonoClose(page, chunk, i) ELSE 0
                     rest == From[close + 1]
                 IN  IF close = 0 THEN From[i + 1]
                     ELSE IF close < end /\ page[close + 1] = "}"
                       THEN [done |-> NoScan, split |-> TRUE]
                     ELSE [rest EXCEPT !.done =
                              IF Behind(chunk, scan, i) = close
                                THEN Removed(@, {i, close}) ELSE Paired(@, i, close, "{{")]
        whole == From[Min(chunk)]
    IN  [done |-> Merged(scan, whole.done), split |-> whole.split]

\* The rules in their order.
ScanOf(page, chunk) ==
    LET Rule(s, m) == Only({Symmetric(page, chunk, t, m) : t \in {s}})
        Rules(scan, ms) == FoldLeft(Rule, scan, ms)
        After(mono) == [done |-> IF mono.split THEN NoScan ELSE Rules(mono.done, AfterMono),
                        split |-> mono.split]
        Mono(scan) == Monospaced(page, chunk, scan)
    IN  Only({After(mono) : mono \in {Mono(s) : s \in {Rules(Colored(page, chunk), BeforeMono)}}})

-----------------------------------------------------------------------------
(* The roles of a chunk's markers. *)

ByOpen(pairs) ==
    LET opens == Sorted({p.open : p \in pairs})
    IN  [k \in DOMAIN opens |-> CHOOSE p \in pairs : p.open = opens[k]]

\* pairs_interleave: a stack of the closers that have not been passed, innermost last.
PairsInterleave(pairs) ==
    LET order == ByOpen(pairs)
        Step(s, p) ==
            LET kept == SelectSeq(s.open, LAMBDA c : c >= p.open)
            IN  IF s.found \/ (kept # << >> /\ Last(kept) < p.close)
                  THEN [s EXCEPT !.found = TRUE]
                  ELSE [s EXCEPT !.open = Append(kept, p.close)]
    IN  FoldLeft(LAMBDA s, p : Only({Step(t, p) : t \in {s}}),
                 [open |-> << >>, found |-> FALSE], order).found

MarkersIn(page, chunk) == {i \in chunk : page[i] \in Markers}

\* A marker is left over among pairs of other constructs.
LeftOver(page, chunk, scan) ==
    LET markers == MarkersIn(page, chunk)
        paired == 2 * Cardinality(scan.pairs) + Cardinality(markers \cap scan.removed)
        kinds == {IF page[i] = "}}" THEN "{{" ELSE page[i] : i \in markers}
    IN  paired > 0 /\ Cardinality(markers) > paired /\ Cardinality(kinds) > 1

Open(k) == [mark |-> "open", kind |-> k]
Close(k) == [mark |-> "close", kind |-> k]
Literal == [mark |-> "literal", kind |-> "-"]
Deleted == [mark |-> "removed", kind |-> "-"]

\* removed_bold_kept_for_footnote_rule
KeptForNote(page, chunk, scan, i) ==
    LET IsRemovedBold(j) == j \in chunk /\ page[j] = "**" /\ j \in scan.removed
        last == IF IsRemovedBold(i + 1) THEN i + 1 ELSE i
    IN  /\ IsRemovedBold(i) /\ (IsRemovedBold(i + 1) \/ IsRemovedBold(i - 1))
        /\ last = Max(chunk) /\ page[last + 1] = "note"

RolesOf(page, chunk, scan) ==
    LET Kept(i) == KeptForNote(page, chunk, scan, i)
        Role(i) ==
            IF \E p \in scan.pairs : p.open = i
              THEN Open((CHOOSE p \in scan.pairs : p.open = i).kind)
            ELSE IF \E p \in scan.pairs : p.close = i
              THEN Close((CHOOSE p \in scan.pairs : p.close = i).kind)
            ELSE IF i \in scan.removed THEN Deleted ELSE Literal
    IN  [i \in {j \in MarkersIn(page, chunk) : j \in scan.removed => ~Kept(j)} |-> Role(i)]

\* scan_chunk; beside a block's structure, a strong marker alone is literal and an empty
\* pair of them is deleted.
ChunkRoles(page, chunk, imageBounded, structure, listClean) ==
    LET markers == MarkersIn(page, chunk)
        bare == structure /\ \A i \in chunk : page[i] \in Markers \cup {"sp", "nl"}
        bold == \A i \in markers : page[i] = "**"
        elsewhere == listClean /\ \E i \in DOMAIN page \ markers : page[i] = "**"
        alone == bare /\ bold /\ Cardinality(markers) = 1 /\ ~elsewhere
        empty == /\ bare /\ bold /\ Cardinality(markers) = 2
                 /\ Max(markers) = Min(markers) + 1
        Flat(scan) == ~scan.split /\ (\/ imageBounded
                                      \/ LeftOver(page, chunk, scan.done)
                                      \/ PairsInterleave(scan.done.pairs))
        General(scan) == IF Flat(scan) THEN RolesOf(page, chunk, scan.done) ELSE << >>
    IN  CASE chunk = {} -> << >>
          [] chunk # {} /\ alone -> [i \in markers |-> Literal]
          [] chunk # {} /\ empty -> [i \in markers |-> Deleted]
          [] chunk # {} /\ ~alone /\ ~empty ->
                Only({General(scan) : scan \in {ScanOf(page, chunk)}})

-----------------------------------------------------------------------------
(* The chunks of a page. *)

\* clean_list_barrier: no other block up to the end that balances the list, or back to
\* the head that does.
CleanList(page, i) ==
    LET Heads(a, b) == Cardinality({j \in a..b : page[j] = "list"})
        Ends(a, b) == Cardinality({j \in a..b : page[j] = "endlist"})
        other == IF page[i] = "list"
                   THEN FirstIn({j \in i..Len(page) : Heads(i, j) = Ends(i, j)})
                   ELSE LastIn({j \in 1..i : Heads(j, i) = Ends(j, i)})
    IN  /\ page[i] \in ListEnds /\ other # 0
        /\ \A j \in (i..other) \cup (other..i) : page[j] \notin OtherBlocks

\* Mutated form: a page that is opaque once stays so.
ChunkedOnce(page, s, i) ==
    IF page[i] \in Opaque THEN [s EXCEPT !.opaque = TRUE]
    ELSE IF page[i] \notin Barriers THEN s
    ELSE LET clean == CleanList(page, i)
             roles == IF s.opaque THEN << >>
                      ELSE ChunkRoles(page, s.start..(i - 1), s.image \/ page[i] = "image",
                                      page[i] \in Structure, s.clean \/ clean)
         IN  [start |-> i + 1, opaque |-> s.opaque, image |-> page[i] = "image",
              clean |-> clean, roles |-> roles @@ s.roles]

\* What a token does to the chunk under way; a chunk that holds opaque tokens gets no
\* roles.
Chunked(page, s, i) ==
    IF page[i] \in Opaque THEN [s EXCEPT !.opaque = TRUE]
    ELSE IF page[i] \notin Barriers THEN s
    ELSE LET clean == CleanList(page, i)
             roles == IF s.opaque THEN << >>
                      ELSE ChunkRoles(page, s.start..(i - 1), s.image \/ page[i] = "image",
                                      page[i] \in Structure, s.clean \/ clean)
         IN  [start |-> i + 1, opaque |-> FALSE, image |-> page[i] = "image",
              clean |-> clean, roles |-> roles @@ s.roles]

\* compute_wikidot_inline_markers
MarkerRoles(page) ==
    FoldLeft(LAMBDA s, i : Only({Chunked(page, t, i) : t \in {s}}),
             [start |-> 1, opaque |-> FALSE, image |-> FALSE, clean |-> FALSE,
              roles |-> << >>],
             [i \in DOMAIN page |-> i]).roles

=============================================================================
