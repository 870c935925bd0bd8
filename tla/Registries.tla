----------------------------- MODULE Registries -----------------------------
(***************************************************************************)
(* The registries every clone of a Parser shares through Rc<RefCell>       *)
(* (footnotes and their row tails, html blocks, code blocks, table of      *)
(* contents, bibliographies), and the ways an attempt on a clone ends:     *)
(*                                                                         *)
(*   attempt  Rule::try_consume and the rules that take a                  *)
(*            ParserMutableState by hand: kept, or reset to the lengths    *)
(*            recorded at the start                                        *)
(*   probe    the `[[/name]]' head probe of link_single: its elements are  *)
(*            dropped and only the footnotes are given back                *)
(*   fuse     try_fuse_own_line_consume: takes full copies and keeps its   *)
(*            result only if no registry changed                           *)
(*   trial    a rule run to see whether it succeeds, or a body given up    *)
(*            after it was read (line_break_skipped_for_own_line_block,    *)
(*            the probes for scored aliases,                               *)
(*            try_consume_comma_run_subscript): dropped with nothing given *)
(*            back                                                         *)
(*                                                                         *)
(* A parser's tree is reduced to the elements that refer to a registry:    *)
(* Element::Footnote(index) and Element::FootnoteBlock.  A footnote whose  *)
(* reference went with a trial is noted in orphans, which the parser does  *)
(* not keep: it is there for the properties to speak of.                   *)
(***************************************************************************)
EXTENDS Naturals, Sequences, SequencesExt

CONSTANTS Other,     \* the registries other than footnotes and row tails
          MaxItems,  \* bound on registrations over a whole parse
          MaxNesting \* bound on attempts open at once

ASSUME RegistriesAssumption ==
    /\ "footnotes" \notin Other
    /\ "tails" \notin Other
    /\ MaxItems \in Nat
    /\ MaxNesting \in Nat

VARIABLES reg,    \* the shared registries
          tree,   \* the current parser's elements that concern a registry
          block,  \* its has_footnote_block
          frames, \* the attempts open, outermost first
          serial, \* number of registrations so far, and their identity
          page,   \* "parsing" until the page rule has returned
          orphans \* the footnotes registered on a trial's clone that are left

vars == <<reg, tree, block, frames, serial, page, orphans>>

Noted   == {"footnotes", "tails"}
Reg     == Other \cup Noted
NoTail  == 0
Entries == Seq(Nat)
Regs    == [Reg -> Entries]

Ref(i)        == [kind |-> "footnote", index |-> i]
FootnoteBlock == [kind |-> "block"]

\* footnote_row_tails_flat: one element stands for the whole run of row tails.
RowTails(tails) == [kind |-> "tails", of |-> tails]

Element == [kind : {"footnote"}, index : Nat] \cup [kind : {"block"}]
             \cup [kind : {"tails"}, of : Entries]

\* ParserMutableState: lengths only.  The full copies are the fuse's own.
Kinds == {"attempt", "probe", "fuse", "trial"}

Frame == [kind : Kinds, len : [Reg -> Nat],
          copy : Regs, tree : Seq(Element), block : {"unset", "set"}]

Empty == [r \in Reg |-> << >>]

Lengths(regs) == [r \in Reg |-> Len(regs[r])]

\* Vec::truncate: no effect on a shorter vector.
Truncated(s, n) == IF n < Len(s) THEN SubSeq(s, 1, n) ELSE s

\* reset_mutable_state; the row tails go with the footnotes.
Reset(regs, len) ==
    [r \in Reg |-> Truncated(regs[r], len[IF r = "tails" THEN "footnotes" ELSE r])]

\* Mutated form: the row tails are left behind.
TruncateNotesOnly(regs, n) ==
    [r \in Reg |-> IF r = "footnotes" THEN Truncated(regs[r], n) ELSE regs[r]]

\* truncate_footnotes: the footnotes and their row tails, nothing else.
TruncateFootnotes(regs, n) ==
    [r \in Reg |-> IF r \in Noted THEN Truncated(regs[r], n) ELSE regs[r]]

Top == Last(frames)
Within(kind) == page = "parsing" /\ frames # << >> /\ Top.kind = kind

-----------------------------------------------------------------------------

Init ==
    /\ reg = Empty
    /\ tree = << >>
    /\ block = "unset"
    /\ frames = << >>
    /\ serial = 0
    /\ page = "parsing"
    /\ orphans = {}

Registers == page = "parsing" /\ serial < MaxItems /\ serial' = serial + 1

\* push_html_block, push_code_block, push_table_of_contents_entry,
\* push_bibliography.
Push(r) ==
    /\ Registers
    /\ reg' = [reg EXCEPT ![r] = Append(@, serial')]
    /\ UNCHANGED <<tree, block, frames, page, orphans>>

\* Mutated form: the tail goes to the slot of the note before.
PushFootnoteTailBefore(tail) ==
    /\ Registers
    /\ LET index == Len(reg["footnotes"]) + 1
       IN  /\ reg' = [reg EXCEPT !["footnotes"] = Append(@, serial'),
                                 !["tails"] = [Append(@, NoTail)
                                                 EXCEPT ![index - 1] = tail]]
           /\ tree' = Append(tree, Ref(index))
    /\ UNCHANGED <<block, frames, page, orphans>>

\* parse_footnote_ref: push_footnote gives the note an empty row tail, which
\* set_footnote_row_tail fills in place when the note has one.
PushFootnote(tail) ==
    /\ Registers
    /\ LET index == Len(reg["footnotes"]) + 1
       IN  /\ reg' = [reg EXCEPT !["footnotes"] = Append(@, serial'),
                                 !["tails"] = [Append(@, NoTail)
                                                 EXCEPT ![index] = tail]]
           /\ tree' = Append(tree, Ref(index))
    /\ UNCHANGED <<block, frames, page, orphans>>

\* parse_footnote_block in a legacy layout: the first block of the page takes
\* the row tails registered so far.
PlaceFootnoteBlock ==
    /\ page = "parsing"
    /\ block = "unset"
    /\ block' = "set"
    /\ tree' = tree \o <<FootnoteBlock, RowTails(reg["tails"])>>
    /\ UNCHANGED <<reg, frames, serial, page, orphans>>

-----------------------------------------------------------------------------

Begin(kind) ==
    /\ page = "parsing"
    /\ Len(frames) < MaxNesting
    /\ frames' = Append(frames,
                    [kind |-> kind, len |-> Lengths(reg),
                     copy |-> IF kind = "fuse" THEN reg ELSE Empty,
                     tree |-> tree, block |-> block])
    /\ tree' = << >>
    /\ UNCHANGED <<reg, block, serial, page, orphans>>

\* The clone's elements and flags become the parser's (Parser::update).
Adopt ==
    /\ tree' = Top.tree \o tree
    /\ frames' = Front(frames)
    /\ UNCHANGED <<reg, block, serial, page, orphans>>

\* Mutated form: the clone's flag outlives it.
DropKeepingFlag ==
    /\ tree' = Top.tree
    /\ frames' = Front(frames)
    /\ UNCHANGED <<block, serial, page>>

\* The clone is dropped with its elements and flags.
Drop ==
    /\ tree' = Top.tree
    /\ block' = Top.block
    /\ frames' = Front(frames)
    /\ UNCHANGED <<serial, page>>

\* A footnote given back is nobody's any more.
Forget == orphans' = orphans \cap (1..Len(reg'["footnotes"]))

Succeed == Within("attempt") /\ Adopt

\* Rule::try_consume's error arms; consume then truncates to the footnote count
\* it took before the call.
Fail ==
    /\ Within("attempt")
    /\ reg' = TruncateFootnotes(Reset(reg, Top.len), Top.len["footnotes"])
    /\ Drop
    /\ Forget

\* Mutated form: the probe gives back nothing.
ProbeLeavesAll == Within("probe") /\ reg' = reg /\ Drop /\ Forget

EndProbe ==
    /\ Within("probe")
    /\ reg' = IF Len(reg["footnotes"]) # Top.len["footnotes"]
                THEN TruncateFootnotes(reg, Top.len["footnotes"]) ELSE reg
    /\ Drop
    /\ Forget

\* The answer is all that is kept of the clone; what it registered stays.
EndTrial ==
    /\ Within("trial")
    /\ reg' = reg
    /\ Drop
    /\ orphans' = orphans \cup ((Top.len["footnotes"] + 1)..Len(reg["footnotes"]))

Fuse ==
    /\ Within("fuse")
    /\ reg = Top.copy
    /\ Adopt

\* No result, or shared_registries_differ.
Unfuse ==
    /\ Within("fuse")
    /\ reg' = Top.copy
    /\ Drop
    /\ Forget

\* parse_internal_with_recursion_limit: a page without a block of its own gets
\* the row tails at its end.
FinishPage ==
    /\ page = "parsing"
    /\ frames = << >>
    /\ page' = "done"
    /\ tree' = IF block = "set" THEN tree ELSE Append(tree, RowTails(reg["tails"]))
    /\ UNCHANGED <<reg, block, frames, serial, orphans>>

Next ==
    \/ \E r \in Other : Push(r)
    \/ \E tail \in {NoTail, serial + 1} : PushFootnote(tail)
    \/ PlaceFootnoteBlock
    \/ \E kind \in Kinds : Begin(kind)
    \/ Succeed \/ Fail \/ EndProbe \/ EndTrial \/ Fuse \/ Unfuse
    \/ FinishPage

Spec == Init /\ [][Next]_vars

-----------------------------------------------------------------------------

TypeOK ==
    /\ reg \in Regs
    /\ tree \in Seq(Element)
    /\ block \in {"unset", "set"}
    /\ frames \in Seq(Frame)
    /\ serial \in Nat
    /\ page \in {"parsing", "done"}
    /\ orphans \subseteq 1..Len(reg["footnotes"])

\* The lengths each open attempt recorded never exceed what is registered, and
\* an inner attempt's are no shorter than an outer one's: no attempt, however
\* its inner attempts and probes end, can find its own start truncated away.
SnapshotsNest ==
    \A i \in 1..Len(frames), r \in Reg :
        /\ frames[i].len[r] <= Len(reg[r])
        /\ \A j \in 1..i : frames[j].len[r] <= frames[i].len[r]

\* Every footnote has its row tail slot: set_footnote_row_tail's index is in
\* range and reset_mutable_state may truncate both to one length.
TailsParallel == Len(reg["tails"]) = Len(reg["footnotes"])

\* All elements parsed so far and not dropped are the trees of the open parsers,
\* outermost first: a place is the parser and the position in its tree.
Tree(k) == IF k <= Len(frames) THEN frames[k].tree ELSE tree

Places(kind) ==
    UNION {{<<k, m>> : m \in {i \in DOMAIN Tree(k) : Tree(k)[i].kind = kind}} :
              k \in 1..(Len(frames) + 1)}

At(p)        == Tree(p[1])[p[2]]
Before(p, q) == p[1] < q[1] \/ (p[1] = q[1] /\ p[2] < q[2])

Referred == {At(p).index : p \in Places("footnote")}

\* The elements refer, in order and once, to the registered footnotes except those
\* a trial left behind: no failed attempt, head probe or discarded fuse leaves
\* a footnote nobody refers to, and nothing takes away one that is referred to or
\* shifts its number.
RefsMatchFootnotes ==
    /\ Referred = (1..Len(reg["footnotes"])) \ orphans
    /\ \A p, q \in Places("footnote") :
          Before(p, q) => At(p).index < At(q).index

\* What link_single's comment asks of a probe ("a footnote registered by a probe
\* block that does not own this closer must not survive into the real parse") and
\* the trials do not keep: every footnote of the page is referred to.
EveryFootnoteReferred == page = "done" => Referred = 1..Len(reg["footnotes"])

\* has_footnote_block is set exactly when the page holds a footnote block, and
\* it never holds two: a dropped clone takes its block and its flag along.  Nor does
\* the page print a row tail twice.
FootnotesPrintedOnce ==
    LET Printed(p) == Range(At(p).of) \ {NoTail}
    IN  /\ block = "set" <=> Places("block") # {}
        /\ \A p, q \in Places("block") : p = q
        /\ \A p, q \in Places("tails") : p # q => Printed(p) \cap Printed(q) = {}

\* The lengths stand for copies: every attempt is a transaction.
Copies ==
    [i \in 1..Len(frames) |->
        [r \in Reg |-> SubSeq(reg[r], 1, frames[i].len[r])]]

Txn == INSTANCE Transactions WITH Entry <- Nat, data <- reg, saved <- Copies
Transactional == Txn!Spec

=============================================================================
