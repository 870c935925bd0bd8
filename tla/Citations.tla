------------------------------ MODULE Citations ------------------------------
(***************************************************************************)
(* Bibliographies and the references to them: how entries get their        *)
(* numbers (tree/bibliography.rs), and how a page that cites them and its  *)
(* footnotes is rendered (render/html/element/bibliography.rs and          *)
(* footnotes.rs).  In Layout::Wikijump a reference carries what it refers  *)
(* to as a tooltip, in which there may be further references, back to the  *)
(* first as well; two stacks of the context tell what is being shown.      *)
(*                                                                         *)
(* An element is [kind, label, index]; what is shown is a sequence of      *)
(* [what, label, number].                                                  *)
(***************************************************************************)
EXTENDS Integers, Sequences, FiniteSets, SequencesExt, FiniteSetsExt, Functions

CONSTANT CiteLabels

VARIABLES legacy,         \* Layout::Wikidot, or else Layout::Wikijump
          bibliographies, \* the BibliographyList
          footnotes,      \* contents of each footnote
          body,           \* elements of the page
          work,           \* calls of render_elements: what each has left to render, and
                          \* the reference it is the tooltip of
          citing,         \* bibliography_render_stack
          noting,         \* footnote_render_stack
          shown

citationVars == <<legacy, bibliographies, footnotes, body, work, citing, noting, shown>>

Cite(label) == [kind |-> "cite", label |-> label, index |-> 0]
Plain_(kind) == [kind |-> kind, label |-> "-", index |-> 0]
At_(kind, index) == [kind |-> kind, label |-> "-", index |-> index]

-----------------------------------------------------------------------------
(* A bibliography while it is made and when it is asked. *)

NewBibliography == [entries |-> << >>, index |-> << >>, citations |-> << >>]

Labelled(b) == Cardinality(DOMAIN b.index)

Indexed(index, label, citation, position) ==
    [l \in DOMAIN index \cup {label} |->
        IF l = label THEN [citation |-> citation, position |-> position] ELSE index[l]]

\* add, and add_nested with the label of the entry marked (kind "nested").
WithEntry(b, kind, label, contents) ==
    [entries |-> Append(b.entries, [kind |-> kind, label |-> label, contents |-> contents]),
     index |-> Indexed(b.index, label, Labelled(b) + 1, Len(b.entries) + 1),
     citations |-> Append(b.citations, Labelled(b) + 1)]

\* add_residual: what follows a residual joins it.
WithResidual(b, contents) ==
    IF b.entries # << >> /\ Last(b.entries).kind = "residual"
      THEN [b EXCEPT !.entries[Len(b.entries)].contents = @ \o contents]
      ELSE [b EXCEPT
              !.entries = Append(@, [kind |-> "residual", label |-> "-",
                                     contents |-> contents]),
              !.citations = Append(@, 0)]

\* An item in a table, list or collapsible of the body: its entry has no contents, and
\* is numbered where it stands (convert_nested_bibliography_items).
WithNested(b, label, contents) ==
    LET added == WithEntry(b, "nested", label, << >>)
    IN  WithResidual(added, <<At_("mark", Last(added.citations))>> \o contents)

\* rebuild_label_index
Rebuilt(entries) ==
    FoldLeft(LAMBDA b, e : IF e.kind = "residual"
                             THEN [b EXCEPT !.entries = Append(@, e),
                                            !.citations = Append(@, 0)]
                             ELSE WithEntry(b, e.kind, e.label, e.contents),
             NewBibliography, entries)

Unknown == [number |-> 0, contents |-> << >>]
At(b, i) == [number |-> b.citations[i], contents |-> b.entries[i].contents]

\* get_by_scan: the last entry with the label.
Scanned(b, label) ==
    LET places == {i \in DOMAIN b.entries :
                      b.entries[i].kind # "residual" /\ b.entries[i].label = label}
    IN  IF places = {} THEN Unknown ELSE At(b, Max(places))

\* get: the label of a nested entry is not the one it is stored with.
Got(b, label) ==
    IF /\ label \in DOMAIN b.index
       /\ b.entries[b.index[label].position].kind = "plain"
       /\ b.entries[b.index[label].position].label = label
      THEN [number |-> b.index[label].citation,
            contents |-> b.entries[b.index[label].position].contents]
      ELSE Scanned(b, label)

\* get_reference: the first bibliography that has the label.
Reference(label) ==
    LET having == {k \in DOMAIN bibliographies : Got(bibliographies[k], label) # Unknown}
    IN  IF having = {} THEN Unknown ELSE Got(bibliographies[Min(having)], label)

-----------------------------------------------------------------------------
(* Rendering. *)

Caller == work[Len(work)]
Here(kind) == work # << >> /\ Caller.rest # << >> /\ Head(Caller.rest).kind = kind
This == Head(Caller.rest)
Passed == [work EXCEPT ![Len(work)].rest = Tail(@)]
Rendering(elements, tooltip) == Append(Passed, [rest |-> elements, of |-> tooltip])
Show(what, label, number) ==
    shown' = Append(shown, [what |-> what, label |-> label, number |-> number])

ShowPlain ==
    /\ \E kind \in {"text", "block", "mark"} : Here(kind) /\ Show(kind, "-", This.index)
    /\ work' = Passed
    /\ UNCHANGED <<legacy, bibliographies, footnotes, body, citing, noting>>

\* Inside its own tooltip, and where no bibliography has the label.
ShowMissing ==
    /\ Here("cite")
    /\ This.label \in Range(citing) \/ Reference(This.label) = Unknown
    /\ Show("missing", This.label, 0)
    /\ work' = Passed
    /\ UNCHANGED <<legacy, bibliographies, footnotes, body, citing, noting>>

\* Mutated form: the early return leaves the label on the stack.
LeftEarlyNot(stack) == stack

\* exit_bibliography_ref before the early return.
LeftEarly(stack) == Front(stack)

\* Layout::Wikidot shows the number alone.
ShowNumber ==
    /\ Here("cite") /\ legacy
    /\ This.label \notin Range(citing) /\ Reference(This.label) # Unknown
    /\ Show("cite", This.label, Reference(This.label).number)
    /\ citing' = LeftEarly(Append(citing, This.label))
    /\ work' = Passed
    /\ UNCHANGED <<legacy, bibliographies, footnotes, body, noting>>

\* Layout::Wikijump shows the entry in a tooltip.
ShowCited ==
    /\ Here("cite") /\ ~legacy
    /\ This.label \notin Range(citing) /\ Reference(This.label) # Unknown
    /\ Show("cite", This.label, Reference(This.label).number)
    /\ citing' = Append(citing, This.label)
    /\ work' = Rendering(Reference(This.label).contents, This)
    /\ UNCHANGED <<legacy, bibliographies, footnotes, body, noting>>

\* Every element may stand in a paragraph, where the reference does.
Safe(contents) ==
    \A i \in DOMAIN contents : contents[i].kind \notin {"block", "notes", "entries"}

\* A number alone in Layout::Wikidot, text alone if the contents are not safe.
ShowNoteFlat ==
    /\ Here("foot") /\ (legacy \/ ~Safe(footnotes[This.index]))
    /\ Show(IF legacy THEN "foot" ELSE "flat", "-", This.index)
    /\ work' = Passed
    /\ UNCHANGED <<legacy, bibliographies, footnotes, body, citing, noting>>

ShowNoteMissing ==
    /\ Here("foot") /\ ~legacy /\ Safe(footnotes[This.index])
    /\ This.index \in Range(noting)
    /\ Show("missing", "-", This.index)
    /\ work' = Passed
    /\ UNCHANGED <<legacy, bibliographies, footnotes, body, citing, noting>>

ShowNote ==
    /\ Here("foot") /\ ~legacy /\ Safe(footnotes[This.index])
    /\ This.index \notin Range(noting)
    /\ Show("foot", "-", This.index)
    /\ noting' = Append(noting, This.index)
    /\ work' = Rendering(footnotes[This.index], This)
    /\ UNCHANGED <<legacy, bibliographies, footnotes, body, citing>>

\* render_footnote_block: each number with the contents, none of them entered.
NotesListed ==
    FlattenSeq([i \in DOMAIN footnotes |-> <<At_("mark", i)>> \o footnotes[i]])

\* render_bibliography: Layout::Wikidot leaves nested entries to their places and
\* prints the numbers of citations; Layout::Wikijump counts entries of every kind.
EntriesListed(b) ==
    LET Listed(i) ==
            LET e == b.entries[i]
            IN  IF ~legacy THEN <<At_("mark", i)>> \o e.contents
                ELSE IF e.kind = "nested" THEN << >>
                ELSE IF e.kind = "residual" THEN e.contents
                ELSE <<At_("mark", b.citations[i])>> \o e.contents
    IN  FlattenSeq([i \in DOMAIN b.entries |-> Listed(i)])

ShowNotes ==
    /\ Here("notes")
    /\ work' = Rendering(NotesListed, Plain_("text"))
    /\ UNCHANGED <<legacy, bibliographies, footnotes, body, citing, noting, shown>>

ShowEntries ==
    /\ Here("entries")
    /\ work' = Rendering(EntriesListed(bibliographies[This.index]), Plain_("text"))
    /\ UNCHANGED <<legacy, bibliographies, footnotes, body, citing, noting, shown>>

\* A call of render_elements returns; a tooltip leaves its reference.
Return ==
    /\ work # << >> /\ Caller.rest = << >>
    /\ work' = Front(work)
    /\ citing' = IF Caller.of.kind = "cite" THEN Front(citing) ELSE citing
    /\ noting' = IF Caller.of.kind = "foot" THEN Front(noting) ELSE noting
    /\ UNCHANGED <<legacy, bibliographies, footnotes, body, shown>>

CitationInit ==
    /\ work = IF body = << >> THEN << >> ELSE <<[rest |-> body, of |-> Plain_("text")]>>
    /\ citing = << >> /\ noting = << >> /\ shown = << >>

CitationNext ==
    \/ ShowPlain \/ ShowMissing \/ ShowNumber \/ ShowCited
    \/ ShowNoteFlat \/ ShowNoteMissing \/ ShowNote
    \/ ShowNotes \/ ShowEntries \/ Return

-----------------------------------------------------------------------------
(* What a reader is to see, without stacks and indexes: elements one after the other,    *)
(* tooltips where they belong, and no tooltip within itself.                             *)

Bearing(b, label) ==
    {i \in DOMAIN b.entries : b.entries[i].kind # "residual" /\ b.entries[i].label = label}

LabelsBefore(b, i) ==
    {b.entries[j].label : j \in {j \in 1..(i - 1) : b.entries[j].kind # "residual"}}

\* The number live Wikidot prints for an entry (citation_at): one plus the number of
\* distinct labels before it.
NumberOf(b, i) == 1 + Cardinality(LabelsBefore(b, i))

\* What a label refers to: its last entry in the first bibliography with the label.
Meant(label) ==
    LET having == {k \in DOMAIN bibliographies : Bearing(bibliographies[k], label) # {}}
        b == bibliographies[Min(having)]
        i == Max(Bearing(b, label))
    IN  IF having = {} THEN Unknown
        ELSE [number |-> NumberOf(b, i), contents |-> b.entries[i].contents]

Seen(what, label, number) == <<[what |-> what, label |-> label, number |-> number]>>

RECURSIVE Shows(_, _, _)
Shows(elements, labels, notes) ==
    LET Cited(l) ==
            IF l \in labels \/ Meant(l) = Unknown THEN Seen("missing", l, 0)
            ELSE Seen("cite", l, Meant(l).number)
                 \o IF legacy THEN << >>
                    ELSE Shows(Meant(l).contents, labels \cup {l}, notes)
        Noted(i) ==
            IF legacy THEN Seen("foot", "-", i)
            ELSE IF ~Safe(footnotes[i]) THEN Seen("flat", "-", i)
            ELSE IF i \in notes THEN Seen("missing", "-", i)
            ELSE Seen("foot", "-", i) \o Shows(footnotes[i], labels, notes \cup {i})
        One(e) == CASE e.kind = "cite" -> Cited(e.label)
                    [] e.kind = "foot" -> Noted(e.index)
                    [] e.kind = "notes" -> Shows(NotesListed, labels, notes)
                    [] e.kind = "entries" ->
                          Shows(EntriesListed(bibliographies[e.index]), labels, notes)
                    [] OTHER -> Seen(e.kind, "-", e.index)
    IN  FlattenSeq([k \in DOMAIN elements |-> One(elements[k])])

\* A bibliography that is copied or read back is numbered as when it was made, every
\* lookup by the index is the scan's, and in Layout::Wikidot the entries that are
\* listed, and those in tables and lists, bear the numbers they are cited with.
EntriesNumbered ==
    \A k \in DOMAIN bibliographies :
        LET b == bibliographies[k]
        IN  /\ Rebuilt(b.entries) = b
            /\ \A i \in DOMAIN b.entries :
                  b.citations[i] =
                      IF b.entries[i].kind = "residual" THEN 0 ELSE NumberOf(b, i)
            /\ \A l \in CiteLabels : Got(b, l) = Scanned(b, l)

\* The two stacks hold the references whose tooltips are being rendered, each at most
\* once, so that exit_bibliography_ref and exit_footnote_ref pop their own
\* (context.rs:300, 314) and tooltips do not go on forever.  What is shown in the end
\* is what is to be seen, under the numbers the entries bear.
ReferencesShown ==
    LET Tooltips(kind) == SelectSeq([k \in DOMAIN work |-> work[k].of],
                                    LAMBDA e : e.kind = kind)
    IN  /\ citing = [k \in DOMAIN Tooltips("cite") |-> Tooltips("cite")[k].label]
        /\ noting = [k \in DOMAIN Tooltips("foot") |-> Tooltips("foot")[k].index]
        /\ IsInjective(citing) /\ IsInjective(noting)
        /\ work = << >> => shown = Shows(body, {}, {})
        /\ EntriesNumbered

=============================================================================
