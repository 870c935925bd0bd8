---------------------------- MODULE InlineScopes ----------------------------
(***************************************************************************)
(* The lowering of inline scopes: a flat sequence of markers, each the     *)
(* opener or the closer of a size, a span, a colour, a format or an        *)
(* anchor, becomes nested elements.  A first pass pairs the markers and    *)
(* numbers them as it meets them; the second meets them again, counts for  *)
(* itself, and asks of each number whether the first found it a partner.   *)
(*                                                                         *)
(* What a page holds between its markers, the white space that moves from  *)
(* one element to the next, headings, table cells and bibliographies are   *)
(* left out, and anchors where a paragraph or a block frame ends.          *)
(***************************************************************************)
EXTENDS Naturals, Sequences, FiniteSets, SequencesExt, Picking

CONSTANTS Classes,   \* ScopeClass: the classes of markers that pair with each other
          TagOf,     \* the name of the element that a class of markers makes
          Queued,    \* the classes whose closers take the first opener that waits
          MaxScopes, \* MAX_ACTIVE_INLINE_SCOPES
          Streams    \* the sequences to lower

Tags == {TagOf[c] : c \in Classes}

\* Markers, a complete element, and where paragraphs and block frames begin.
\* "synth" is a closer that the source does not have.
Events == [op : {"open", "close", "synth", "whole"}, class : Classes]
              \cup [op : {"par", "inner", "div", "end"}, class : {"none"}]

ASSUME InlineScopesAssumption ==
    /\ "anchor" \notin Classes \ Queued
    /\ "anchor" \in Classes =>
          \A c \in Classes \ {"anchor"} : TagOf[c] # TagOf["anchor"]
    /\ Queued \subseteq Classes
    /\ MaxScopes \in Nat
    /\ Tags \cap {"none"} = {}
    /\ Streams \subseteq Seq(Events)

VARIABLES stream,  \* the elements to lower
          at,      \* the next of them
          valid,   \* numbers of the markers that have a partner
          pairs,   \* PendingScopes::pairs, from closers to openers
          ordinal, \* the number of the next marker
          active,  \* ActiveScopes
          closing, \* tidy_close: the tag, the elements ended, insert_at
          mode,    \* "collect", "read", "close", "reopen"
          literal  \* the closers that became text

scopesVars == <<stream, at, valid, pairs, ordinal, active, closing, mode, literal>>

-----------------------------------------------------------------------------
(* The first pass: PendingScopes. *)

NothingPending ==
    [queues |-> [c \in Classes |-> << >>], count |-> 0, ordinal |-> 1,
     valid |-> {}, pairs |-> << >>, weak |-> << >>]

\* Mutated form: one opener more than the limit is accepted.
OpenedPast(p, c) ==
    LET accepted == p.count <= MaxScopes
    IN  [p EXCEPT !.queues[c] = Append(@, [ordinal |-> p.ordinal, accepted |-> accepted]),
                  !.count = IF accepted THEN @ + 1 ELSE @,
                  !.ordinal = @ + 1]

\* PendingScopes::open
Opened(p, c) ==
    LET accepted == p.count < MaxScopes
    IN  [p EXCEPT !.queues[c] = Append(@, [ordinal |-> p.ordinal, accepted |-> accepted]),
                  !.count = IF accepted THEN @ + 1 ELSE @,
                  !.ordinal = @ + 1]

Paired(p, open, close) ==
    [p EXCEPT !.valid = @ \cup {open, close},
              !.pairs = [o \in DOMAIN @ \cup {close} |-> IF o = close THEN open ELSE @[o]]]

\* The closer takes this opener.
Took(p, c, open, rest, weakly) ==
    LET q == [p EXCEPT !.queues[c] = rest, !.ordinal = @ + 1]
        r == [q EXCEPT !.count = @ - 1]
    IN  IF ~open.accepted THEN q
        ELSE IF weakly
          THEN [r EXCEPT !.weak = Append(@, [class |-> c, open |-> open.ordinal,
                                             close |-> p.ordinal])]
          ELSE Paired(r, open.ordinal, p.ordinal)

\* A closer of the source that finds no opener takes one back from a closer that
\* the source does not have.
TookBack(p, c, weakly) ==
    LET q  == [p EXCEPT !.ordinal = @ + 1]
        ws == {i \in DOMAIN p.weak : p.weak[i].class = c}
        i  == CHOOSE j \in ws : \A k \in ws : k <= j
    IN  IF weakly \/ ws = {} THEN q
        ELSE Paired([q EXCEPT !.weak = Picked(@, DOMAIN @ \ {i})], p.weak[i].open, p.ordinal)

\* PendingScopes::close
ClosedBy(p, c, weakly) ==
    LET q == p.queues[c]
    IN  IF q = << >> THEN TookBack(p, c, weakly)
        ELSE IF ~weakly /\ c \in Queued THEN Took(p, c, Head(q), Tail(q), weakly)
        ELSE Took(p, c, Last(q), Front(q), weakly)

\* collect_valid_pairs, one element and all of them.
Counted(p, e) ==
    CASE e.op = "open"  -> Opened(p, e.class)
      [] e.op = "close" -> ClosedBy(p, e.class, FALSE)
      [] e.op = "synth" -> ClosedBy(p, e.class, TRUE)
      [] OTHER -> p

Collected(es) ==
    LET upTo[i \in 0..Len(es)] ==
            IF i = 0 THEN NothingPending ELSE Counted(upTo[i - 1], es[i])
    IN  upTo[Len(es)]

\* PendingScopes::finish_weak: no two of these pairs have the same closer.
FinishedQueues(p) ==
    LET closers == {p.weak[i].close : i \in DOMAIN p.weak}
        Of(c)   == CHOOSE i \in DOMAIN p.weak : p.weak[i].close = c
    IN  [p EXCEPT !.valid = @ \cup closers \cup {p.weak[i].open : i \in DOMAIN p.weak},
                  !.pairs = [c \in DOMAIN @ \cup closers |->
                                IF c \in closers THEN p.weak[Of(c)].open ELSE @[c]],
                  !.weak = << >>]

-----------------------------------------------------------------------------
(* The second pass: ActiveScopes.  The chain of the scopes that are open is a *)
(* sequence of positions in scopes; opened are the open instances by number.  *)

NothingActive ==
    [scopes |-> << >>, chain |-> << >>, istack |-> << >>, opened |-> << >>,
     watches |-> << >>]

Tag(a, p)      == TagOf[a.scopes[p].class]
TagsOf(a)      == [i \in DOMAIN a.chain |-> Tag(a, a.chain[i])]
StackTags(a)   == [i \in DOMAIN a.istack |-> TagOf[a.istack[i].class]]

IsStacked(a, t) == \E i \in DOMAIN a.istack : TagOf[a.istack[i].class] = t
PopLast(s)     == IF s = << >> THEN s ELSE Front(s)

\* Mutated form: a tag that is on the stack is pushed again.
PushFromAgain(a, c, origin) ==
    LET p == Len(a.scopes) + 1
    IN  [a EXCEPT !.scopes = Append(@, [class |-> c, origin |-> origin]),
                  !.chain  = Append(@, p),
                  !.istack = Append(@, [class |-> c, position |-> p, origin |-> origin])]

\* push_with_origin
PushFrom(a, c, origin) ==
    LET p == Len(a.scopes) + 1
    IN  [a EXCEPT !.scopes = Append(@, [class |-> c, origin |-> origin]),
                  !.chain  = Append(@, p),
                  !.istack = IF IsStacked(a, TagOf[c]) THEN @
                             ELSE Append(@, [class |-> c, position |-> p, origin |-> origin])]
PushScope(a, c) == PushFrom(a, c, Len(a.scopes) + 1)

\* note_scope_closed
NotedClose(a, ps) ==
    [a EXCEPT !.watches = [w \in DOMAIN @ |->
        [@[w] EXCEPT !.tags = @ \cup {Tag(a, p) : p \in {q \in ps :
                                   a.scopes[q].origin >= a.watches[w].mark}}]]]

\* kill_from, for a scope of the chain
KillFrom(a, p) ==
    LET i == CHOOSE j \in DOMAIN a.chain : a.chain[j] = p
        killed == {a.chain[j] : j \in i..Len(a.chain)}
    IN  [NotedClose(a, killed) EXCEPT
            !.chain = SubSeq(@, 1, i - 1),
            !.istack = Picked(@, {k \in DOMAIN @ : @[k].position \notin killed})]

\* commit_close_no_reopen
CommitClose(a, p) ==
    LET i == CHOOSE j \in DOMAIN a.chain : a.chain[j] = p
    IN  [NotedClose(a, {p}) EXCEPT !.chain = SubSeq(@, 1, i - 1)]

\* pop_istack_through_anchor
PopThroughAnchor(a) ==
    LET as == {i \in DOMAIN a.istack : a.istack[i].class = "anchor"}
    IN  [a EXCEPT !.istack =
            IF as = {} THEN << >>
            ELSE SubSeq(@, 1, (CHOOSE i \in as : \A j \in as : j <= i) - 1)]

\* The innermost scope of the chain that has a property; 0 if there is none.
Innermost(a, Has(_)) ==
    LET is == {i \in DOMAIN a.chain : Has(a.chain[i])}
    IN  IF is = {} THEN 0 ELSE a.chain[CHOOSE i \in is : \A j \in is : j <= i]

IsAnchor(a, p)  == a.scopes[p].class = "anchor"
PeekClose(a, t) == Innermost(a, LAMBDA p : Tag(a, p) = t)
AnchorPosition(a) == Innermost(a, LAMBDA p : IsAnchor(a, p))

HasAnchorAbove(a, p) ==
    \E i, j \in DOMAIN a.chain : i < j /\ a.chain[i] = p /\ IsAnchor(a, a.chain[j])

\* wikidot_close_anchor_scope
CloseAnchor(a) ==
    LET p == AnchorPosition(a)
    IN  IF p = 0 THEN a ELSE PopThroughAnchor(KillFrom(a, p))

LineageActive(a, o) == \E i \in DOMAIN a.chain : a.scopes[a.chain[i]].origin = o

\* resolve_close; 0 if the closer has no scope to close.
ResolveClose(a, number, t) ==
    LET orphaned == /\ number \in DOMAIN pairs
                    /\ pairs[number] \in DOMAIN a.opened
                    /\ ~LineageActive(a, a.opened[pairs[number]])
    IN  IF ~orphaned THEN PeekClose(a, t)
        ELSE IF a.chain = << >> THEN 0 ELSE Last(a.chain)

\* sync_chain_to_istack: the outermost element of each tag on the stack stays.
Synced(a) ==
    LET Keeps(i) == \/ IsAnchor(a, a.chain[i])
                    \/ /\ IsStacked(a, Tag(a, a.chain[i]))
                       /\ \A j \in 1..(i - 1) : Tag(a, a.chain[j]) # Tag(a, a.chain[i])
    IN  [a EXCEPT !.chain = Picked(@, {i \in DOMAIN @ : Keeps(i)})]

\* begin_watch
Watched(a) ==
    [a EXCEPT !.watches = Append(@, [mark |-> Len(a.scopes) + 1, tags |-> {}])]

\* end_watch and drop_block_boundary_scopes: scopes opened inside whose tag is
\* open outside too, and scopes opened outside whose tag was closed inside.
Dropped(a) ==
    LET watch == Last(a.watches)
        Outer(p) == a.scopes[p].origin < watch.mark
        drops == {p \in Range(a.chain) :
                    \/ /\ ~Outer(p)
                       /\ \E q \in Range(a.chain) : Outer(q) /\ Tag(a, q) = Tag(a, p)
                    \/ Outer(p) /\ Tag(a, p) \in watch.tags}
    IN  [a EXCEPT !.chain = Picked(@, {i \in DOMAIN @ : @[i] \notin drops}),
                  !.istack = Picked(@, {i \in DOMAIN @ : @[i].position \notin drops}),
                  !.watches = Front(@)]

-----------------------------------------------------------------------------
(* The steps. *)

NotClosing == [tag |-> "none", ended |-> {}, slot |-> 0]

\* Nothing is read.
Unread ==
    /\ at = 1
    /\ valid = {}
    /\ pairs = << >>
    /\ ordinal = 1
    /\ active = NothingActive
    /\ closing = NotClosing
    /\ mode = "collect"
    /\ literal = {}

ScopesInit == stream \in Streams /\ Unread

Collect ==
    /\ mode = "collect"
    /\ \E p \in {FinishedQueues(Collected(stream))} : valid' = p.valid /\ pairs' = p.pairs
    /\ mode' = "read"
    /\ UNCHANGED <<stream, at, ordinal, active, closing, literal>>

Event(op) ==
    /\ mode = "read"
    /\ at <= Len(stream)
    /\ stream[at].op = op
    /\ at' = at + 1
    /\ UNCHANGED <<stream, valid, pairs>>

Class == stream[at].class

\* An opener without a partner leaves nothing that is open.  The number of an
\* anchor's scope is not kept.
OpenScope ==
    /\ Event("open")
    /\ ordinal' = ordinal + 1
    /\ active' =
          IF ordinal \notin valid THEN active
          ELSE IF Class = "anchor" THEN PushScope(CloseAnchor(active), Class)
          ELSE [PushScope(active, Class) EXCEPT !.opened =
                   [o \in DOMAIN @ \cup {ordinal} |->
                       IF o = ordinal THEN Len(active.scopes) + 1 ELSE @[o]]]
    /\ UNCHANGED <<closing, mode, literal>>

Closer == Event("close") \/ Event("synth")

ClosesAs(t) ==
    /\ closing' = [NotClosing EXCEPT !.tag = t]
    /\ mode' = "close"

\* A closer without a partner is text.
CloseAsText ==
    /\ Closer
    /\ ordinal \notin valid
    /\ ordinal' = ordinal + 1
    /\ literal' = literal \cup {at}
    /\ UNCHANGED <<active, closing, mode>>

\* Formats, colours and sizes: an anchor inside the element ends with it.
CloseScope ==
    /\ Closer
    /\ Class \notin {"span", "anchor"}
    /\ ordinal \in valid
    /\ ordinal' = ordinal + 1
    /\ \E p \in {ResolveClose(active, ordinal, TagOf[Class])} :
          IF p # 0 /\ HasAnchorAbove(active, p)
            THEN active' = PopThroughAnchor(active) /\ UNCHANGED <<closing, mode>>
            ELSE /\ UNCHANGED active
                 /\ IF p # 0 \/ (Class = "size" /\ active.chain # << >>)
                      THEN ClosesAs(TagOf[Class])
                      ELSE UNCHANGED <<closing, mode>>
    /\ UNCHANGED literal

\* A span asks whether the marker after it has a partner.
CloseSpan ==
    /\ Closer
    /\ Class = "span"
    /\ ordinal \in valid
    /\ \E p \in {ResolveClose(active, ordinal, TagOf[Class])} :
          IF p # 0 /\ ordinal + 1 \in valid /\ HasAnchorAbove(active, p)
            THEN /\ active' = PopThroughAnchor(active)
                 /\ ordinal' = ordinal + 2
                 /\ UNCHANGED <<closing, mode>>
            ELSE /\ UNCHANGED active
                 /\ ordinal' = ordinal + 1
                 /\ IF active.chain # << >> THEN ClosesAs(TagOf[Class])
                    ELSE UNCHANGED <<closing, mode>>
    /\ UNCHANGED literal

\* What an anchor's closer closes does not reopen.
CloseAnchorScope ==
    /\ Closer
    /\ Class = "anchor"
    /\ ordinal \in valid
    /\ ordinal' = ordinal + 1
    /\ \E p \in {PeekClose(active, TagOf[Class])} :
          active' = IF p = 0 THEN active ELSE PopThroughAnchor(CommitClose(active, p))
    /\ UNCHANGED <<closing, mode, literal>>

\* apply_subtree_istack, for an element with no other inside.
WholePopping(a, t) ==
    IF IsStacked(a, t) THEN [a EXCEPT !.istack = PopLast(@)] ELSE a

\* A complete element was nested by the parser.
KeepWhole ==
    /\ Event("whole")
    /\ active' = WholePopping(active, TagOf[Class])
    /\ UNCHANGED <<ordinal, closing, mode, literal>>

\* A paragraph of the page, or an item of a list, begins.
StartParagraph ==
    /\ Event("par")
    /\ active' = Synced(active)
    /\ UNCHANGED <<ordinal, closing, mode, literal>>

\* A paragraph of a block frame begins: nothing but what is pending changes.
StartInner ==
    /\ Event("inner")
    /\ UNCHANGED <<ordinal, active, closing, mode, literal>>

EnterBlock ==
    /\ Event("div")
    /\ active' = Watched(active)
    /\ UNCHANGED <<ordinal, closing, mode, literal>>

LeaveBlock ==
    /\ Event("end")
    /\ active' = Dropped(active)
    /\ UNCHANGED <<ordinal, closing, mode, literal>>

-----------------------------------------------------------------------------
(* tidy_close *)

TopScope == Last(active.chain)

\* end_scope and istack.pop
EndTop(a) == [a EXCEPT !.chain = Front(@), !.istack = PopLast(@)]

\* The entry of the tag being closed is below the one of the innermost element.
CrossAt(i, j) ==
    /\ i < j
    /\ TagOf[active.istack[i].class] = closing.tag
    /\ TagOf[active.istack[j].class] = Tag(active, TopScope)

\* Nothing reopens: whoever watches is told what was closed.
TidyLast ==
    /\ mode = "close" /\ active.chain # << >>
    /\ \/ Tag(active, TopScope) = closing.tag
       \/ ~\E i, j \in DOMAIN active.istack : CrossAt(i, j)
    /\ IF closing.slot = 0
         THEN /\ active' = NotedClose(EndTop(active), closing.ended \cup {TopScope})
              /\ closing' = NotClosing
              /\ mode' = "read"
         ELSE /\ active' = EndTop(active)
              /\ closing' = [closing EXCEPT !.ended = @ \cup {TopScope}]
              /\ mode' = "reopen"
    /\ UNCHANGED <<stream, at, valid, pairs, ordinal, literal>>

TidyCrossed ==
    /\ mode = "close" /\ active.chain # << >>
    /\ Tag(active, TopScope) # closing.tag
    /\ \E i, j \in DOMAIN active.istack :
          /\ CrossAt(i, j)
          /\ active' = [active EXCEPT
                !.chain = Front(@),
                !.istack = [active.istack EXCEPT ![i] = active.istack[j], ![j] = active.istack[i]]]
          /\ closing' = [closing EXCEPT !.ended = @ \cup {TopScope}, !.slot = i]
    /\ UNCHANGED <<stream, at, valid, pairs, ordinal, mode, literal>>

\* Every element there was has ended.
TidyNone ==
    /\ mode = "close" /\ active.chain = << >>
    /\ mode' = "reopen"
    /\ UNCHANGED <<stream, at, valid, pairs, ordinal, active, closing, literal>>

\* Mutated form: only the entry in the slot reopens.
ReopenOne(a, slot) ==
    IF slot > Len(a.istack) THEN a
    ELSE PushFrom(a, a.istack[slot].class, a.istack[slot].origin)

\* The copies have the origin of the scopes they copy.
Reopened(a, slot) ==
    LET upTo[i \in (slot - 1)..Len(a.istack)] ==
            IF i = slot - 1 THEN a
            ELSE PushFrom(upTo[i - 1], a.istack[i].class, a.istack[i].origin)
    IN  upTo[Len(a.istack)]

TidyReopen ==
    /\ mode = "reopen"
    /\ LET sources == {active.istack[i].position : i \in closing.slot..Len(active.istack)}
       IN  active' = NotedClose(Reopened(active, closing.slot), closing.ended \ sources)
    /\ closing' = NotClosing
    /\ mode' = "read"
    /\ UNCHANGED <<stream, at, valid, pairs, ordinal, literal>>

ScopesNext ==
    \/ Collect
    \/ OpenScope \/ CloseAsText \/ CloseScope \/ CloseSpan \/ CloseAnchorScope
    \/ KeepWhole \/ StartParagraph \/ StartInner \/ EnterBlock \/ LeaveBlock
    \/ TidyLast \/ TidyCrossed \/ TidyNone \/ TidyReopen

ScopesSpec == ScopesInit /\ [][ScopesNext]_scopesVars

-----------------------------------------------------------------------------
(* What the lowering keeps. *)

Plain ==
    \A i \in DOMAIN stream : stream[i].op \notin {"div", "inner", "end"}
                               /\ stream[i].class # "anchor"

\* The markers of the stream, as both passes number them.
MarkersOf(es) ==
    Picked(es, {i \in DOMAIN es : es[i].op \in {"open", "close", "synth"}})

\* A marker has one partner at most, of its own class and on the right side; and
\* of the pairs whose closers are in the source no more than MaxScopes overlap
\* (PendingScopes).
PairsCapped ==
    mode # "collect" =>
        LET ms == MarkersOf(stream)
        IN  /\ valid = DOMAIN pairs \cup Range(pairs)
            /\ \A c \in DOMAIN pairs :
                  /\ c \in DOMAIN ms /\ pairs[c] \in 1..(c - 1)
                  /\ ms[c].class = ms[pairs[c]].class
                  /\ ms[c].op # "open" /\ ms[pairs[c]].op = "open"
                  /\ \A d \in DOMAIN pairs : pairs[d] = pairs[c] => c = d
            /\ (\A i \in DOMAIN ms : ms[i].op # "synth") =>
                  \A n \in DOMAIN ms :
                     Cardinality({c \in DOMAIN pairs : pairs[c] <= n /\ n < c}) <= MaxScopes

\* What may be there once is never there twice, however entries change places and
\* scopes reopen: a tag is on the stack once (push_with_origin), and the scopes that
\* are open are open in one place each, in the order they were made.
NoneTwice ==
    /\ \A i, j \in DOMAIN active.istack :
          StackTags(active)[i] = StackTags(active)[j] => i = j
    /\ \A i \in 2..Len(active.chain) : active.chain[i - 1] < active.chain[i]

\* Without anchors and block frames the chain and the stack of the scopes go
\* through what InlineStack lets E and I go through, step by step, with its boundaries
\* as they are lowered.
AsOpen  == IF Plain THEN TagsOf(active) ELSE << >>
AsStack == IF Plain THEN StackTags(active) ELSE << >>
AsClose == IF Plain /\ mode = "close" THEN closing.tag ELSE "none"
AsSlot  == IF Plain THEN closing.slot ELSE 0
AsMode  == IF Plain /\ mode \in {"close", "reopen"} THEN mode ELSE "read"

Stack == INSTANCE InlineStack WITH
    open <- AsOpen, stack <- AsStack, close <- AsClose, slot <- AsSlot, mode <- AsMode

Implements == Stack!LoweredSpec

\* What follows a boundary reopens exactly what the stack holds
\* (sync_chain_to_istack; docs/WikidotInlineNesting.md:30).
BoundaryReopensStack ==
    Plain /\ mode = "read" /\ at > 1 /\ stream[at - 1].op = "par" => AsOpen = AsStack

=============================================================================
