--------------------------- MODULE RuleInvariants ---------------------------
(***************************************************************************)
(* What holds of RuleEngine at every step, for the proofs of               *)
(* RuleEngineProofs.                                                       *)
(*                                                                         *)
(*   1. Depth and memos: the engine is within its types and its limit      *)
(*      (IInv).                                                            *)
(*   2. Footnotes: what is registered is what the elements refer to (NInv).*)
(*   3. The reference: what its answers are, and at which depths an        *)
(*      attempt is the same (Typed, Moved).                                *)
(*   4. The engine follows the reference (EngineRight): parsers, memos and *)
(*      the page; and how far it does (Faithful).                          *)
(***************************************************************************)
EXTENDS RuleMemos, FiniteSets

\* A parser at place k of the stack.
Placed(p, k) ==
    /\ p.depth = IF p.phase = "rules" THEN k ELSE k - 1
    /\ p.enclosing <= MaxDepth + 1
    /\ p.start <= p.pos
    /\ k = 1 => p.rule = Page

\* q runs a rule for p.
Follows(p, q) ==
    p.phase = "rules" /\ q.start = p.pos /\ p.noteCount <= q.noteCount

Stack(fs) ==
    /\ fs \in Seq(Frame) /\ Len(fs) > 0
    /\ \A k \in 1..Len(fs) : Placed(fs[k], k)
    /\ \A k \in 1..(Len(fs) - 1) : Follows(fs[k], fs[k + 1])

\* p is the same attempt as q, further on.
Carries(p, q) == p.start = q.start /\ p.noteCount = q.noteCount

MemosOK ==
    /\ Memo(failures, FailureEntries) /\ Fits(failures)
    /\ Memo(successes, SuccessEntries) /\ Fits(successes)
    /\ Memo(walks, WalkEntries) /\ Fits(walks)
    /\ blockFailures \subseteq BlockRule \X Pos \X SUBSET (0..MaxDepth)

IInv ==
    /\ input \in Seq(Token)
    /\ Stack(frames)
    /\ notes \in Seq(Note) /\ Top.noteCount <= Len(notes)
    /\ peak \in Nat /\ Top.depth <= peak /\ peak <= MaxDepth + 1
    /\ MemosOK
    /\ page \in {"parsing", "ok", "error"}

\* A parser at the start of a page.
Starts ==
    /\ input \in Seq(Token) /\ frames = <<PageFrame>> /\ notes = << >> /\ peak = 0
    /\ failures = << >> /\ successes = << >> /\ walks = << >> /\ blockFailures = {}
    /\ page = "parsing"

-----------------------------------------------------------------------------
(* Footnotes and the references to them: whatever attempts fail, are spared   *)
(* or are undone, what is registered is what the elements refer to.           *)

\* The notes that the parser at place k has to account for end here.
Upto(fs, ns, k) == IF k = Len(fs) THEN Len(ns) ELSE fs[k + 1].noteCount

PlainNodes(nodes) == \A i \in DOMAIN nodes : nodes[i].part # "note"

\* What p has gathered refers to the notes after its snapshot up to m; inside a
\* note there are none, and a leaf gathers nothing.
Owns(p, ns, m) ==
    /\ Refers(p.nodes, ns, p.noteCount + 1, m)
    /\ p.zone = "note" => m = p.noteCount
    /\ Shape[p.rule] = "note" => p.zone = "note"
    /\ Shape[p.rule] = "leaf" => p.phase = "body" /\ m = p.noteCount

NotesFit(fs, ns) ==
    /\ fs[1].noteCount = 0
    /\ \A k \in 1..Len(fs) : Owns(fs[k], ns, Upto(fs, ns, k))
    /\ \A k \in 1..(Len(fs) - 1) : fs[k].zone = "note" => fs[k + 1].zone = "note"
    /\ \A k \in 2..Len(fs) : fs[k].rule # Page
    /\ \A j, k \in 1..Len(fs) : j < k => fs[j].noteCount <= fs[k].noteCount

SuccessesPlain == \A key \in DOMAIN successes : PlainNodes(successes[key].nodes)

NInv ==
    /\ NotesFit(frames, notes)
    /\ SuccessesPlain
    /\ page = "ok" => Len(frames) = 1

-----------------------------------------------------------------------------
(* How the stack moves *)

\* p is the same parser as q, perhaps with other nodes.
Continues(p, q) ==
    p.rule = q.rule /\ p.zone = q.zone /\ p.noteCount = q.noteCount

-----------------------------------------------------------------------------
(* The reference: its bodies are a recursive function of the position, each from those *)
(* behind it.                                                                          *)

\* The bodies at pos, from those of later positions.
BodiesFrom(from, text, pos) ==
    [c \in RefContexts |->
        RefBodyOf([at \in (pos + 1)..(Len(text) + 1) |-> from[at]], text, pos, c)]

-----------------------------------------------------------------------------
(* The rules of a token, tried one after another *)

\* The largest of depth and the first k tops.
IsTop(top, tops, k, depth) ==
    /\ top = depth \/ \E i \in 1..k : top = tops[i]
    /\ top >= depth /\ \A i \in 1..k : top >= tops[i]

\* Tries as a set, of answers by turn.
TriesOf(F, m) == {[turn |-> i, of |-> F[i]] : i \in 1..m}
TopsOf(F, m) == [i \in 1..m |-> F[i].top]

\* What becomes of a token none of whose rules succeeds.
LostAt(text, pos, errors, last, top) ==
    IF RefToken(text, pos) = "end" THEN RefErr("end", top)
    ELSE IF last = "depth" THEN RefErr("depth", top)
    ELSE RefOk(pos + 1, <<Node("text", Page, pos)>>, errors, << >>, top)

ErrorsOf(F, m) == {F[i].error : i \in 1..m}
LastError(F, m) == IF m = 0 THEN "none" ELSE F[m].error

-----------------------------------------------------------------------------
(* Types of what the reference answers *)

RefOutcome ==
    [error : ErrorKind \cup {"none"}, to : Nat, nodes : Nodes,
     errors : SUBSET ErrorKind, notes : Seq(Note), top : Nat]

\* What a body or a rule answers in context c, before the end of text.
Typed(o, c, from, to) ==
    /\ o \in RefOutcome /\ o.top >= c.depth
    /\ RefWon(o) => o.to \in from..to
    /\ ~RefWon(o) => o.error \in ErrorKind /\ o = RefErr(o.error, o.top)
    /\ o.error = "depth" \/ "depth" \in o.errors => o.top > c.limit

Within(c) == c \in RefContexts /\ c.depth <= c.limit

-----------------------------------------------------------------------------
(* Bodies *)

Turns(text, pos) == Rules(RefToken(text, pos))
Count(text, pos) == Len(Turns(text, pos))
Answers(text, pos, c) ==
    [i \in 1..Count(text, pos) |-> RefAttempt(text, Turns(text, pos)[i], pos, c)]
RefConsume(text, pos, c) ==
    RefTaken(TriesOf(Answers(text, pos, c), Count(text, pos)), text, pos, c)

Deeper(c) == [c EXCEPT !.depth = @ + 1]

\* The body goes on with consume.
Goes(text, pos, c) ==
    LET tok == RefToken(text, pos)
    IN  ~RefCloses(c, tok) /\ ~RefCut(c, tok) /\ ~RefSteps(c, tok) /\ ~RefRunsOut(c, tok)

\* `one' is what consume made of the next token.
Then(text, one, c) ==
    IF RefWon(one) THEN RefFollow(one, RefBody(text, one.to, c))
                   ELSE RefErr(one.error, Larger(c.depth, one.top))

-----------------------------------------------------------------------------
(* What consume answers, from what the rules answer *)

\* The rules of the token answer as they should.
AnswersTyped(text, pos, c) ==
    \A i \in 1..Count(text, pos) :
        Typed(Answers(text, pos, c)[i], c, pos + 1, Len(text) + 1)

\* Rule k is the first that succeeds.
FirstWon(F, k) == RefWon(F[k]) /\ \A j \in 1..(k - 1) : ~RefWon(F[j])

\* What a taken rule leaves of its answer, and how deep the token went.
WonAs(one, o, F, m, k, depth) ==
    /\ one = RefOk(o.to, o.nodes, o.errors, o.notes, one.top)
    /\ one.top \in Nat /\ IsTop(one.top, TopsOf(F, m), k, depth)

LostAs(one, text, pos, F, m, depth) ==
    /\ one = LostAt(text, pos, ErrorsOf(F, m), LastError(F, m), one.top)
    /\ one.top \in Nat /\ IsTop(one.top, TopsOf(F, m), m, depth)

BodiesTyped(text, pos) ==
    \A c : Within(c) => Typed(RefBody(text, pos, c), c, pos, Len(text) + 1)

-----------------------------------------------------------------------------
(* The same attempt at another depth *)

\* p, from depth e on, is o from depth d on: all but the depth the same.
Moved(o, p, d, e) ==
    /\ p.error = o.error /\ p.to = o.to /\ p.nodes = o.nodes /\ p.errors = o.errors
    /\ p.notes = o.notes /\ p.top + d = o.top + e

\* Below its own limit, o is below e's if it starts at e's depth.
Room(o, c, e) == o.top <= c.limit /\ o.top + e.depth <= e.limit + c.depth

Alike(c, e) == c.rule = e.rule /\ c.accepts = e.accepts /\ c.zone = e.zone

\* The bodies at pos move to any depth that has room.
BodiesMove(text, pos) ==
    \A c, e : Within(c) /\ Within(e) /\ Alike(c, e) /\ Room(RefBody(text, pos, c), c, e) =>
        Moved(RefBody(text, pos, c), RefBody(text, pos, e), c.depth, e.depth)

TopsMoved(t, u, k, d, e) ==
    \A i \in 1..k : t[i] \in Nat /\ u[i] \in Nat /\ u[i] + d = t[i] + e

-----------------------------------------------------------------------------
(* A body, part of which has been walked *)

\* The body from `first' on is what has been gathered up to `to', and then the body
\* from there on.  In an exact run the errors are right too, and the peak high enough.
Walked(exact, text, first, to, c, nodes, errors, before, now, top) ==
    \E errs \in SUBSET ErrorKind, own \in Seq(Note), t \in Nat :
        /\ RefBody(text, first, c) =
              RefFollow(RefOk(to, nodes, errs, own, t), RefBody(text, to, c))
        /\ now = before \o own
        /\ t >= c.depth
        /\ exact => errs = errors /\ t <= top

-----------------------------------------------------------------------------
(* The same attempt, asked for twice *)

\* o was answered in context c, p in context e: either at the same depth, or both
\* below the limit, or o so much below it that there is room for p.
Within2(o, p, c, e) ==
    \/ c.depth = e.depth
    \/ o.top <= c.limit /\ p.top <= c.limit
    \/ \E h \in Nat : /\ o.top <= c.depth + h
                      /\ c.depth + h <= c.limit /\ e.depth + h <= c.limit

-----------------------------------------------------------------------------
(* How consume goes on, token by token *)

\* A body is inside consume.
Inside(text, pos, c) ==
    /\ pos \in 1..(Len(text) + 1) /\ Within(c)
    /\ Goes(text, pos, c) /\ c.depth < c.limit

\* Nothing tried so far went above top.
NoneAbove(F, k, depth, top) == depth <= top /\ \A i \in 1..k : F[i].top <= top

-----------------------------------------------------------------------------
(* What the parsers on the stack have to do with the bodies of the reference.  In an *)
(* exact run every answer is right to the error and the depth; otherwise the page    *)
(* keeps within the limit, and only what succeeds is right.                          *)

OnPath(exact, top) == exact \/ top <= MaxDepth

\* The context of parser f, or of a memo key, at a depth.
InContext(f, depth) ==
    [rule |-> f.rule, depth |-> depth, accepts |-> f.accepts, zone |-> f.zone,
     limit |-> MaxDepth]

FirstPos(f) == IF f.rule = Page THEN 1 ELSE f.start + 1

\* The answer o of a rule is a failure, and taken for one with this error.
LostRight(exact, o, error, top) ==
    /\ ~RefWon(o)
    /\ exact => o.error = error /\ o.top <= top
    /\ ~exact => error # "depth"

\* The rules that consume has tried would fail.
TriedRight(exact, text, f, k, top) ==
    /\ Inside(text, f.pos, InContext(f, k - 1))
    /\ Len(f.tried) <= Count(text, f.pos)
    /\ \A j \in 1..Len(f.tried) :
          LostRight(exact, Answers(text, f.pos, InContext(f, k))[j], f.tried[j], top)
    /\ exact => k <= top

\* A body that starts at first goes past v.
Passed(text, first, v, c) ==
    /\ v \in 1..(Len(text) + 1)
    /\ \E one \in RefOutcome :
          RefBody(text, first, c) = RefFollow(one, RefBody(text, v, c))

\* Parser f at place k has walked its body up to f.pos.
FrameRight(exact, text, f, k, before, now, top) ==
    /\ f.pos \in 1..(Len(text) + 1) /\ FirstPos(f) \in 1..(Len(text) + 1)
    /\ Walked(exact, text, FirstPos(f), f.pos, InContext(f, k - 1), f.nodes, f.errors,
              before, now, top)
    /\ \A v \in f.visited : Passed(text, FirstPos(f), v, InContext(f, k - 1))
    /\ f.phase = "rules" => TriedRight(exact, text, f, k, top)
    /\ f.phase = "body" => f.tried = << >>

-----------------------------------------------------------------------------
(* How a parser goes on *)

\* g is f, further on inside the same body.
Resumes(g, f) ==
    /\ g.rule = f.rule /\ g.start = f.start /\ g.accepts = f.accepts /\ g.zone = f.zone

\* The parser is at the end of input, or its last rule met the limit.
Stuck(text, f, error) ==
    \/ RefToken(text, f.pos) = "end" /\ error = "end"
    \/ /\ Len(f.tried) >= Count(text, f.pos) /\ error = "depth"
       /\ f.tried # << >> /\ Last(f.tried) = "depth"

-----------------------------------------------------------------------------
(* The stack, against the reference *)

Kept(ns, count) == SubSeq(ns, 1, count)

\* The registry, and the peak, as the parser at place k left them.
NotesAt(fs, ns, k) == IF k = Len(fs) THEN ns ELSE Kept(ns, fs[k + 1].noteCount)
PeakAt(fs, top, k) == IF k = Len(fs) THEN top ELSE fs[k + 1].enclosing

\* q runs, for p at place k, the rule that p's consume has come to.
RunsFor(exact, text, p, q, k) ==
    /\ Len(p.tried) < Count(text, p.pos)
    /\ q.rule = Turns(text, p.pos)[Len(p.tried) + 1]
    /\ q.accepts = RefInside(q.rule, InContext(p, k)).accepts
    /\ q.zone = RefInside(q.rule, InContext(p, k)).zone
    /\ IF RefBodiless(q.rule, InContext(p, k))
         THEN q.phase = "body" /\ q.pos = q.start + 1 /\ q.errors = {}
         ELSE OnPath(exact, RefBody(text, q.start + 1, InContext(q, k)).top)

PlaceRight(exact, text, fs, ns, top, k) ==
    FrameRight(exact, text, fs[k], k, Kept(ns, fs[k].noteCount), NotesAt(fs, ns, k),
               PeakAt(fs, top, k))

StackRight(exact, text, fs, ns, top) ==
    /\ fs[1].accepts = "none" /\ fs[1].zone = "page"
    /\ \A k \in 1..Len(fs) : PlaceRight(exact, text, fs, ns, top, k)
    /\ \A k \in 1..(Len(fs) - 1) : RunsFor(exact, text, fs[k], fs[k + 1], k)

\* f goes on as g, and stays the same attempt.
Keeps(g, f) == Resumes(g, f) /\ g.noteCount = f.noteCount /\ g.enclosing = f.enclosing

-----------------------------------------------------------------------------
(* What the memos hold *)

\* The depths that an entry of this key is for.
MayUse(key, height, depth) ==
    /\ depth \in 0..MaxDepth
    /\ key.depth = {depth} \/ (key.depth = {} /\ depth + height <= MaxDepth)

\* An entry goes back to an attempt at this depth, that went as deep as top.
Recorded(exact, key, height, depth, top) ==
    /\ MayUse(key, height, depth) /\ OnPath(exact, top)
    /\ exact => top <= depth + height

AttemptAt(text, key, depth) == RefAttempt(text, key.rule, key.pos, KeyCtx(key, depth))

BodyAt(text, key, depth) == RefBody(text, key.pos, InContext(key, depth))

FailureRight(exact, text, key, entry) ==
    /\ key.pos \in 1..Len(text)
    /\ \E depth \in 0..MaxDepth :
          /\ Recorded(exact, key, entry.height, depth, AttemptAt(text, key, depth).top)
          /\ ~RefWon(AttemptAt(text, key, depth))
          /\ AttemptAt(text, key, depth).error = entry.error

SuccessRight(exact, text, key, entry) ==
    /\ key.pos \in 1..Len(text)
    /\ \E depth \in 0..MaxDepth :
          /\ Recorded(exact, key, entry.height, depth, AttemptAt(text, key, depth).top)
          /\ RefWon(AttemptAt(text, key, depth))
          /\ AttemptAt(text, key, depth).nodes = entry.nodes
          /\ AttemptAt(text, key, depth).notes = << >>
          /\ AttemptAt(text, key, depth).to = key.pos + entry.length
          /\ exact => AttemptAt(text, key, depth).errors = entry.errors

WalkRight(exact, text, key, entry) ==
    /\ key.pos \in 1..(Len(text) + 1)
    /\ \E depth \in 0..MaxDepth :
          /\ Recorded(exact, key, entry.height, depth, BodyAt(text, key, depth).top)
          /\ ~RefWon(BodyAt(text, key, depth))
          /\ BodyAt(text, key, depth).error = "end"

\* c is a context that key may be looked up for at depth d.
Lookup(key, c, d) ==
    /\ Within(c) /\ c.depth = d /\ c.limit = MaxDepth
    /\ c.accepts = key.accepts /\ c.zone = key.zone

FailuresRight(exact, text, memo) ==
    \A key \in DOMAIN memo : FailureRight(exact, text, key, memo[key])
SuccessesRight(exact, text, memo) ==
    \A key \in DOMAIN memo : SuccessRight(exact, text, key, memo[key])
WalksRight(exact, text, memo) ==
    \A key \in DOMAIN memo : WalkRight(exact, text, key, memo[key])

\* The two memos whose keys leave something out.
RefusalsRight(refusals) == \A r \in refusals : Shape[r[1]] = "item" /\ r[4] # "item"
BlocksRight(exact, blocks) == ~exact => \A b \in blocks : b[3] = {}

\* The answer o of a rule is what the entry says, and ends at to.
SavedRight(exact, o, entry, to, top) ==
    /\ RefWon(o) /\ o.nodes = entry.nodes /\ o.notes = << >> /\ o.to = to
    /\ exact => o.errors = entry.errors /\ o.top <= top

-----------------------------------------------------------------------------
(* The engine and the reference *)

BodyCtx == InContext(Top, Len(frames) - 1)

\* The parsers on the stack, and what they have registered.
FramesRight(exact) == StackRight(exact, input, frames, notes, peak)

OnLimit(exact) == OnPath(exact, RefPage(input, MaxDepth).top)

MemosRight(exact) ==
    /\ FailuresRight(exact, input, failures)
    /\ SuccessesRight(exact, input, successes)
    /\ WalksRight(exact, input, walks)
    /\ RefusalsRight(rejections)
    /\ BlocksRight(exact, blockFailures)

PageRight(exact) ==
    LET ref == RefPage(input, MaxDepth)
    IN  /\ page = "ok" => /\ RefWon(ref)
                          /\ Top.nodes = ref.nodes /\ notes = ref.notes
                          /\ exact => Top.errors = ref.errors
        /\ page = "error" => ~RefWon(ref) /\ ref.error = "depth"
        /\ page # "parsing" => Len(frames) = 1

EngineRight(exact) ==
    /\ FramesRight(exact)
    /\ MemosRight(exact)
    /\ PageRight(exact)

\* The innermost parser has a body to walk.
Bodied ==
    Len(frames) > 1 =>
        ~RefBodiless(Top.rule, InContext(frames[Len(frames) - 1], Len(frames) - 1))

-----------------------------------------------------------------------------
(* The attempt the innermost parser runs, and its parent *)

Parent == frames[Len(frames) - 1]
ParentCtx == InContext(Parent, Len(frames) - 1)
Attempted == RefAttempt(input, Top.rule, Top.start, ParentCtx)

\* The attempt fails, in the reference as here.
AttemptLost(exact, error, top) ==
    /\ ~RefWon(Attempted) /\ Attempted.error = error
    /\ exact => Attempted.top <= top
    /\ OnPath(exact, Attempted.top)
    /\ error = "depth" => exact

\* The body that is being walked fails.
BodyLost(exact, error, top) ==
    /\ ~RefWon(RefBody(input, Top.pos, BodyCtx))
    /\ RefBody(input, Top.pos, BodyCtx).error = error
    /\ exact => RefBody(input, Top.pos, BodyCtx).top <= top

-----------------------------------------------------------------------------
(* The conditions of the steps, as those of the reference *)

\* Two keys that differ at most in the depth they are pinned to.
SameQuestion(key, k) ==
    key.rule = k.rule /\ key.pos = k.pos /\ key.accepts = k.accepts /\ key.zone = k.zone

-----------------------------------------------------------------------------
(* What a step of the engine is to the reference *)

\* The attempt succeeds, in the reference as here, with these notes among others.
AttemptWon(exact, registered) ==
    /\ RefWon(Attempted) /\ Attempted.to = EndOf(Top) /\ Attempted.nodes = Result(Top)
    /\ registered = Kept(notes, Top.noteCount) \o Attempted.notes
    /\ exact => Attempted.errors = Top.errors /\ Attempted.top <= peak
    /\ OnPath(exact, Attempted.top)

-----------------------------------------------------------------------------
(* The rules that consume tries *)

\* The context in which the innermost parser tries rules, and what the next one makes
\* of its token.
TryCtx == InContext(Top, Len(frames))
NextAnswer == RefAttempt(input, NextRule, Top.pos, TryCtx)

-----------------------------------------------------------------------------
(* The memos change nothing *)

\* The next rule would fail as it is taken to have failed, and no deeper than the peak
\* accounts for.
Spared(error) ==
    LET ref == RefAttempt(input, NextRule, Top.pos, Ctx(Top))
    IN  ~RefWon(ref) /\ ref.error = error /\ ref.top <= peak'

\* The two memos whose keys leave something out are right wherever they are used.
SparesExactly ==
    /\ RejectedBefore => Spared("partial")
    /\ BlockEndedBefore => Spared("end")
    /\ BlockTooDeepBefore => Spared("depth")

\* What a memo entry, and the page, promise of the reference's answers, of those within
\* the limit at least.
PageFollows ==
    page # "parsing" => OutcomeMatches(RefPage(input, MaxDepth))

PageExact ==
    page # "parsing" =>
        LET ref == RefPage(input, MaxDepth)
        IN  OutcomeMatches(ref) /\ (RefWon(ref) => Top.errors = ref.errors)

WalksFollow ==
    page = "parsing" /\ AtToken /\ AsksWalk /\ WalkEntry # {} =>
        LET ref == RefBody(input, Top.pos, Ctx(Top))
        IN  ~RefWon(ref) /\ ref.error = "end"

FailuresFollow(exact) ==
    \A key \in DOMAIN failures : \A depth \in UsedAt(failures, key) :
        LET ref == RefAttempt(input, key.rule, key.pos, KeyCtx(key, depth))
        IN  OnPath(exact, ref.top) => ~RefWon(ref) /\ ref.error = failures[key].error

SuccessesFollow(exact) ==
    \A key \in DOMAIN successes : \A depth \in UsedAt(successes, key) :
        LET ref == RefAttempt(input, key.rule, key.pos, KeyCtx(key, depth))
        IN  OnPath(exact, ref.top) =>
                /\ RefWon(ref) /\ ref.nodes = successes[key].nodes
                /\ ref.to = key.pos + successes[key].length
                /\ exact => ref.errors = successes[key].errors

Unwarned(errors) == "depth" \notin errors

\* No warning of the limit is carried along.
NoDepthWarning ==
    /\ \A k \in 1..Len(frames) : Unwarned(frames[k].errors)
    /\ \A key \in DOMAIN successes : Unwarned(successes[key].errors)

\* What every step keeps of the reference, as far as the memos allow.
Faithful ==
    /\ Unasked => EngineRight(TRUE)
    /\ NoneEnded /\ WithinLimit =>
          EngineRight(FALSE) /\ blockFailures = {} /\ NoDepthWarning

=============================================================================
