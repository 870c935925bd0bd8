-------------------------- MODULE ParseDriverProofs --------------------------
(***************************************************************************)
(* Proofs about ParseDriver, for every grammar, every page and every pair  *)
(* of limits.  The invariants are RuleEngine's, at the limit of the parse  *)
(* under way: Retry is where the one takes over from the other.            *)
(*                                                                         *)
(* The reference without memos is instantiated with the engine, once for   *)
(* each limit; that the two are one is shown operator by operator          *)
(* (SamePage).                                                             *)
(***************************************************************************)
EXTENDS ParseDriver, TLAPS

IInv ==
    /\ driver \in {"start", "worker", "inline", "deep"}
    /\ outcome.status \in {"none", "tree", "text"}
    /\ driver # "deep" => Ordinary!IInv /\ Ordinary!NInv
    /\ driver = "deep" => Deep!IInv /\ Deep!NInv
    /\ FootnotesServed

\* Nothing refers to nothing.
LEMMA NothingServed == Refers(<< >>, << >>, 1, 0) /\ Len(<< >>) = 0
<1> DEFINE g == [i \in 1..0 |-> 0]
<1>1. 1..0 = {} /\ DOMAIN << >> = {} /\ Len(<< >>) = 0
  OBVIOUS
<1>2. g \in [1..0 -> DOMAIN << >>]
  BY <1>1
<1> HIDE DEF g
<1> QED
  BY <1>1, <1>2 DEF Refers

LEMMA InitIInv == Init => IInv
<1> SUFFICES ASSUME Init PROVE IInv
  OBVIOUS
<1>1. Ordinary!IInv
  BY Ordinary!InitEstablishes, ParseDriverAssumption DEF Init
<1>2. input \in Seq(Token)
  BY <1>1 DEF Ordinary!IInv
<1>3. Ordinary!Starts
  BY <1>2 DEF Init, Ordinary!Init, Ordinary!Starts
<1>4. Ordinary!NInv
  BY <1>3, Ordinary!StartsFit, ParseDriverAssumption
<1>5. outcome = NoOutcome
  BY DEF Init
<1>6. FootnotesServed
  BY <1>5, NothingServed DEF FootnotesServed, NoOutcome
<1> QED
  BY <1>1, <1>4, <1>5, <1>6 DEF Init, IInv, NoOutcome

\* The engine takes a step, or none.
LEMMA Steps ==
    ASSUME IInv
    PROVE  /\ driver # "deep" /\ [Ordinary!Next]_(Ordinary!vars)
                => Ordinary!IInv' /\ Ordinary!NInv'
           /\ driver = "deep" /\ [Deep!Next]_(Deep!vars) => Deep!IInv' /\ Deep!NInv'
<1>1. ASSUME driver # "deep", [Ordinary!Next]_(Ordinary!vars)
      PROVE  Ordinary!IInv' /\ Ordinary!NInv'
  BY <1>1, Ordinary!StepKeeps, Ordinary!NotesStep, ParseDriverAssumption DEF IInv
<1>2. ASSUME driver = "deep", [Deep!Next]_(Deep!vars)
      PROVE  Deep!IInv' /\ Deep!NInv'
  BY <1>2, Deep!StepKeeps, Deep!NotesStep, ParseDriverAssumption DEF IInv
<1> QED
  BY <1>1, <1>2

\* Nothing happens to the parser.
LEMMA Idle ==
    ASSUME IInv, UNCHANGED parser
    PROVE  /\ driver # "deep" => Ordinary!IInv' /\ Ordinary!NInv'
           /\ driver = "deep" => Deep!IInv' /\ Deep!NInv'
<1>1. UNCHANGED Ordinary!vars /\ UNCHANGED Deep!vars
  BY DEF parser, Ordinary!vars, Ordinary!memos, Deep!vars, Deep!memos
<1> QED
  BY <1>1, Steps

LEMMA SameOutcome ==
    ASSUME FootnotesServed, UNCHANGED outcome PROVE FootnotesServed'
  BY DEF FootnotesServed, Refers

LEMMA RetryStep == IInv /\ Retry => IInv'
<1> SUFFICES ASSUME IInv, Retry PROVE IInv'
  OBVIOUS
<1>1. input \in Seq(Token)
  BY DEF IInv, Retry, MetLimit, Ordinary!IInv
<1>2. Deep!Starts'
  BY <1>1 DEF Retry, NewParser, Deep!Starts, Deep!PageFrame
<1>3. (Deep!Starts => Deep!IInv)'
  BY Deep!StartEstablishes, ParseDriverAssumption, PTL
<1>4. (Deep!Starts => Deep!NInv)'
  BY Deep!StartsFit, ParseDriverAssumption, PTL
<1>5. FootnotesServed'
  BY SameOutcome DEF IInv, Retry
<1> QED
  BY <1>2, <1>3, <1>4, <1>5 DEF IInv, Retry

\* What is returned is a page that was parsed with all its notes, or text without.
LEMMA ReturnServes ==
    ASSUME IInv, Return PROVE FootnotesServed'
<1>1. outcome' = Converted
  BY DEF Return
<1>2. CASE page = "ok"
  <2>1. Refers(frames[1].nodes, notes, 1, Len(notes))
    <3>1. CASE driver = "deep"
      <4>1. Deep!Refers(frames[1].nodes, notes, 1, Len(notes))
        BY <1>2, <3>1, Deep!PageRefers, ParseDriverAssumption DEF IInv
      <4> QED
        BY <4>1 DEF Refers, Deep!Refers
    <3>2. CASE driver # "deep"
      <4>1. Ordinary!Refers(frames[1].nodes, notes, 1, Len(notes))
        BY <1>2, <3>2, Ordinary!PageRefers, ParseDriverAssumption DEF IInv
      <4> QED
        BY <4>1 DEF Refers, Ordinary!Refers
    <3> QED
      BY <3>1, <3>2
  <2>2. /\ outcome'.nodes = frames[1].nodes /\ outcome'.notes = notes
        /\ notes # << >> => outcome'.footnoteBlock = "needed"
    BY <1>1, <1>2 DEF Converted
  <2>3. Refers(outcome.nodes, outcome.notes, 1, Len(outcome.notes))'
    BY <2>1, <2>2 DEF Refers
  <2> QED
    BY <2>2, <2>3 DEF FootnotesServed
<1>3. CASE page # "ok"
  <2>1. outcome'.nodes = << >> /\ outcome'.notes = << >>
    BY <1>1, <1>3 DEF Converted, NoOutcome
  <2>2. Refers(outcome.nodes, outcome.notes, 1, Len(outcome.notes))'
    <3>1. Len(outcome'.notes) = 0 /\ Refers(outcome'.nodes, outcome'.notes, 1, 0)
      BY <2>1, NothingServed
    <3> QED
      BY <3>1 DEF Refers
  <2> QED
    BY <2>1, <2>2 DEF FootnotesServed
<1> QED
  BY <1>2, <1>3

LEMMA NextIInv == IInv /\ [Next]_vars => IInv'
<1> SUFFICES ASSUME IInv, [Next]_vars PROVE IInv'
  OBVIOUS
<1>1. CASE SpawnWorker \/ SpawnFails
  BY <1>1, Idle, SameOutcome DEF IInv, SpawnWorker, SpawnFails
<1>2. CASE ParseOrdinary
  <2>1. driver # "deep" /\ Ordinary!Next /\ driver' = driver /\ outcome' = outcome
    BY <1>2 DEF ParseOrdinary
  <2> QED
    BY <2>1, Steps, SameOutcome DEF IInv
<1>3. CASE Retry
  BY <1>3, RetryStep
<1>4. CASE ParseDeep
  <2>1. driver = "deep" /\ Deep!Next /\ driver' = driver /\ outcome' = outcome
    BY <1>4 DEF ParseDeep
  <2> QED
    BY <2>1, Steps, SameOutcome DEF IInv
<1>5. CASE Return
  <2>1. outcome'.status \in {"tree", "text"}
    BY <1>5 DEF Return, Converted, NoOutcome
  <2> QED
    BY <1>5, <2>1, Idle, ReturnServes DEF Return, IInv
<1>6. CASE UNCHANGED vars
  BY <1>6, Idle, SameOutcome DEF vars, IInv
<1> QED
  BY <1>1, <1>2, <1>3, <1>4, <1>5, <1>6 DEF Next

\* The inductive invariant: the engine's own, at the limit of the parse under way.
THEOREM Invariance == Spec => []IInv
<1> QED
  BY InitIInv, NextIInv, PTL DEF Spec

\* The second parse starts well formed, whatever the first one left behind, and both
\* stay so.
THEOREM TypeCorrect == Spec => []TypeOK
<1>1. IInv => TypeOK
  BY Ordinary!WellTyped, Deep!WellTyped, ParseDriverAssumption DEF IInv, TypeOK
<1> QED
  BY <1>1, Invariance, PTL

\* No more parsers are ever open than the limit of the parse under way allows: deep
\* recursion happens on the worker's stack only.
THEOREM StackNeverExceeded == Spec => []StackFits
<1>1. IInv => StackFits
  BY Ordinary!Bounded, Deep!Bounded, ParseDriverAssumption DEF IInv, StackFits
<1> QED
  BY <1>1, Invariance, PTL

\* What parse() returns refers to its footnotes, each once and in order, whatever
\* attempts registered and gave back and however often the page was parsed.
THEOREM FootnotesReferred == Spec => []FootnotesServed
<1>1. IInv => FootnotesServed
  BY DEF IInv
<1> QED
  BY <1>1, Invariance, PTL


-----------------------------------------------------------------------------
(* The reference of the one parse is that of the other: it knows no limit but that of *)
(* its context.                                                                       *)

LEMMA SamePlain ==
    /\ \A text, pos : Ordinary!RefToken(text, pos) = Deep!RefToken(text, pos)
    /\ \A to, ns, es, rs, top :
          Ordinary!RefOk(to, ns, es, rs, top) = Deep!RefOk(to, ns, es, rs, top)
    /\ \A error, top : Ordinary!RefErr(error, top) = Deep!RefErr(error, top)
    /\ \A o : Ordinary!RefWon(o) <=> Deep!RefWon(o)
    /\ \A a, b : Ordinary!Larger(a, b) = Deep!Larger(a, b)
    /\ \A part, r, at : Ordinary!Node(part, r, at) = Deep!Node(part, r, at)
    /\ \A t : Ordinary!Rules(t) = Deep!Rules(t)
    /\ Ordinary!BlockRule = Deep!BlockRule /\ Ordinary!NoteEnds = Deep!NoteEnds
    /\ Ordinary!RefContexts = Deep!RefContexts
<1>1. \A text, pos : Ordinary!RefToken(text, pos) = Deep!RefToken(text, pos)
  BY DEF Ordinary!RefToken, Deep!RefToken
<1>2. \A to, ns, es, rs, top :
        Ordinary!RefOk(to, ns, es, rs, top) = Deep!RefOk(to, ns, es, rs, top)
  BY DEF Ordinary!RefOk, Deep!RefOk
<1>3. \A error, top : Ordinary!RefErr(error, top) = Deep!RefErr(error, top)
  BY <1>2 DEF Ordinary!RefErr, Deep!RefErr
<1>4. \A o : Ordinary!RefWon(o) <=> Deep!RefWon(o)
  BY DEF Ordinary!RefWon, Deep!RefWon
<1>5. \A a, b : Ordinary!Larger(a, b) = Deep!Larger(a, b)
  BY DEF Ordinary!Larger, Deep!Larger
<1>6. \A part, r, at : Ordinary!Node(part, r, at) = Deep!Node(part, r, at)
  BY DEF Ordinary!Node, Deep!Node
<1>7. \A t : Ordinary!Rules(t) = Deep!Rules(t)
  BY DEF Ordinary!Rules, Deep!Rules
<1>8. Ordinary!BlockRule = Deep!BlockRule /\ Ordinary!NoteEnds = Deep!NoteEnds
  BY Zenon DEF Ordinary!BlockRule, Deep!BlockRule, Ordinary!NoteEnds, Deep!NoteEnds
<1>9. Ordinary!RefContexts = Deep!RefContexts
  BY DEF Ordinary!RefContexts, Deep!RefContexts
<1> QED
  BY <1>1, <1>2, <1>3, <1>4, <1>5, <1>6, <1>7, <1>8, <1>9

LEMMA SameFollow ==
    ASSUME NEW a, NEW b PROVE Ordinary!RefFollow(a, b) = Deep!RefFollow(a, b)
  BY SamePlain, Zenon DEF Ordinary!RefFollow, Deep!RefFollow

LEMMA SameInside ==
    ASSUME NEW r, NEW c PROVE Ordinary!RefInside(r, c) = Deep!RefInside(r, c)
  BY Zenon DEF Ordinary!RefInside, Deep!RefInside

LEMMA SameClosed ==
    ASSUME NEW body, NEW r, NEW pos, NEW c
    PROVE  Ordinary!RefClosed(body, r, pos, c) = Deep!RefClosed(body, r, pos, c)
  BY SamePlain, Zenon DEF Ordinary!RefClosed, Deep!RefClosed

LEMMA SameAttemptOf ==
    ASSUME NEW body, NEW r, NEW pos, NEW c
    PROVE  Ordinary!RefAttemptOf(body, r, pos, c) = Deep!RefAttemptOf(body, r, pos, c)
<1>1. Ordinary!RefBodiless(r, c) <=> Deep!RefBodiless(r, c)
  BY DEF Ordinary!RefBodiless, Deep!RefBodiless
<1> QED
  BY <1>1, SamePlain, SameClosed, Zenon DEF Ordinary!RefAttemptOf, Deep!RefAttemptOf

LEMMA SameTries ==
    ASSUME NEW rest, NEW text, NEW pos, NEW c
    PROVE  Ordinary!RefTries(rest, text, pos, c) = Deep!RefTries(rest, text, pos, c)
<1>1. ASSUME NEW body, NEW r
      PROVE  Ordinary!RefAttemptOf(body, r, pos, c) = Deep!RefAttemptOf(body, r, pos, c)
  BY SameAttemptOf
<1>2. ASSUME NEW r PROVE Ordinary!RefInside(r, c) = Deep!RefInside(r, c)
  BY SameInside
<1>3. \A t : Ordinary!Rules(t) = Deep!Rules(t)
  BY SamePlain
<1>4. Ordinary!RefToken(text, pos) = Deep!RefToken(text, pos)
  BY SamePlain
<1> QED
  BY <1>1, <1>2, <1>3, <1>4, Zenon DEF Ordinary!RefTries, Deep!RefTries

LEMMA SameTop ==
    ASSUME NEW tries, NEW depth
    PROVE  Ordinary!RefTopOf(tries, depth) = Deep!RefTopOf(tries, depth)
  BY Zenon DEF Ordinary!RefTopOf, Deep!RefTopOf

LEMMA SameTaken ==
    ASSUME NEW tries, NEW text, NEW pos, NEW c
    PROVE  Ordinary!RefTaken(tries, text, pos, c) = Deep!RefTaken(tries, text, pos, c)
<1> DEFINE won == {t \in tries : Deep!RefWon(t.of)}
           top == Deep!RefTopOf(tries, c.depth)
           first == Deep!RefEarliest(won)
           upto == {t \in tries : t.turn <= first.turn}
           taken == IF won # {} THEN [first.of EXCEPT !.top = Deep!RefTopOf(upto, c.depth)]
                    ELSE IF Deep!RefToken(text, pos) = "end" THEN Deep!RefErr("end", top)
                    ELSE IF tries # {} /\ Deep!RefLatest(tries).of.error = "depth"
                      THEN Deep!RefErr("depth", top)
                    ELSE Deep!RefOk(pos + 1, <<Deep!Node("text", Page, pos)>>,
                                    {t.of.error : t \in tries}, << >>, top)
<1>1. Deep!RefTaken(tries, text, pos, c) = taken
  BY Zenon DEF Deep!RefTaken
<1>2. {t \in tries : Ordinary!RefWon(t.of)} = won
  BY SamePlain
<1>3. \A S : /\ Ordinary!RefEarliest(S) = Deep!RefEarliest(S)
             /\ Ordinary!RefLatest(S) = Deep!RefLatest(S)
  BY Zenon DEF Ordinary!RefEarliest, Deep!RefEarliest, Ordinary!RefLatest, Deep!RefLatest
<1>4. \A S : Ordinary!RefTopOf(S, c.depth) = Deep!RefTopOf(S, c.depth)
  BY SameTop
<1>5. /\ Ordinary!RefToken(text, pos) = Deep!RefToken(text, pos)
      /\ Ordinary!RefErr("end", top) = Deep!RefErr("end", top)
      /\ Ordinary!RefErr("depth", top) = Deep!RefErr("depth", top)
      /\ Ordinary!Node("text", Page, pos) = Deep!Node("text", Page, pos)
  <2> HIDE DEF top
  <2> QED
    BY SamePlain
<1>6. \A to, ns, es, rs : Ordinary!RefOk(to, ns, es, rs, top) = Deep!RefOk(to, ns, es, rs, top)
  <2> HIDE DEF top
  <2> QED
    BY SamePlain
<1>7. Ordinary!RefTaken(tries, text, pos, c) =
        IF won # {} THEN [first.of EXCEPT !.top = Deep!RefTopOf(upto, c.depth)]
        ELSE IF Deep!RefToken(text, pos) = "end" THEN Deep!RefErr("end", top)
        ELSE IF tries # {} /\ Deep!RefLatest(tries).of.error = "depth"
          THEN Deep!RefErr("depth", top)
        ELSE Ordinary!RefOk(pos + 1, <<Deep!Node("text", Page, pos)>>,
                            {t.of.error : t \in tries}, << >>, top)
  <2>1. Ordinary!RefEarliest(won) = first /\ Ordinary!RefLatest(tries) = Deep!RefLatest(tries)
    <3> HIDE DEF won
    <3> QED
      BY <1>3
  <2>2. Ordinary!RefTopOf(upto, c.depth) = Deep!RefTopOf(upto, c.depth)
        /\ Ordinary!RefTopOf(tries, c.depth) = top
    <3> HIDE DEF upto
    <3> QED
      BY <1>4
  <2> HIDE DEF won, first, top
  <2> QED
    BY <1>2, <1>5, <2>1, <2>2, Zenon DEF Ordinary!RefTaken
<1> QED
  <2> HIDE DEF won, first, upto, top
  <2> QED
    BY <1>1, <1>6, <1>7

LEMMA SameThen ==
    ASSUME NEW one, NEW rest, NEW c
    PROVE  Ordinary!RefThen(one, rest, c) = Deep!RefThen(one, rest, c)
  BY SamePlain, SameFollow, Zenon DEF Ordinary!RefThen, Deep!RefThen

LEMMA SameGuards ==
    ASSUME NEW c, NEW tok
    PROVE  /\ Ordinary!RefCloses(c, tok) <=> Deep!RefCloses(c, tok)
           /\ Ordinary!RefCut(c, tok) <=> Deep!RefCut(c, tok)
           /\ Ordinary!RefSteps(c, tok) <=> Deep!RefSteps(c, tok)
           /\ Ordinary!RefRunsOut(c, tok) <=> Deep!RefRunsOut(c, tok)
  BY SamePlain DEF Ordinary!RefCloses, Deep!RefCloses, Ordinary!RefCut, Deep!RefCut,
                   Ordinary!RefBlock, Deep!RefBlock, Ordinary!RefSteps, Deep!RefSteps,
                   Ordinary!RefRunsOut, Deep!RefRunsOut

LEMMA SameBodyOf ==
    ASSUME NEW rest, NEW text, NEW pos, NEW c
    PROVE  Ordinary!RefBodyOf(rest, text, pos, c) = Deep!RefBodyOf(rest, text, pos, c)
<1> DEFINE tok == Deep!RefToken(text, pos)
           d == [c EXCEPT !.depth = @ + 1]
           one == Deep!RefTaken(Deep!RefTries(rest, text, pos, d), text, pos, d)
<1>1. Ordinary!RefToken(text, pos) = tok
  BY SamePlain
<1>2. /\ Ordinary!RefCloses(c, tok) <=> Deep!RefCloses(c, tok)
      /\ Ordinary!RefCut(c, tok) <=> Deep!RefCut(c, tok)
      /\ Ordinary!RefSteps(c, tok) <=> Deep!RefSteps(c, tok)
      /\ Ordinary!RefRunsOut(c, tok) <=> Deep!RefRunsOut(c, tok)
  <2> HIDE DEF tok
  <2> QED
    BY SameGuards
<1>3. Ordinary!RefTaken(Ordinary!RefTries(rest, text, pos, d), text, pos, d) = one
  <2>1. Ordinary!RefTries(rest, text, pos, d) = Deep!RefTries(rest, text, pos, d)
    <3> HIDE DEF d
    <3> QED
      BY SameTries
  <2> HIDE DEF d
  <2> QED
    BY <2>1, SameTaken
<1>4. Ordinary!RefThen(one, rest, c) = Deep!RefThen(one, rest, c)
  <2> HIDE DEF one
  <2> QED
    BY SameThen
<1>5. \A error, top : Ordinary!RefErr(error, top) = Deep!RefErr(error, top)
  BY SamePlain
<1>6. \A to, ns, es, rs, top :
        Ordinary!RefOk(to, ns, es, rs, top) = Deep!RefOk(to, ns, es, rs, top)
  BY SamePlain
<1> QED
  BY <1>1, <1>2, <1>3, <1>4, <1>5, <1>6, Zenon DEF Ordinary!RefBodyOf, Deep!RefBodyOf

LEMMA SameBodies ==
    ASSUME NEW text \in Seq(Token), NEW pos \in 1..(Len(text) + 1)
    PROVE  Ordinary!RefBodies(text)[pos] = Deep!RefBodies(text)[pos]
<1> DEFINE n == Len(text) + 1
           S == {p \in 1..n : Ordinary!RefBodies(text)[p] = Deep!RefBodies(text)[p]}
<1>1. Len(text) \in Nat /\ n \in Nat
  OBVIOUS
<1>2. Ordinary!RefContexts = Deep!RefContexts
  BY SamePlain
<1>3. ASSUME NEW p \in 1..n, \A q \in (p + 1)..n : q \in S PROVE p \in S
  <2> DEFINE mine == [at \in (p + 1)..(Len(text) + 1) |-> Ordinary!RefBodies(text)[at]]
             other == [at \in (p + 1)..(Len(text) + 1) |-> Deep!RefBodies(text)[at]]
  <2>1. mine = other
    BY <1>3
  <2>2. Ordinary!RefBodies(text)[p] =
           [d \in Ordinary!RefContexts |-> Ordinary!RefBodyOf(mine, text, p, d)]
    BY <1>1, Ordinary!BodiesAt, ParseDriverAssumption
  <2>3. Deep!RefBodies(text)[p] =
           [d \in Deep!RefContexts |-> Deep!RefBodyOf(other, text, p, d)]
    BY <1>1, Deep!BodiesAt, ParseDriverAssumption
  <2> HIDE DEF mine, other
  <2>4. ASSUME NEW d
        PROVE  Ordinary!RefBodyOf(mine, text, p, d) = Deep!RefBodyOf(other, text, p, d)
    BY <2>1, SameBodyOf
  <2>5. Ordinary!RefBodies(text)[p] = Deep!RefBodies(text)[p]
    BY <1>2, <2>2, <2>3, <2>4
  <2> QED
    BY <2>5
<1>4. S \in SUBSET (1..n) /\ \A p \in 1..n : (\A q \in (p + 1)..n : q \in S) => p \in S
  BY <1>3
<1> HIDE DEF S
<1>5. S = 1..n
  BY <1>1, <1>4, Ordinary!FromTheEnd, ParseDriverAssumption
<1> QED
  BY <1>5 DEF S

LEMMA SamePage ==
    ASSUME NEW text \in Seq(Token), NEW limit \in Nat
    PROVE  Ordinary!RefPage(text, limit) = Deep!RefPage(text, limit)
<1> DEFINE c == [rule |-> Page, depth |-> 0, accepts |-> "none", zone |-> "page",
                 limit |-> limit]
<1>1. Ordinary!RefPage(text, limit) = Ordinary!RefBodies(text)[1][c]
  <2>1. Ordinary!RefPage(text, limit) = Ordinary!RefBody(text, 1, c)
    BY DEF Ordinary!RefPage
  <2> HIDE DEF c
  <2> QED
    BY <2>1, Ordinary!BodyIn, ParseDriverAssumption
<1>2. Deep!RefPage(text, limit) = Deep!RefBodies(text)[1][c]
  <2>1. Deep!RefPage(text, limit) = Deep!RefBody(text, 1, c)
    BY DEF Deep!RefPage
  <2> HIDE DEF c
  <2> QED
    BY <2>1, Deep!BodyIn, ParseDriverAssumption
<1>3. 1 \in 1..(Len(text) + 1)
  <2>1. Len(text) \in Nat
    OBVIOUS
  <2> QED
    BY <2>1
<1> HIDE DEF c
<1> QED
  BY <1>1, <1>2, <1>3, SameBodies

-----------------------------------------------------------------------------
(* Two limits, one page *)

\* Neither of the two memos that answer too much has been used by the parse under way.
Unasked == rejections = {} /\ blockFailures = {}

\* No block is known to run to the end of the page.
NoneEnded == \A b \in blockFailures : b[3] # {}

\* The parse under way follows the reference, at its limit, and what is returned is what
\* it came to.
JInv ==
    /\ IInv
    /\ driver # "deep" => Ordinary!Faithful
    /\ driver = "deep" => Deep!Faithful
    /\ driver = "start" => page = "parsing" /\ outcome = NoOutcome
    /\ outcome.status # "none" => page # "parsing" /\ outcome = Converted /\ ~MetLimit

LEMMA InitJInv == Init => JInv
<1> SUFFICES ASSUME Init PROVE JInv
  OBVIOUS
<1>1. IInv
  BY InitIInv
<1>2. driver = "start" /\ outcome = NoOutcome /\ page = "parsing"
  BY DEF Init, Ordinary!Init
<1>3. Ordinary!Faithful
  <2>1. input \in Seq(Token)
    BY <1>1, <1>2 DEF IInv, Ordinary!IInv
  <2>2. Ordinary!Starts /\ rejections = {}
    BY <1>2, <2>1 DEF Init, Ordinary!Init, Ordinary!Starts
  <2> QED
    BY <2>2, Ordinary!FaithfulStarts, ParseDriverAssumption
<1>4. outcome.status = "none"
  BY <1>2 DEF NoOutcome
<1> QED
  BY <1>1, <1>2, <1>3, <1>4 DEF JInv

\* The engine takes a step, or none.
LEMMA FollowsOn ==
    ASSUME JInv
    PROVE  /\ driver # "deep" /\ [Ordinary!Next]_(Ordinary!vars) => Ordinary!Faithful'
           /\ driver = "deep" /\ [Deep!Next]_(Deep!vars) => Deep!Faithful'
<1>1. ASSUME driver # "deep", [Ordinary!Next]_(Ordinary!vars) PROVE Ordinary!Faithful'
  <2>1. Ordinary!IInv /\ Ordinary!NInv /\ Ordinary!Faithful
    BY <1>1 DEF JInv, IInv
  <2> QED
    BY <1>1, <2>1, Ordinary!FaithfulStep, ParseDriverAssumption
<1>2. ASSUME driver = "deep", [Deep!Next]_(Deep!vars) PROVE Deep!Faithful'
  <2>1. Deep!IInv /\ Deep!NInv /\ Deep!Faithful
    BY <1>2 DEF JInv, IInv
  <2> QED
    BY <1>2, <2>1, Deep!FaithfulStep, ParseDriverAssumption
<1> QED
  BY <1>1, <1>2

LEMMA Rests ==
    ASSUME JInv, UNCHANGED parser
    PROVE  /\ driver # "deep" => Ordinary!Faithful'
           /\ driver = "deep" => Deep!Faithful'
           /\ Converted' = Converted /\ page' = page
<1>1. UNCHANGED Ordinary!vars /\ UNCHANGED Deep!vars
  BY DEF parser, Ordinary!vars, Ordinary!memos, Deep!vars, Deep!memos
<1>2. Converted' = Converted /\ page' = page
  BY DEF parser, Converted
<1> QED
  BY <1>1, <1>2, FollowsOn

LEMMA BegunAgain == Deep!Starts /\ rejections = {} => Deep!Faithful
  BY Deep!FaithfulStarts, ParseDriverAssumption

LEMMA RetryFollows ==
    ASSUME JInv, Retry PROVE JInv'
<1>1. IInv'
  BY RetryStep DEF JInv
<1>2. input \in Seq(Token)
  BY DEF JInv, IInv, Retry, MetLimit, Ordinary!IInv
<1>3. (Deep!Starts /\ rejections = {})'
  BY <1>2 DEF Retry, NewParser, Deep!Starts, Deep!PageFrame
<1>4. (Deep!Starts /\ rejections = {} => Deep!Faithful)'
  BY BegunAgain, PTL
<1>5. driver' = "deep" /\ outcome' = outcome /\ outcome.status = "none"
  BY DEF Retry, Parsed
<1> QED
  BY <1>1, <1>3, <1>4, <1>5 DEF JInv

LEMMA NextJInv == JInv /\ [Next]_vars => JInv'
<1> SUFFICES ASSUME JInv, [Next]_vars PROVE JInv'
  OBVIOUS
<1>1. IInv'
  BY NextIInv DEF JInv
<1>2. CASE SpawnWorker \/ SpawnFails
  <2>1. /\ UNCHANGED parser /\ outcome' = outcome /\ driver = "start"
        /\ driver' \in {"worker", "inline"}
    BY <1>2 DEF SpawnWorker, SpawnFails
  <2>2. outcome.status = "none"
    BY <2>1 DEF JInv, NoOutcome
  <2> QED
    BY <1>1, <2>1, <2>2, Rests DEF JInv
<1>3. CASE ParseOrdinary
  <2>1. /\ driver \in {"worker", "inline"} /\ page = "parsing" /\ Ordinary!Next
        /\ driver' = driver /\ outcome' = outcome
    BY <1>3 DEF ParseOrdinary
  <2>2. outcome.status = "none"
    BY <2>1 DEF JInv
  <2>3. Ordinary!Faithful'
    BY <2>1, FollowsOn
  <2> QED
    BY <1>1, <2>1, <2>2, <2>3 DEF JInv
<1>4. CASE ParseDeep
  <2>1. /\ driver = "deep" /\ page = "parsing" /\ Deep!Next
        /\ driver' = driver /\ outcome' = outcome
    BY <1>4 DEF ParseDeep
  <2>2. outcome.status = "none"
    BY <2>1 DEF JInv
  <2>3. Deep!Faithful'
    BY <2>1, FollowsOn
  <2> QED
    BY <1>1, <2>1, <2>2, <2>3 DEF JInv
<1>5. CASE Retry
  BY <1>5, RetryFollows
<1>6. CASE Return
  <2>1. /\ UNCHANGED parser /\ driver' = driver /\ outcome' = Converted
        /\ page # "parsing" /\ ~MetLimit
    BY <1>6 DEF Return, Parsed
  <2>2. driver # "start"
    BY <2>1 DEF JInv
  <2>3. Converted' = Converted /\ page' = page
    BY <2>1, Rests
  <2>4. ~MetLimit'
    BY <2>1, <2>3 DEF MetLimit
  <2> QED
    BY <1>1, <2>1, <2>2, <2>3, <2>4, Rests DEF JInv
<1>7. CASE UNCHANGED vars
  <2>1. UNCHANGED parser /\ driver' = driver /\ outcome' = outcome
    BY <1>7 DEF vars
  <2>2. Converted' = Converted /\ page' = page
    BY <2>1, Rests
  <2>3. MetLimit' = MetLimit
    BY <2>1, <2>2 DEF MetLimit
  <2> QED
    BY <1>1, <2>1, <2>2, <2>3, Rests DEF JInv
<1> QED
  BY <1>2, <1>3, <1>4, <1>5, <1>6, <1>7 DEF Next

\* What is returned is the reference's page at the limit it was parsed at.
Right(ref, limit) ==
    /\ page = "ok" => /\ frames[1].nodes = ref.nodes /\ notes = ref.notes
                      /\ frames[1].errors = ref.errors
    /\ page # "ok" => ref.error = "depth"
    /\ ref.error = "depth" \/ "depth" \in ref.errors => ref.top > limit
    /\ ref.top \in Nat

LEMMA ReturnRight ==
    ASSUME JInv, Unasked, outcome.status # "none"
    PROVE  /\ driver = "deep" => Right(Deep!RefPage(input, DeepDepth), DeepDepth)
           /\ driver # "deep" => Right(Deep!RefPage(input, DefaultDepth), DefaultDepth)
           /\ outcome = Converted /\ ~MetLimit
           /\ input \in Seq(Token)
<1>1. outcome = Converted /\ ~MetLimit /\ page # "parsing"
  BY DEF JInv
<1>2. input \in Seq(Token)
  BY DEF JInv, IInv, Ordinary!IInv, Deep!IInv
<1>3. DefaultDepth \in Nat /\ DeepDepth \in Nat
  BY ParseDriverAssumption DEF Ordinary!RuleEngineAssumption, Deep!RuleEngineAssumption
<1>4. CASE driver = "deep"
  <2>1. Deep!IInv /\ Deep!EngineRight(TRUE)
    BY <1>4 DEF JInv, IInv, Deep!Faithful, Deep!Unasked, Unasked
  <2> QED
    BY <1>1, <1>2, <1>4, <2>1, Deep!PageTaken, ParseDriverAssumption DEF Right
<1>5. CASE driver # "deep"
  <2>1. Ordinary!IInv /\ Ordinary!EngineRight(TRUE)
    BY <1>5 DEF JInv, IInv, Ordinary!Faithful, Ordinary!Unasked, Unasked
  <2>2. Right(Ordinary!RefPage(input, DefaultDepth), DefaultDepth)
    BY <1>1, <2>1, Ordinary!PageTaken, ParseDriverAssumption DEF Right
  <2>3. Right(Deep!RefPage(input, DefaultDepth), DefaultDepth)
    BY <1>2, <1>3, <2>2, SamePage
  <2> QED
    BY <1>1, <1>2, <1>5, <2>3
<1> QED
  BY <1>4, <1>5

\* A page that keeps within the ordinary limit is the same at both.
LEMMA FitsBoth ==
    ASSUME input \in Seq(Token)
    PROVE  LET ref == Deep!RefPage(input, DeepDepth)
               low == Deep!RefPage(input, DefaultDepth)
           IN  /\ DefaultDepth \in Nat /\ DeepDepth \in Nat /\ DefaultDepth <= DeepDepth
               /\ ref.top \in Nat
               /\ ref.top <= DefaultDepth =>
                     /\ low.error = ref.error /\ low.nodes = ref.nodes
                     /\ low.errors = ref.errors /\ low.notes = ref.notes /\ low.top = ref.top
<1> DEFINE ref == Deep!RefPage(input, DeepDepth)
           low == Deep!RefPage(input, DefaultDepth)
<1>1. input \in Seq(Token)
  OBVIOUS
<1>2. /\ DefaultDepth \in Nat /\ DeepDepth \in Nat /\ DefaultDepth <= DeepDepth
      /\ ref.top \in Nat
  <2>1. /\ DefaultDepth \in Nat /\ DeepDepth \in Nat /\ DefaultDepth <= DeepDepth
    BY ParseDriverAssumption DEF Ordinary!RuleEngineAssumption, Deep!RuleEngineAssumption
  <2> QED
    BY <1>1, <2>1, Deep!PageTyped, ParseDriverAssumption
<1>3. ref.top <= DefaultDepth =>
        /\ low.error = ref.error /\ low.nodes = ref.nodes /\ low.errors = ref.errors
        /\ low.notes = ref.notes /\ low.top = ref.top
  <2> SUFFICES ASSUME ref.top <= DefaultDepth
               PROVE  /\ low.error = ref.error /\ low.nodes = ref.nodes
                      /\ low.errors = ref.errors /\ low.notes = ref.notes
                      /\ low.top = ref.top
    OBVIOUS
  <2>1. ref.top <= DeepDepth
    BY <1>2
  <2>2. Deep!Moved(ref, low, 0, 0)
    BY <1>1, <1>2, <2>1, Deep!LimitPlaysNoPart, ParseDriverAssumption
  <2>3. low.top \in Nat
    BY <1>1, <1>2, Deep!PageTyped, ParseDriverAssumption
  <2> HIDE DEF ref, low
  <2>4. /\ low.error = ref.error /\ low.nodes = ref.nodes
        /\ low.errors = ref.errors /\ low.notes = ref.notes
    BY <2>2 DEF Deep!Moved
  <2>5. low.top + 0 = ref.top + 0
    BY <2>2 DEF Deep!Moved
  <2>6. low.top = ref.top
    BY <1>2, <2>3, <2>5
  <2> QED
    BY <2>4, <2>6
<1> QED
  BY <1>2, <1>3

\* A page that keeps within the limit it is parsed at leaves nothing to ask, unless a
\* block runs to the end.
LEMMA WithinLimits ==
    ASSUME JInv, NoneEnded, rejections = {},
           LET ref == Deep!RefPage(input, DeepDepth)
           IN  ref.top <= DefaultDepth \/ (driver = "deep" /\ ref.top <= DeepDepth)
    PROVE  Unasked
<1> DEFINE ref == Deep!RefPage(input, DeepDepth)
           low == Deep!RefPage(input, DefaultDepth)
<1>1. input \in Seq(Token)
  BY DEF JInv, IInv, Ordinary!IInv, Deep!IInv
<1>2. /\ DefaultDepth \in Nat /\ DeepDepth \in Nat /\ DefaultDepth <= DeepDepth
      /\ ref.top \in Nat /\ (ref.top <= DefaultDepth => low.top = ref.top)
  BY <1>1, FitsBoth
<1>3. Ordinary!RefPage(input, DefaultDepth) = low
  BY <1>1, <1>2, SamePage
<1> HIDE DEF low
<1>4. CASE driver = "deep"
  <2>1. ref.top <= DeepDepth
    <3> HIDE DEF ref
    <3>1. ref.top <= DefaultDepth \/ ref.top <= DeepDepth
      BY DEF ref
    <3> QED
      BY <1>2, <3>1
  <2>2. Deep!WithinLimit /\ Deep!NoneEnded
    BY <2>1 DEF Deep!WithinLimit, Deep!NoneEnded, NoneEnded
  <2> QED
    BY <1>4, <2>2 DEF JInv, Deep!Faithful, Unasked
<1>5. CASE driver # "deep"
  <2>1. low.top <= DefaultDepth
    BY <1>2, <1>5
  <2>2. Ordinary!WithinLimit /\ Ordinary!NoneEnded
    BY <1>3, <2>1 DEF Ordinary!WithinLimit, Ordinary!NoneEnded, NoneEnded
  <2> QED
    BY <1>5, <2>2 DEF JInv, Ordinary!Faithful, Unasked
<1> QED
  BY <1>4, <1>5

LEMMA LimitsLeaveNoTrace ==
    ASSUME JInv, rejections = {}, NoneEnded PROVE LimitsInvisible
<1> SUFFICES ASSUME outcome.status # "none" PROVE LimitsInvisible
  BY DEF LimitsInvisible
<1> DEFINE ref == Deep!RefPage(input, DeepDepth)
           low == Deep!RefPage(input, DefaultDepth)
<1>1. ASSUME \/ ref.top <= DefaultDepth
             \/ driver = "deep" /\ ref.top <= DeepDepth
      PROVE  /\ outcome.status = "tree" /\ outcome.nodes = ref.nodes
             /\ outcome.notes = ref.notes /\ outcome.errors = ref.errors
  <2>1. Unasked
    BY <1>1, WithinLimits
  <2>2. /\ driver = "deep" => Right(ref, DeepDepth)
        /\ driver # "deep" => Right(low, DefaultDepth)
        /\ outcome = Converted /\ input \in Seq(Token)
    BY <2>1, ReturnRight
  <2>3. /\ DefaultDepth \in Nat /\ DeepDepth \in Nat /\ DefaultDepth <= DeepDepth
        /\ ref.top \in Nat
        /\ ref.top <= DefaultDepth =>
              /\ low.error = ref.error /\ low.nodes = ref.nodes /\ low.errors = ref.errors
              /\ low.notes = ref.notes /\ low.top = ref.top
    BY <2>2, FitsBoth
  <2> HIDE DEF ref, low
  <2>4. page = "ok" /\ frames[1].nodes = ref.nodes /\ notes = ref.notes
        /\ frames[1].errors = ref.errors
    BY <1>1, <2>2, <2>3 DEF Right
  <2> QED
    BY <2>2, <2>4 DEF Converted
<1> QED
  BY <1>1 DEF LimitsInvisible

LEMMA LimitsReported ==
    ASSUME JInv, NoneEnded PROVE DepthReported
<1> SUFFICES ASSUME outcome.status # "none", "depth" \in outcome.errors, driver # "inline"
             PROVE  Deep!RefPage(input, DeepDepth).top > DeepDepth
  BY DEF DepthReported
<1>1. outcome = Converted /\ ~MetLimit /\ page # "parsing"
  BY DEF JInv
<1>2. driver = "deep"
  <2>1. driver \in {"start", "worker", "inline", "deep"}
    BY DEF JInv, IInv
  <2>2. driver # "worker"
    BY <1>1 DEF MetLimit
  <2>3. driver # "start"
    BY DEF JInv, NoOutcome
  <2> QED
    BY <2>1, <2>2, <2>3
<1>3. input \in Seq(Token) /\ DeepDepth \in Nat /\ Deep!RefPage(input, DeepDepth).top \in Nat
  <2>1. input \in Seq(Token)
    BY DEF JInv, IInv, Ordinary!IInv, Deep!IInv
  <2> QED
    BY <2>1, FitsBoth
<1>4. ~Deep!WithinLimit
  <2> SUFFICES ASSUME Deep!WithinLimit PROVE FALSE
    OBVIOUS
  <2>1. Deep!IInv /\ Deep!Faithful /\ Deep!NoneEnded
    BY <1>2 DEF JInv, IInv, NoneEnded, Deep!NoneEnded
  <2>2. page = "ok" /\ "depth" \notin frames[1].errors
    BY <1>1, <2>1, Deep!NoDepthTaken, ParseDriverAssumption
  <2> QED
    BY <1>1, <2>2 DEF Converted
<1> QED
  BY <1>3, <1>4 DEF Deep!WithinLimit

\* Unless the parse that came to the outcome knew of an element that was refused, or of a
\* block that runs to the end, no limit and no first parse leaves a trace in it: parse()
\* returns what a single parse without memos makes of the page.
THEOREM LimitsLeaveNothing ==
    Spec => [](rejections = {} /\ NoneEnded => LimitsInvisible)
<1> QED
  BY InitJInv, NextJInv, LimitsLeaveNoTrace, PTL DEF Spec

\* Unless a block is known to run to the end, a recursion error is reported only for what
\* the deep limit does not hold.
THEOREM DepthErrorsTrue == Spec => [](NoneEnded => DepthReported)
<1> QED
  BY InitJInv, NextJInv, LimitsReported, PTL DEF Spec

=============================================================================
