---------------------------- MODULE RuleReference ----------------------------
(***************************************************************************)
(* What a grammar makes of a page: the rule engine without memos and       *)
(* without a state, as a function of text, position and context.           *)
(***************************************************************************)
EXTENDS RuleGrammar, FiniteSets

\* A context is what the answer of a parser may depend on.
RefContexts ==
    [rule : Rule, depth : Nat, accepts : {"none", "item"}, zone : {"page", "note"},
     limit : Nat]

RefToken(text, pos) == IF pos <= Len(text) THEN text[pos] ELSE "end"

\* A rule or a body that succeeds; its top is the depth of its deepest consume.
RefOk(to, nodes, errors, registered, top) ==
    [error |-> "none", to |-> to, nodes |-> nodes, errors |-> errors,
     notes |-> registered, top |-> top]

RefErr(error, top) ==
    [RefOk(0, << >>, {}, << >>, top) EXCEPT !.error = error]

RefWon(o) == o.error = "none"

\* `one', which succeeded, and then `after'.
RefFollow(one, after) ==
    IF ~RefWon(after)
      THEN RefErr(after.error, Larger(one.top, after.top))
      ELSE RefOk(after.to, one.nodes \o after.nodes, one.errors \cup after.errors,
                 one.notes \o after.notes, Larger(one.top, after.top))

-----------------------------------------------------------------------------
(* A rule *)

\* The context inside rule r.
RefInside(r, c) ==
    [c EXCEPT !.rule = r,
              !.accepts = IF Shape[r] = "group" THEN "item" ELSE @,
              !.zone = IF Shape[r] = "note" THEN "note" ELSE @]

\* What rule r at pos makes of its body.
RefClosed(body, r, pos, c) ==
    IF ~RefWon(body) THEN body
    ELSE IF Shape[r] = "item" /\ c.accepts # "item"
      THEN RefErr("partial", body.top)
    ELSE IF Shape[r] = "note"
      THEN RefOk(body.to, <<Node("note", r, pos)>>, body.errors,
                 Append(body.notes, [at |-> pos, nodes |-> body.nodes]), body.top)
    ELSE RefOk(body.to,
               <<Node("open", r, pos)>> \o body.nodes \o <<Node("close", r, body.to - 1)>>,
               body.errors, body.notes, body.top)

\* A leaf has no body, and a note in a note fails at once.
RefBodiless(r, c) == Shape[r] = "leaf" \/ (Shape[r] = "note" /\ c.zone = "note")

\* Attempting rule r at pos, from a parser inside consume.
RefAttemptOf(body, r, pos, c) ==
    IF ~RefBodiless(r, c) THEN RefClosed(body, r, pos, c)
    ELSE IF Shape[r] = "leaf"
      THEN RefOk(pos + 1, <<Node("leaf", r, pos)>>, {}, << >>, c.depth)
    ELSE RefErr("failed", c.depth)

-----------------------------------------------------------------------------
(* consume *)

\* What the rules of the token at pos would make of it, each in its turn.
RefTries(rest, text, pos, c) ==
    {[turn |-> i,
      of |-> RefAttemptOf(rest[pos + 1][RefInside(Rules(RefToken(text, pos))[i], c)],
                          Rules(RefToken(text, pos))[i], pos, c)]
       : i \in DOMAIN Rules(RefToken(text, pos))}

RefEarliest(tries) == CHOOSE t \in tries : \A u \in tries : t.turn <= u.turn
RefLatest(tries)   == CHOOSE t \in tries : \A u \in tries : t.turn >= u.turn

RefTopOf(tries, depth) ==
    CHOOSE top \in {depth} \cup {t.of.top : t \in tries} :
        \A t \in tries : top >= t.of.top /\ top >= depth

\* The first rule that succeeds is taken; if none does, the token is text, unless the
\* last one met the limit.
RefTaken(tries, text, pos, c) ==
    LET won == {t \in tries : RefWon(t.of)}
        top == RefTopOf(tries, c.depth)
    IN  IF won # {}
          THEN [RefEarliest(won).of EXCEPT
                   !.top = RefTopOf({t \in tries : t.turn <= RefEarliest(won).turn}, c.depth)]
        ELSE IF RefToken(text, pos) = "end"
          THEN RefErr("end", top)
        ELSE IF tries # {} /\ RefLatest(tries).of.error = "depth"
          THEN RefErr("depth", top)
        ELSE RefOk(pos + 1, <<Node("text", Page, pos)>>, {t.of.error : t \in tries},
                   << >>, top)

\* The body goes on after `one', what consume made of its next token.
RefThen(one, rest, c) ==
    IF RefWon(one) THEN RefFollow(one, rest[one.to][c])
              ELSE RefErr(one.error, Larger(c.depth, one.top))

-----------------------------------------------------------------------------
(* A body *)

RefBlock(r) == Shape[r] \in {"block", "group", "item"}

\* The body ends here, is cut off here, steps over a break, runs into the end.
RefCloses(c, tok) == c.rule # Page /\ tok = Closer[c.rule]
RefCut(c, tok) ==
    \/ RefBlock(c.rule) /\ c.zone = "note" /\ tok \in NoteEnds
    \/ Shape[c.rule] = "span" /\ tok \in Breaks
RefSteps(c, tok) == tok \in Breaks /\ (c.rule = Page \/ c.rule \in Gathered)
RefRunsOut(c, tok) ==
    tok = "end" /\ (c.rule \in Gathered \/ c.rule \notin BlockRule)

\* The body of c.rule from pos on, of which `rest' is what follows.
RefBodyOf(rest, text, pos, c) ==
    LET tok == RefToken(text, pos)
    IN  IF RefCloses(c, tok) THEN RefOk(pos + 1, << >>, {}, << >>, c.depth)
        ELSE IF RefCut(c, tok) THEN RefErr("failed", c.depth)
        ELSE IF RefSteps(c, tok) THEN rest[pos + 1][c]
        ELSE IF RefRunsOut(c, tok)
          THEN IF c.rule = Page THEN RefOk(pos, << >>, {}, << >>, c.depth)
                                ELSE RefErr("end", c.depth)
        ELSE IF c.depth >= c.limit THEN RefErr("depth", c.limit + 1)
        ELSE LET inside == [c EXCEPT !.depth = @ + 1]
             IN  RefThen(RefTaken(RefTries(rest, text, pos, inside), text, pos, inside),
                         rest, c)

\* Bodies by position and context, each from those of later positions.
RefBodies(text) ==
    LET from[pos \in 1..(Len(text) + 1)] ==
          LET rest == [at \in (pos + 1)..(Len(text) + 1) |-> from[at]]
          IN  [c \in RefContexts |-> RefBodyOf(rest, text, pos, c)]
    IN  from

RefBody(text, pos, c) == RefBodies(text)[pos][c]
RefAttempt(text, r, pos, c) ==
    RefAttemptOf(RefBody(text, pos + 1, RefInside(r, c)), r, pos, c)

\* The page at a recursion limit.
RefPage(text, limit) ==
    RefBody(text, 1, [rule |-> Page, depth |-> 0, accepts |-> "none", zone |-> "page",
                      limit |-> limit])

=============================================================================
