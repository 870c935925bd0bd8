----------------------------- MODULE RuleGrammar -----------------------------
(***************************************************************************)
(* Rules and pages as the rule engine sees them.                           *)
(*                                                                         *)
(* The hundred rules of the parser are reduced to six shapes and a grammar *)
(* given by constants, as Layout::Wikijump has them in a visible body:     *)
(*                                                                         *)
(*   leaf   takes one token                                                *)
(*   span   inline format: collects up to its closer, not across a break   *)
(*   block  block with a body ([[blockquote]])                             *)
(*   group  block whose body takes partial elements ([[ruby]])             *)
(*   item   block whose element is partial: legal in a group ([[rt]])      *)
(*   note   block that registers its body as a footnote; does not nest     *)
(***************************************************************************)
EXTENDS Integers, Sequences

CONSTANTS Token,    \* tokens other than the end of input
          Rule,     \* rules, and the page
          Page,     \* RULE_PAGE
          RulesOf,  \* get_rules_for_token
          Shape,    \* the shape of each rule
          Gathered, \* blocks whose body gather_paragraphs gathers
          Closer,   \* the token that ends a rule's body
          Breaks    \* ParagraphBreak

VARIABLE input \* the tokens of the page

Tok(i)   == IF i <= Len(input) THEN input[i] ELSE "end"
Rules(t) == IF t = "end" THEN << >> ELSE RulesOf[t]

BlockRule == {r \in Rule : Shape[r] \in {"block", "group", "item", "note"}}
NoteEnds  == {Closer[r] : r \in {q \in Rule : Shape[q] = "note"}}

\* An element, or its opener or closer, and the token it came from.
Node(part, r, at) == [part |-> part, rule |-> r, at |-> at]

\* The notes among the nodes are those registered from first to last, in order.
Refers(nodes, notes, first, last) ==
    \E g \in [first..last -> DOMAIN nodes] :
        /\ \A i \in first..last : nodes[g[i]].part = "note" /\ nodes[g[i]].at = notes[i].at
        /\ \A i, j \in first..last : i < j => g[i] < g[j]
        /\ \A k \in DOMAIN nodes :
              nodes[k].part = "note" => \E i \in first..last : g[i] = k

Larger(a, b) == IF a >= b THEN a ELSE b

=============================================================================
