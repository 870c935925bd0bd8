---------------------------- MODULE MCRuleEngine ----------------------------
(***************************************************************************)
(* RuleEngine on small grammars, against the engine without memos.         *)
(***************************************************************************)
EXTENDS RuleMemos, MCGrammar

\* Pages of blocks that take partial elements, alone and around other blocks, of inline
\* formats that cross and are cut off by breaks, and of footnotes; and how long.
Kinds == {<<{"dash", "ruby", "rt", "/ruby", "/rt"}, MaxTokens - 1>>,
          <<{"ruby", "rt", "quote", "/quote", "/rt"}, MaxTokens - 1>>,
          <<{"bold", "dash", "para", "quote", "/quote"}, MaxTokens>>,
          <<{"dash", "note", "rt", "/note", "/rt"}, MaxTokens - 1>>}

MCInit == input \in UNION {BoundedSeq(k[1], k[2]) : k \in Kinds} /\ Init
MCSpec == MCInit /\ [][Next]_vars /\ WF_vars(Next)

=============================================================================
