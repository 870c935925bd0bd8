------------------------------ MODULE MCGrammar ------------------------------
(***************************************************************************)
(* A small grammar: two inline formats that cross, a dash that falls back  *)
(* to a leaf (DoubleDash: strikethrough, then a plain dash), and four      *)
(* blocks; outside a paragraph gatherer a paragraph break is consumed as a *)
(* line break.                                                             *)
(***************************************************************************)
EXTENDS RuleGrammar

MCRulesOf ==
    [t \in Token |->
        CASE t = "bold" -> <<"bold">>
          [] t = "dash" -> <<"strike", "leaf">>
          [] t = "para" -> <<"leaf">>
          [] t \in {"quote", "ruby", "rt", "note"} -> <<t>>
          [] OTHER      -> << >>]

MCRule == {"page", "bold", "strike", "leaf", "quote", "ruby", "rt", "note"}

MCShape ==
    [r \in MCRule |->
        CASE r \in {"bold", "strike"} -> "span"
          [] r = "quote" -> "block"
          [] r = "ruby"  -> "group"
          [] r = "rt"    -> "item"
          [] r \in {"page", "leaf", "note"} -> r]

MCCloser ==
    [r \in MCRule |->
        CASE r = "bold"   -> "bold"
          [] r = "strike" -> "dash"
          [] r = "quote"  -> "/quote"
          [] r = "ruby"   -> "/ruby"
          [] r = "rt"     -> "/rt"
          [] r = "note"   -> "/note"
          [] OTHER        -> "dash"]

MCGathered == {"quote", "note"}

=============================================================================
