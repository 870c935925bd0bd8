---------------------------- MODULE MCParseDriver ----------------------------
(***************************************************************************)
(* ParseDriver on the small grammar.                                       *)
(***************************************************************************)
EXTENDS ParseDriver, MCGrammar

=============================================================================
