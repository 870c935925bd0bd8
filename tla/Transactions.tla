---------------------------- MODULE Transactions ----------------------------
(***************************************************************************)
(* What the parser's shared registries promise to a rule attempt: nested   *)
(* transactions.  An attempt may only add to a registry, and when it ends  *)
(* every registry it gives back is exactly what it was at the start.       *)
(* The parser keeps lengths, not copies (Registries.tla); this module      *)
(* keeps the copies.                                                       *)
(***************************************************************************)
EXTENDS Naturals, Sequences, SequencesExt

CONSTANTS Reg,  \* the registries
          Entry \* what they hold

VARIABLES data, \* the registries' contents
          saved \* the copy each open attempt took, outermost first

vars == <<data, saved>>

Contents == [Reg -> Seq(Entry)]

Init == data = [r \in Reg |-> << >>] /\ saved = << >>

Begin == saved' = Append(saved, data) /\ UNCHANGED data

Add ==
    /\ data' \in Contents
    /\ \A r \in Reg : IsPrefix(data[r], data'[r])
    /\ UNCHANGED saved

\* The innermost attempt ends and gives back the registries in R.
End(R) ==
    /\ saved # << >>
    /\ data' = [r \in Reg |-> IF r \in R THEN Last(saved)[r] ELSE data[r]]
    /\ saved' = Front(saved)

Next == Begin \/ Add \/ \E R \in SUBSET Reg : End(R)

Spec == Init /\ [][Next]_vars

=============================================================================
