---------------------------- MODULE MCBracketRuns ----------------------------
(***************************************************************************)
(* BracketRuns on the texts that a few pieces make.                        *)
(***************************************************************************)
EXTENDS BracketRuns

CONSTANTS Pieces,   \* what the texts are made of
          MaxPieces \* bound on the pieces of a text

Quad     == <<"[", "[[[">>
Triple   == <<"[[[">>
Bang     == <<"!", "--">>
If       == <<"iftags", " ", "word", "]]">>
EndIf    == <<"[[/", "iftags", "]]">>
Seg      == If \o EndIf
OpenSeg  == <<"[[">> \o Seg
Comment  == <<"[!--", "word", "--", "]">>
EndsCom  == <<"--", "]">>
Name     == <<"name">>
Space    == <<" ">>
Close    == <<"]]">>

\* A run of brackets is not two runs next to each other, but after a multiple of
\* four.
Opens(p)   == Head(p) \in {"[", "[[", "[[[", "[!--", "[[/"}
Closes(p)  == Head(p) \in {"]", "]]"}
Apart(p, q) ==
    /\ Opens(q) => p # Triple
    /\ Closes(q) => Last(p) \notin {"]", "]]", "--"}
    /\ q = EndsCom => Last(p) # "--"
    /\ q = Space => p # Space
    /\ Head(q) \in Words => Last(p) \notin Words

\* Kinds of tokens as a page.
PageOf(kinds) ==
    LET start[i \in 1..(Len(kinds) + 1)] ==
            IF i = 1 THEN 0 ELSE start[i - 1] + Width(kinds[i - 1])
    IN  [source |-> FlattenSeq([i \in DOMAIN kinds |-> Chars(kinds[i])]),
         tokens |-> [i \in DOMAIN kinds |-> Tok(kinds[i], start[i])]]

MCPages ==
    {PageOf(FlattenSeq(ps)) :
        ps \in {qs \in UNION {[1..n -> Pieces] : n \in 1..MaxPieces} :
                  /\ \E i \in DOMAIN qs : qs[i] \in {Quad, Triple}
                  /\ \A i \in 1..(Len(qs) - 1) : Apart(qs[i], qs[i + 1])}}

\* Runs, comments, segments whole and in parts, names, and what ends them.
MCPieces ==
    {Quad, Triple, Bang, If, EndIf, Seg, OpenSeg, Comment, EndsCom, Name, Space, Close}

\* Segments only.
SegPieces == {Quad, If, EndIf, Name, Space, Close}

=============================================================================
