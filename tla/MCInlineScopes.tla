--------------------------- MODULE MCInlineScopes ---------------------------
(***************************************************************************)
(* InlineScopes on the sequences that a few markers make.                  *)
(***************************************************************************)
EXTENDS InlineScopes

CONSTANT MaxMarkers \* bound on the length of the sequences

MCTagOf == [c \in Classes |-> CASE c = "bold" -> "strong"
                                [] c = "italics" -> "em"
                                [] c = "anchor" -> "a"
                                [] OTHER -> "span"]

Ev(op, c) == [op |-> op, class |-> c]

\* Sequences as they grow: how many openers wait, whether a block frame is open,
\* and what came last.
Nothing == [s |-> << >>, waiting |-> [c \in Classes |-> 0], depth |-> 0, last |-> "par"]

Extended(g, e) ==
    [s |-> Append(g.s, e),
     waiting |-> IF e.op = "open" THEN [g.waiting EXCEPT ![e.class] = @ + 1]
                 ELSE IF e.op = "close" THEN [g.waiting EXCEPT ![e.class] = @ - 1]
                 ELSE g.waiting,
     depth |-> IF e.op = "div" THEN 1 ELSE IF e.op = "end" THEN 0 ELSE g.depth,
     last |-> e.op]

NoDelimiterWaits(g) == \A c \in Classes \ Queued : g.waiting[c] = 0

\* Delimiters are paired one by one and within a paragraph; a paragraph is not
\* empty; what follows a block frame is a paragraph, and so is what it begins with.
Follows(g, e) ==
    CASE e.op = "open" ->
            /\ g.last \notin {"div", "end"}
            /\ e.class \notin Queued => g.waiting[e.class] = 0
      [] e.op = "close" -> g.last \notin {"div", "end"} /\ g.waiting[e.class] > 0
      [] e.op \in {"synth", "whole"} -> g.last \notin {"div", "end"}
      [] e.op = "par"   -> NoDelimiterWaits(g) /\ g.depth = 0 /\ g.last # "par"
      [] e.op = "inner" -> NoDelimiterWaits(g) /\ g.depth = 1 /\ g.last # "inner"
      [] e.op = "div"   -> NoDelimiterWaits(g) /\ g.depth = 0
      [] e.op = "end"   -> NoDelimiterWaits(g) /\ g.depth = 1 /\ g.last \notin {"div", "inner"}

Grown(events, n) ==
    LET none == Ev("none", "none")
        grown[k \in 0..n] ==
            IF k = 0 THEN {Nothing}
            ELSE {IF ge[2] = none THEN ge[1] ELSE Extended(ge[1], ge[2]) :
                    ge \in {ge \in grown[k - 1] \X (events \cup {none}) :
                              ge[2] = none \/ Follows(ge[1], ge[2])}}
    IN  {g.s : g \in {g \in grown[n] : g.s # << >> /\ g.depth = 0 /\ NoDelimiterWaits(g)}}

Pair(c) == {Ev("open", c), Ev("close", c)}
Par     == Ev("par", "none")
FrameEvents   == {Ev("div", "none"), Ev("inner", "none"), Ev("end", "none")}

\* A span around a block frame with spans and bold text inside, and crosses bold
\* text behind it.
FrameStreams ==
    {<<Ev("open", "span"), Ev("div", "none"), Ev("inner", "none")>> \o s
         \o <<Ev("end", "none"), Par, Ev("open", "bold"), Ev("close", "span"),
              Ev("close", "bold"), Ev("close", "span")>> :
        s \in Grown(Pair("span") \cup Pair("bold"), 5)}

\* Whatever spans and bold text there is in and around block frames.
InnerStreams == Grown(Pair("span") \cup Pair("bold") \cup FrameEvents \cup {Par}, MaxMarkers)

\* Crossings of three elements; complete elements and closers from tables;
\* block frames; anchors inside one paragraph.
MCStreams ==
    UNION {Grown(Pair("span") \cup Pair("bold") \cup Pair("italics") \cup {Par}, MaxMarkers),
           Grown(Pair("span") \cup Pair("bold")
                     \cup {Ev("whole", "color"), Ev("synth", "span"), Par}, MaxMarkers - 2),
           InnerStreams,
           Grown(Pair("span") \cup Pair("size") \cup Pair("bold") \cup Pair("anchor"),
                 MaxMarkers - 2),
           FrameStreams}

\* Two spans around and inside crossed formats; a paragraph ends behind the formats.
BoundaryStreams ==
    {<<Ev("open", "italics"), Ev("open", "span"), Ev("open", "bold"), Ev("open", "span")>> \o s :
        s \in {s \in [1..5 -> {Ev("close", "italics"), Ev("close", "bold"),
                               Ev("close", "span"), Par}] :
                 /\ Cardinality({i \in 1..5 : s[i] = Ev("close", "span")}) = 2
                 /\ \E i, j, k \in 1..5 :
                       /\ i < k /\ j < k /\ s[k] = Par
                       /\ s[i] = Ev("close", "italics") /\ s[j] = Ev("close", "bold")}}

-----------------------------------------------------------------------------

\* A closer that has its opener never becomes text: both passes number it alike.
ClosersConsumed ==
    \A i \in literal :
        Cardinality({j \in 1..i : stream[j].op \in {"open", "close", "synth"}}) \notin valid

=============================================================================
