---------------------------- MODULE InlineStack ----------------------------
(***************************************************************************)
(* How crossed inline elements nest, by the rules of                       *)
(* docs/WikidotInlineNesting.md for the open elements and the inline       *)
(* stack, which it calls E and I.  At the end of a paragraph the lowering  *)
(* of inline scopes does not keep to them; what it does is a step beside.  *)
(*                                                                         *)
(* Closing an element is several steps, one for each element that closes   *)
(* on the way, and one for the elements that reopen.                       *)
(***************************************************************************)
EXTENDS Naturals, Sequences, SequencesExt, Picking

CONSTANT Tags \* names of elements

VARIABLES open,   \* E: the open elements, innermost last
          stack,  \* I: the inline stack
          close,  \* the tag being closed, or "none"
          slot,   \* the remembered slot, 0 if there is none
          mode    \* "read", "close", "reopen"

vars == <<open, stack, close, slot, mode>>

\* A tag name appears at most once on the inline stack.
Stacked(t) == IF Contains(stack, t) THEN stack ELSE Append(stack, t)
Popped(s)  == IF s = << >> THEN s ELSE Front(s)

Init == open = << >> /\ stack = << >> /\ close = "none" /\ slot = 0 /\ mode = "read"

Open(t) ==
    /\ mode = "read"
    /\ open' = Append(open, t)
    /\ stack' = Stacked(t)
    /\ UNCHANGED <<close, slot, mode>>

\* An element that is opened and closed at once pops what is on top.
Whole(t) ==
    /\ mode = "read"
    /\ stack' = Popped(Stacked(t))
    /\ UNCHANGED <<open, close, slot, mode>>

\* A paragraph ends or a block starts: all of E closes, I is left alone, and the content
\* after it reopens what I holds.
Boundary ==
    /\ mode = "read"
    /\ open' = stack
    /\ UNCHANGED <<stack, close, slot, mode>>

\* What the lowering does there instead: the outermost element of each name that the
\* stack holds stays open, and what the stack holds besides does not reopen.
Stays(i) ==
    /\ Contains(stack, open[i])
    /\ \A j \in 1..(i - 1) : open[j] # open[i]

OutermostStay ==
    /\ mode = "read"
    /\ open' = Picked(open, {i \in DOMAIN open : Stays(i)})
    /\ UNCHANGED <<stack, close, slot, mode>>

Close(t) ==
    /\ mode = "read"
    /\ open # << >>
    /\ close' = t
    /\ mode' = "close"
    /\ UNCHANGED <<open, stack, slot>>

\* The two entries are on the stack, the innermost element's above.
Crosses(t) ==
    \E i, j \in DOMAIN stack :
        i < j /\ stack[i] = t /\ stack[j] = Last(open)

Closed ==
    /\ close' = "none"
    /\ mode' = IF slot = 0 THEN "read" ELSE "reopen"

\* Rules 1 and 3: the top of the stack goes with the innermost element.
CloseLast ==
    /\ mode = "close" /\ open # << >>
    /\ Last(open) = close \/ ~Crosses(close)
    /\ open' = Front(open)
    /\ stack' = Popped(stack)
    /\ UNCHANGED slot
    /\ Closed

\* Rule 2: the entries change places, and the next element is looked at.
CloseCrossed ==
    /\ mode = "close" /\ open # << >>
    /\ Last(open) # close
    /\ \E i, j \in DOMAIN stack :
          /\ i < j /\ stack[i] = close /\ stack[j] = Last(open)
          /\ stack' = [stack EXCEPT ![i] = stack[j], ![j] = stack[i]]
          /\ slot' = i
    /\ open' = Front(open)
    /\ UNCHANGED <<close, mode>>

NoneLeft ==
    /\ mode = "close" /\ open = << >>
    /\ close' = "none"
    /\ mode' = "reopen"
    /\ UNCHANGED <<open, stack, slot>>

\* Every entry from the slot upward reopens.
Reopen ==
    /\ mode = "reopen"
    /\ open' = open \o SubSeq(stack, slot, Len(stack))
    /\ slot' = 0
    /\ mode' = "read"
    /\ UNCHANGED <<stack, close>>

MarkerStep ==
    \/ \E t \in Tags : Open(t) \/ Whole(t) \/ Close(t)
    \/ CloseLast \/ CloseCrossed \/ NoneLeft \/ Reopen

\* The rules of the document, and these rules with boundaries as they are lowered.
Next == MarkerStep \/ Boundary
Spec == Init /\ [][Next]_vars

LoweredNext == MarkerStep \/ OutermostStay
LoweredSpec == Init /\ [][LoweredNext]_vars

=============================================================================
