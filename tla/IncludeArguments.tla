--------------------------- MODULE IncludeArguments --------------------------
(***************************************************************************)
(* The arguments of an include, [[include page | key = value | ...]]:     *)
(* keys and values may refer to other arguments, {$name}, and references   *)
(* are replaced in rounds until nothing changes, a number of rounds has    *)
(* passed or the result would grow too large (includes/parse.rs,           *)
(* resolve_include_arguments).                                             *)
(*                                                                         *)
(* Keys and values are sequences of atoms, an atom a character or a        *)
(* reference; a name is a sequence of characters.                          *)
(***************************************************************************)
EXTENDS Integers, Sequences, FiniteSets, SequencesExt, FiniteSetsExt

CONSTANTS References,    \* atoms that refer to an argument
          ReferenceName, \* the name each of them refers to
          Spaces,        \* atoms that are trimmed
          Allowance      \* INCLUDE_ARGUMENT_EXPANSION_ALLOWANCE

ASSUME IncludeArgumentsAssumption ==
    /\ DOMAIN ReferenceName = References
    /\ References \cap Spaces = {}
    /\ Allowance \in Nat

VARIABLES raw,       \* the arguments as written: [key, value]
          arguments, \* what they are so far: name to value
          round,
          resolving  \* "on", "settled", "rounds", "size"

argumentVars == <<raw, arguments, round, resolving>>

\* A value is evaluated once: {F(x) : x \in {e}}.
TheOne(S) == CHOOSE x \in S : TRUE

\* Bytes: {$name} has three besides its name.
AtomSize(a) == IF a \in References THEN 3 + Len(ReferenceName[a]) ELSE 1
SizeOf(s) == FoldLeft(LAMBDA n, a : n + AtomSize(a), 0, s)
MapSize(map) == MapThenSumSet(LAMBDA k : SizeOf(k) + SizeOf(map[k]), DOMAIN map)

RoundLimit == LET n == 2 * Len(raw) IN IF n < 1 THEN 1 ELSE IF n > 128 THEN 128 ELSE n
ExpansionLimit ==
    FoldLeft(LAMBDA n, a : n + SizeOf(a.key) + SizeOf(a.value), Allowance, raw)

IsStatic(s) == s # << >> /\ \A i \in DOMAIN s : s[i] \notin References \cup Spaces
RefersTo(s, name) == \E i \in DOMAIN s : s[i] \in References /\ ReferenceName[s[i]] = name
HasReference(s) == \E i \in DOMAIN s : s[i] \in References

TrimEnd(s) ==
    LET kept == {i \in DOMAIN s : s[i] \notin Spaces}
    IN  IF kept = {} THEN << >> ELSE SubSeq(s, 1, Max(kept))

NoName == << >>

\* expand_argument_expression_once, without the limit.
ExpandedOnce(s, map, blocked) ==
    LET Atom(a) == IF a \notin References \/ ReferenceName[a] = blocked
                      \/ ReferenceName[a] \notin DOMAIN map
                     THEN <<a>> ELSE TrimEnd(map[ReferenceName[a]])
    IN  FlattenSeq([i \in DOMAIN s |-> Atom(s[i])])

\* expand_argument_expression: an expansion over the limit is not taken.
Expanded(s, map, blocked) ==
    LET Within(old, new) == IF SizeOf(new) > ExpansionLimit THEN old ELSE new
        Again(old, k) == TheOne({Within(t, ExpandedOnce(t, map, blocked)) : t \in {old}})
    IN  FoldLeft(Again, s, [k \in 1..RoundLimit |-> k])

\* The first argument of a name is kept.
Taken(next, key, value) ==
    IF key \in DOMAIN next.map THEN next
    ELSE [map |-> [k \in DOMAIN next.map \cup {key} |->
                      IF k = key THEN value ELSE next.map[k]],
          size |-> next.size + SizeOf(key) + SizeOf(value)]

\* One argument in a round: a value that is nothing but a reference to its own key is
\* left out, and a reference to its own key is kept where replacing it would bring it
\* back.
WithArgument(next, a, map) ==
    LET ForKey(key) ==
            LET own == /\ RefersTo(a.value, key) /\ key \in DOMAIN map
                       /\ RefersTo(map[key], key)
                value == Expanded(a.value, map, IF own THEN key ELSE NoName)
                bare == TrimEnd(value)
            IN  IF ~IsStatic(key) \/ (Len(bare) = 1 /\ RefersTo(bare, key)) THEN next
                ELSE Taken(next, key, value)
    IN  IF a.value = << >> THEN next
        ELSE TheOne({ForKey(key) : key \in {Expanded(a.key, map, NoName)}})

\* Mutated form: the size of a round's result is not limited.
FitsAny(next) == TRUE

Fits(next) == next.size <= ExpansionLimit

Empty == [map |-> << >>, size |-> 0]
Round(map) ==
    FoldLeft(LAMBDA next, a : TheOne({WithArgument(n, a, map) : n \in {next}}), Empty, raw)

ArgumentsInit ==
    /\ \A i \in DOMAIN raw : raw[i].key # << >>
    /\ arguments = FoldLeft(
          LAMBDA next, a :
              IF a.value = << >> \/ ~IsStatic(a.key) \/ HasReference(a.value) THEN next
              ELSE TheOne({Taken(n, a.key, a.value) : n \in {next}}),
          Empty, raw).map
    /\ round = 0
    /\ resolving = "on"

Settle ==
    /\ resolving = "on" /\ round < RoundLimit
    /\ Round(arguments) = [map |-> arguments, size |-> MapSize(arguments)]
    /\ resolving' = "settled"
    /\ UNCHANGED <<raw, arguments, round>>

TooLarge ==
    /\ resolving = "on" /\ round < RoundLimit
    /\ ~Fits(Round(arguments))
    /\ resolving' = "size"
    /\ UNCHANGED <<raw, arguments, round>>

Replace ==
    /\ resolving = "on" /\ round < RoundLimit
    /\ \E next \in {Round(arguments)} :
          /\ Fits(next) /\ next.map # arguments
          /\ arguments' = next.map
    /\ round' = round + 1
    /\ UNCHANGED <<raw, resolving>>

OutOfRounds ==
    /\ resolving = "on" /\ round = RoundLimit
    /\ resolving' = "rounds"
    /\ UNCHANGED <<raw, arguments, round>>

ArgumentsNext == Settle \/ TooLarge \/ Replace \/ OutOfRounds

-----------------------------------------------------------------------------

\* Names as written: no key is computed and no reference leads back to its argument.
Refers(k, n) == \E i \in DOMAIN raw : raw[i].key = k /\ RefersTo(raw[i].value, n)
Plain ==
    LET keys == {raw[i].key : i \in DOMAIN raw}
        Step(names) == names \cup {n \in keys : \E m \in names : Refers(m, n)}
        Reached(k) == FoldLeft(LAMBDA s, i : TheOne({Step(t) : t \in {s}}),
                               {n \in keys : Refers(k, n)}, raw)
    IN  \A k \in keys : IsStatic(k) /\ k \notin Reached(k)

\* The map never grows past the limit.  Plain arguments settle within the rounds or do
\* not fit, and then no reference to one of them is left unless its value does not fit.
\* Of several arguments of one name the first that is not empty counts.
ArgumentsResolved ==
    /\ MapSize(arguments) <= ExpansionLimit
    /\ Plain => resolving # "rounds"
    /\ Plain /\ resolving = "settled" =>
          \A k, n \in DOMAIN arguments :
              RefersTo(arguments[k], n) =>
                  SizeOf(ExpandedOnce(arguments[k], arguments, NoName)) > ExpansionLimit
    /\ \A i \in DOMAIN raw :
          /\ IsStatic(raw[i].key) /\ raw[i].value # << >> /\ ~HasReference(raw[i].value)
          /\ \A j \in 1..(i - 1) :
                IsStatic(raw[j].key) /\ (raw[j].key # raw[i].key \/ raw[j].value = << >>)
          => raw[i].key \in DOMAIN arguments /\ arguments[raw[i].key] = raw[i].value

=============================================================================
