----------------------------- MODULE Expressions -----------------------------
(***************************************************************************)
(* The expressions of [[#expr]] and [[#ifexpr]]                            *)
(* (preproc/parser_functions/expression.rs): a recursive descent that      *)
(* evaluates as it reads, counts operators and open parentheses, and turns *)
(* an error in an operand into one that the page shows.  Beside it, what   *)
(* an expression means, by where it is cut into operands.                  *)
(*                                                                         *)
(* An expression is a sequence of tokens with blanks between them.  A      *)
(* number is a fraction; what is not one (an infinite or irrational power) *)
(* is "wild", and so is what is made of it: it is not followed further.    *)
(* The rounding of f64, the texts of errors and the limit on the bytes of  *)
(* an expression are left out.                                             *)
(***************************************************************************)
EXTENDS Integers, Sequences, FiniteSets, SequencesExt, FiniteSetsExt

CONSTANTS MaxOperations,  \* MAX_OPERATIONS
          MaxParentheses  \* MAX_PARENTHESES

ASSUME ExpressionsAssumption == MaxOperations \in Nat /\ MaxParentheses \in Nat

\* The operators, loosest first, and the levels whose right operand is of the same
\* level again.
Binary == <<{"||"}, {"&&"}, {">=", "<=", "==", "!=", ">", "<"}, {"+", "-"},
            {"*", "/", "%"}, {"^"}>>
Same == {3, 6}
Right(k) == IF k \in Same THEN k ELSE k + 1
Unary == {"+", "-", "!"}
FunctionNames == {"abs", "min", "max"}
ConstantNames == {"true", "false", "null"}
OtherNames == {"x"}
Digits == {"0", "1", "2"}

Named == FunctionNames \cup ConstantNames \cup OtherNames
Operators == UNION Range(Binary) \cup Unary

-----------------------------------------------------------------------------
(* Values. *)

Abs_(i) == IF i < 0 THEN -i ELSE i
Trunc(n, d) == IF n < 0 THEN -(Abs_(n) \div d) ELSE n \div d
Common(a, b) == Max({k \in 1..b : a % k = 0 /\ b % k = 0})

Wild == [type |-> "wild", n |-> 0, d |-> 1]
Null == [type |-> "null", n |-> 0, d |-> 1]
Boolean(b) == [type |-> "boolean", n |-> IF b THEN 1 ELSE 0, d |-> 1]
Number(n, d) ==
    LET k == Common(Abs_(n), Abs_(d))
        sign == IF d < 0 THEN -1 ELSE 1
    IN  [type |-> "number", n |-> sign * Trunc(n, k), d |-> Abs_(d) \div k]
Truthy(v) == v.n # 0

Power(a, b) ==
    CASE b.d = 1 /\ b.n >= 0 -> Number(a.n ^ b.n, a.d ^ b.n)
      [] b.d = 1 /\ b.n < 0 /\ a.n # 0 -> Number(a.d ^ (-b.n), a.n ^ (-b.n))
      [] OTHER -> Wild

Whole(v) == Trunc(v.n, v.d)
DividesByZero(op, b) == (op = "/" /\ b.n = 0) \/ (op = "%" /\ Whole(b) = 0)

\* What a binary operator makes of its operands where it does not divide by zero.
Applied(op, a, b) ==
    CASE Wild \in {a, b} -> Wild
      [] op = "||" -> Boolean(Truthy(a) \/ Truthy(b))
      [] op = "&&" -> Boolean(Truthy(a) /\ Truthy(b))
      [] op = ">=" -> Boolean(a.n * b.d >= b.n * a.d)
      [] op = "<=" -> Boolean(a.n * b.d <= b.n * a.d)
      [] op = ">" -> Boolean(a.n * b.d > b.n * a.d)
      [] op = "<" -> Boolean(a.n * b.d < b.n * a.d)
      [] op = "==" -> Boolean(a.n * b.d = b.n * a.d)
      [] op = "!=" -> Boolean(a.n * b.d # b.n * a.d)
      [] op = "+" -> Number(a.n * b.d + b.n * a.d, a.d * b.d)
      [] op = "-" -> Number(a.n * b.d - b.n * a.d, a.d * b.d)
      [] op = "*" -> Number(a.n * b.n, a.d * b.d)
      [] op = "/" -> Number(a.n * b.d, a.d * b.n)
      [] op = "%" -> Number((IF a.n < 0 THEN -1 ELSE 1)
                              * (Abs_(Whole(a)) % Abs_(Whole(b))), 1)
      [] op = "^" -> Power(a, b)

Signed(op, v) ==
    CASE v = Wild -> Wild
      [] op = "+" -> Number(v.n, v.d)
      [] op = "-" -> Number(-v.n, v.d)
      [] op = "!" -> Number(IF Truthy(v) THEN 0 ELSE 1, 1)

LeastOf(vs) == FoldLeft(LAMBDA a, v : IF a.n * v.d <= v.n * a.d THEN a ELSE v,
                        vs[1], Tail(vs))
GreatestOf(vs) == FoldLeft(LAMBDA a, v : IF a.n * v.d >= v.n * a.d THEN a ELSE v,
                           vs[1], Tail(vs))
RightlyMany(name, count) == IF name = "abs" THEN count = 1 ELSE count >= 2
Called_(name, vs) ==
    LET numbers == [i \in DOMAIN vs |-> Signed("+", vs[i])]
    IN  CASE Wild \in Range(vs) -> Wild
          [] name = "abs" -> Number(Abs_(numbers[1].n), numbers[1].d)
          [] name = "min" -> LeastOf(numbers)
          [] name = "max" -> GreatestOf(numbers)

ConstantOf(t) == IF t = "null" THEN Null ELSE Boolean(t = "true")
DigitOf(t) == Number(CASE t = "0" -> 0 [] t = "1" -> 1 [] t = "2" -> 2, 1)

-----------------------------------------------------------------------------
(* The evaluator.  Its state is ExpressionParser with what its functions return: an     *)
(* error is "invalid" (ExpressionError::Invalid) or "shown" (any other).                *)

Start(lenient) == [at |-> 1, operations |-> 0, parentheses |-> 0, lenient |-> lenient,
                   error |-> "none", value |-> Null]

Ahead(e, s) == IF s.at <= Len(e) THEN e[s.at] ELSE "end"
Next_(s) == [s EXCEPT !.at = @ + 1]
Failed_(s, error) == [s EXCEPT !.error = error]
Fine(s) == s.error = "none"

\* Mutated form: an expression may have one operator more.
OperationLate(s) ==
    [s EXCEPT !.operations = @ + 1,
              !.error = IF s.operations > MaxOperations THEN "invalid" ELSE @]

Operation(s) ==
    [s EXCEPT !.operations = @ + 1,
              !.error = IF s.operations + 1 > MaxOperations THEN "invalid" ELSE @]

Opened(s) ==
    [s EXCEPT !.at = @ + 1, !.parentheses = @ + 1,
              !.error = IF s.parentheses + 1 > MaxParentheses THEN "invalid" ELSE @]

\* operator_rhs, and the same in parse_comparison.
AsOperand(k, s) == IF k >= 3 /\ s.error = "invalid" THEN Failed_(s, "shown") ELSE s

Combined(op, left, s) ==
    IF ~DividesByZero(op, s.value) \/ Wild = s.value
      THEN [s EXCEPT !.value = Applied(op, left, @)]
      ELSE IF s.lenient THEN [s EXCEPT !.value = Number(0, 1)] ELSE Failed_(s, "shown")

ClosedParen(e, s) ==
    IF Ahead(e, s) = ")" THEN [Next_(s) EXCEPT !.parentheses = @ - 1]
                         ELSE Failed_(s, "invalid")

Answered(s, name, values) ==
    IF name \in FunctionNames /\ RightlyMany(name, Len(values))
      THEN [s EXCEPT !.value = Called_(name, values)]
      ELSE Failed_(s, "shown")

RECURSIVE Level(_, _, _), Rest(_, _, _), Arguments(_, _, _, _)

The(S) == CHOOSE x \in S : TRUE

\* parse_or to parse_power, parse_unary and parse_primary: levels 1 to 8.
Level(e, s, k) ==
    CASE ~Fine(s) -> s
      [] Fine(s) /\ k <= 6 -> The({Rest(e, left, k) : left \in {Level(e, s, k + 1)}})
      [] Fine(s) /\ k = 7 /\ Ahead(e, s) \in Unary ->
            The({IF Fine(v) THEN [v EXCEPT !.value = Signed(Ahead(e, s), @)] ELSE v :
                   v \in {Level(e, Operation(Next_(s)), 7)}})
      [] Fine(s) /\ k = 7 /\ Ahead(e, s) \notin Unary -> Level(e, s, 8)
      [] Fine(s) /\ k = 8 /\ Ahead(e, s) = "(" ->
            The({IF Fine(v) THEN ClosedParen(e, v) ELSE v : v \in {Level(e, Opened(s), 1)}})
      [] Fine(s) /\ k = 8 /\ Ahead(e, s) \in ConstantNames ->
            [Next_(s) EXCEPT !.value = ConstantOf(Ahead(e, s))]
      [] Fine(s) /\ k = 8 /\ Ahead(e, s) \in FunctionNames \cup OtherNames ->
            IF Ahead(e, Next_(s)) = "("
              THEN The({Arguments(e, v, << >>, Ahead(e, s)) :
                          v \in {Level(e, Opened(Next_(s)), 1)}})
              ELSE Failed_(Next_(s), "shown")
      [] Fine(s) /\ k = 8 /\ Ahead(e, s) \in Digits ->
            [Next_(s) EXCEPT !.value = DigitOf(Ahead(e, s))]
      [] OTHER -> Failed_(s, "invalid")

\* The loop of a level, behind an operand.
Rest(e, s, k) ==
    IF ~Fine(s) \/ Ahead(e, s) \notin Binary[k] THEN s
    ELSE The({CASE ~Fine(v) -> v
                [] Fine(v) /\ k \in Same -> Combined(Ahead(e, s), s.value, v)
                [] Fine(v) /\ k \notin Same -> Rest(e, Combined(Ahead(e, s), s.value, v), k) :
                v \in {IF Fine(o) THEN AsOperand(k, Level(e, o, Right(k))) ELSE o :
                         o \in {Operation(Next_(s))}}})

\* parse_function behind an argument.
Arguments(e, s, values, name) ==
    CASE ~Fine(s) -> s
      [] Fine(s) /\ Ahead(e, s) = "," ->
            The({Arguments(e, v, Append(values, s.value), name) :
                   v \in {Level(e, Next_(s), 1)}})
      [] Fine(s) /\ Ahead(e, s) # "," ->
            The({IF Fine(v) THEN Answered(v, name, Append(values, s.value)) ELSE v :
                   v \in {IF Fine(c) THEN Operation(c) ELSE c : c \in {ClosedParen(e, s)}}})

\* evaluate: the value, or what becomes of the function: "literal" text as it was,
\* or a message "shown" in its place.  A "wild" value may be either.
Answer(what, value) == [what |-> what, value |-> value]

Evaluated(e, lenient) ==
    The({CASE s.error = "shown" \/ (s.error = "invalid" /\ s.at <= Len(e)) ->
                Answer("shown", Null)
           [] s.error = "invalid" /\ s.at > Len(e) -> Answer("literal", Null)
           [] Fine(s) /\ s.at <= Len(e) -> Answer("shown", Null)
           [] Fine(s) /\ s.at > Len(e) /\ s.value = Wild -> Answer("wild", Null)
           [] Fine(s) /\ s.at > Len(e) /\ s.value # Wild -> Answer("value", s.value) :
           s \in {Level(e, Start(lenient), 1)}})

-----------------------------------------------------------------------------
(* What an expression means.  Cut at the loosest operator between two operands, the     *)
(* last one or, where the right operand is of the same level, the first, it is that     *)
(* operator's of its parts.                                                             *)

Inside(e, i) == Cardinality({j \in 1..(i - 1) : e[j] = "("})
                  - Cardinality({j \in 1..(i - 1) : e[j] = ")"})
Infix(e, i) == i > 1 /\ e[i - 1] \in Digits \cup Named \cup {")"}
Cuts(e, k) == {i \in 1..Len(e) : e[i] \in Binary[k] /\ Inside(e, i) = 0 /\ Infix(e, i)}
Loosest(e) == LET ks == {k \in 1..6 : Cuts(e, k) # {}} IN IF ks = {} THEN 7 ELSE Min(ks)
Cut(e, k) == IF k \in Same THEN Min(Cuts(e, k)) ELSE Max(Cuts(e, k))

Commas(e) == {i \in 3..(Len(e) - 1) : e[i] = "," /\ Inside(e, i) = 1}
Enclosed(e, i) == /\ e[i] = "(" /\ Last(e) = ")" /\ Len(e) > i
                  /\ \A j \in (i + 1)..Len(e) : Inside(e, j) > 0

Bad == [type |-> "bad", n |-> 0, d |-> 1]

RECURSIVE Meaning(_, _)
MeaningOfParts(op, a, b, lenient) ==
    CASE Bad \in {a, b} -> Bad
      [] Bad \notin {a, b} /\ DividesByZero(op, b) /\ b # Wild ->
            IF lenient THEN Number(0, 1) ELSE Bad
      [] OTHER -> Applied(op, a, b)

Meaning(e, lenient) ==
    The({
      CASE k <= 6 ->
            The({MeaningOfParts(e[i], Meaning(SubSeq(e, 1, i - 1), lenient),
                                Meaning(SubSeq(e, i + 1, Len(e)), lenient), lenient) :
                   i \in {Cut(e, k)}})
        [] k = 7 /\ Len(e) > 1 /\ e[1] \in Unary ->
            The({IF v = Bad THEN Bad ELSE Signed(e[1], v) : v \in {Meaning(Tail(e), lenient)}})
        [] k = 7 /\ Len(e) > 2 /\ Enclosed(e, 1) ->
            Meaning(SubSeq(e, 2, Len(e) - 1), lenient)
        [] k = 7 /\ Len(e) > 3 /\ e[1] \in FunctionNames /\ Enclosed(e, 2) ->
            LET ends == Commas(e) \cup {Len(e)}
                before(i) == Max({2} \cup {j \in ends : j < i})
            IN  The({IF Bad \in Range(vs) \/ ~RightlyMany(e[1], Len(vs)) THEN Bad
                     ELSE Called_(e[1], vs) :
                       vs \in {[n \in 1..Cardinality(ends) |->
                                  LET i == SetToSortSeq(ends, <)[n]
                                  IN  Meaning(SubSeq(e, before(i) + 1, i - 1), lenient)]}})
        [] k = 7 /\ Len(e) = 1 /\ e[1] \in ConstantNames -> ConstantOf(e[1])
        [] k = 7 /\ Len(e) = 1 /\ e[1] \in Digits -> DigitOf(e[1])
        [] OTHER -> Bad :
      k \in {Loosest(e)}})

\* An operator counts where it stands, a call where its parenthesis closes.
Closes(e, i, j) == e[i] = "(" /\ e[j] = ")" /\ i < j /\ Inside(e, j + 1) = Inside(e, i)
                   /\ \A k \in (i + 1)..j : Inside(e, k) > Inside(e, i)
IsCall(e, i) == e[i] = "(" /\ i > 1 /\ e[i - 1] \in FunctionNames \cup OtherNames
Counts_(e) == {i \in DOMAIN e : \/ e[i] \in Operators
                                \/ \E j \in 1..i : IsCall(e, j) /\ Closes(e, j, i)}
WithinLimits(e) ==
    /\ Cardinality(Counts_(e)) <= MaxOperations
    /\ \A i \in DOMAIN e : e[i] = "(" => Inside(e, i) < MaxParentheses

\* An expression that breaks off: the parentheses that stay open, and whether an operand
\* is to come.
Unclosed(e) == {i \in DOMAIN e : e[i] = "(" /\ \A j \in DOMAIN e : ~Closes(e, i, j)}
OperandDue(e) == e = << >> \/ Last(e) \in Operators \cup {"(", ","}

\* The shortest expression that goes on from it, with the calls that stay open read as
\* negated disjunctions of their arguments: how many they take is not asked before they
\* close.
Enclosing(e, i) == Max({0} \cup {j \in Unclosed(e) : j < i})
Finished_(e) ==
    [i \in DOMAIN e |->
        CASE i + 1 \in Unclosed(e) /\ IsCall(e, i + 1) -> "!"
          [] /\ e[i] = "," /\ Enclosing(e, i) > 0 /\ IsCall(e, Enclosing(e, i))
             /\ Inside(e, i) = Inside(e, Enclosing(e, i)) + 1 -> "||"
          [] OTHER -> e[i]]
    \o (IF OperandDue(e) THEN <<"1">> ELSE << >>)
    \o [k \in 1..Cardinality(Unclosed(e)) |-> ")"]

\* The operator at i, of those that ask for an operand, is still reading its right
\* operand behind the last token.
Level_(t) == CHOOSE k \in 1..6 : t \in Binary[k]
Asks(e, i) == Infix(e, i) /\ e[i] \in UNION {Binary[k] : k \in 3..6}
StillReads(e, i) ==
    \A j \in (i + 1)..Len(e) :
        \/ Inside(e, j) > Inside(e, i)
        \/ /\ Inside(e, j) = Inside(e, i) /\ e[j] \notin {")", ","}
           /\ e[j] \in Operators /\ Infix(e, j) =>
                 Level_(e[j]) \in {k \in 1..6 : k >= Right(Level_(e[i]))}

\* An expression is text if it breaks off, or passes a limit with its last token, where
\* no operator that asks for an operand is reading.
BreaksOff(e, lenient) ==
    /\ OperandDue(e) \/ Unclosed(e) # {}
    /\ Meaning(Finished_(e), lenient) # Bad
    /\ \A i \in DOMAIN e : Asks(e, i) /\ StillReads(e, i) =>
          ~OperandDue(e) /\ \A j \in Unclosed(e) : j < i

PassesAtLast(e, lenient) ==
    /\ e # << >>
    /\ WithinLimits(Front(e)) /\ ~WithinLimits(e)
    /\ Last(e) = ")" => ~OperandDue(Front(e))
    /\ Meaning(Finished_(IF Last(e) = ")" THEN Front(e) ELSE e), lenient) # Bad
    /\ \A i \in DOMAIN Front(e) : ~(Asks(e, i) /\ StillReads(e, i))

\* An expression has a value exactly if it is well formed, does not divide by zero and
\* keeps within the limits, and then the value it means; else it stays the text it was
\* if it breaks off or passes a limit with its last token, and is an error that the page
\* shows if not.
ExpressionExact(e, lenient) ==
    The({CASE m \notin {Bad, Wild} /\ WithinLimits(e) ->
                Evaluated(e, lenient) = Answer("value", m)
           [] m = Wild /\ WithinLimits(e) -> Evaluated(e, lenient).what = "wild"
           [] OTHER ->
                Evaluated(e, lenient).what =
                    IF \/ WithinLimits(e) /\ BreaksOff(e, lenient)
                       \/ PassesAtLast(e, lenient)
                    THEN "literal" ELSE "shown" :
           m \in {Meaning(e, lenient)}})

\* An expression that is well formed but passes a limit stays as it was written
\* (parser_functions/mod.rs:52).
StaysLiteral(e, lenient) ==
    Meaning(e, lenient) # Bad /\ ~WithinLimits(e) => Evaluated(e, lenient).what = "literal"
=============================================================================
