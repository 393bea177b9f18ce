-------------------------- MODULE ExpressionTyping --------------------------
(* The types of expressions and the constants the compiler folds while it     *)
(* checks them: semantic_expr.c, semantic_const.c and type_utils.c.           *)
(*                                                                            *)
(* A node is a record with the fields of its C structure; "type" is the field *)
(* "resolved". What a function may fail to compute is a set with one element  *)
(* or none: Analysed(e, t) is {} when an error is reported, Constant(t, e) is *)
(* {} when e is not a constant.                                               *)
EXTENDS Integers, Sequences, Bitwise

CONSTANTS
    Bits,       \* bits in a value of 1, 2, 4 and 8 bytes
    Declared    \* functions of one parameter: name -> [parameter, result]

ASSUME WidthsGrow ==
    /\ Bits \in [{1, 2, 4, 8} -> Nat]
    /\ 0 < Bits[1] /\ Bits[2] = 2 * Bits[1] /\ Bits[2] < Bits[4] /\ Bits[4] < Bits[8]

SignedTypes == {"i8", "i16", "i32", "i64"}
UnsignedTypes == {"u8", "u16", "u32", "u64"}
IntegerTypes == SignedTypes \cup UnsignedTypes
Types == IntegerTypes \cup {"bool"}

Size(t) ==
    CASE t \in {"i8", "u8", "bool"} -> 1
      [] t \in {"i16", "u16"} -> 2
      [] t \in {"i32", "u32"} -> 4
      [] t \in {"i64", "u64"} -> 8

Modulus(size) == 2 ^ Bits[size]

LeastOf(t) == IF t \in SignedTypes THEN -(Modulus(Size(t)) \div 2) ELSE 0

GreatestOf(t) == LeastOf(t) + Modulus(Size(t)) - 1

Fits(t, v) == LeastOf(t) <= v /\ v <= GreatestOf(t)

(* The value of type t that v becomes when only its low bits are kept. *)
Wrapped(t, v) == LeastOf(t) + ((v - LeastOf(t)) % Modulus(Size(t)))

SameGroup(t, u) ==
    \E group \in {SignedTypes, UnsignedTypes, {"bool"}} : {t, u} \subseteq group

Castable(from, to) == from = to \/ "bool" \notin {from, to}

(* --------------------------------------------------------------- nodes *)

Integer(v) == [node |-> "integer", value |-> v, type |-> "unresolved"]
Boolean(v) == [node |-> "boolean", value |-> v, type |-> "unresolved"]
Identifier(n) == [node |-> "identifier", name |-> n, type |-> "unresolved"]
Unary(op, e) == [node |-> "unary", op |-> op, operand |-> e, type |-> "unresolved"]
Binary(op, l, r) ==
    [node |-> "binary", op |-> op, left |-> l, right |-> r, type |-> "unresolved"]
Cast(e, t) == [node |-> "cast", operand |-> e, target |-> t, type |-> "unresolved"]
FuncCall(f, e) == [node |-> "call", callee |-> f, argument |-> e, type |-> "unresolved"]

Additive == {"+", "-", "*", "/"}
Bitwises == {"&", "|", "^"}
Shifts == {"<<", ">>"}
Relational == {"==", "!=", "<", "<=", ">", ">="}
Logical == {"&&", "||"}
Increments == {"++x", "x++", "--x", "x--"}

(* ------------------------------------------------------------- constants *)

BitsOf(op, l, r) ==
    CASE op \in {"&", "&&"} -> l & r
      [] op \in {"|", "||"} -> l | r
      [] op = "^" -> l ^^ r

(* Division of C and of idiv: rounds towards zero. *)
Quotient(l, r) ==
    LET Magnitude(v) == IF v < 0 THEN -v ELSE v
        q == Magnitude(l) \div Magnitude(r)
    IN  IF (l < 0) = (r < 0) THEN q ELSE -q

IfFits(t, v) == {x \in {v} : Fits(t, x)}

(* `>>' of a negative number is arithmetic, unlike a division. *)
ShiftedTowardsZero(l, r) == Quotient(l, 2 ^ r)
ShiftedRight(l, r) == l \div 2 ^ r

(* l op r in 64 bits: nothing when it overflows or is undefined in C. *)
Folded(t, op, l, r) ==
    CASE op = "+" -> IfFits(t, l + r)
      [] op = "-" -> IfFits(t, l - r)
      [] op = "*" -> IfFits(t, l * r)
      [] op = "/" /\ r # 0 -> IfFits(t, Quotient(l, r))
      [] op = "<<" /\ r \in 0 .. Bits[8] - 1 -> {Wrapped(t, l * 2 ^ r)}
      [] op = ">>" /\ r \in 0 .. Bits[8] - 1 -> {ShiftedRight(l, r)}
      [] op \in Bitwises -> {Wrapped(t, BitsOf(op, l % Modulus(8), r % Modulus(8)))}
      [] OTHER -> {}

RECURSIVE Constant(_, _)
Constant(t, e) ==
    CASE e.node = "integer" -> IfFits(t, e.value)
      [] e.node = "unary" /\ e.op = "neg" /\ t = "i64" ->
            LET magnitudes == IF e.operand.node = "integer" THEN {e.operand.value}
                              ELSE Constant(t, e.operand)
            IN  UNION {IfFits(t, -m) : m \in magnitudes}
      [] e.node = "binary" ->
            UNION {Folded(t, e.op, l, r) : l \in Constant(t, e.left),
                                           r \in Constant(t, e.right)}
      [] OTHER -> {}

ConstantFits(e) ==
    IF e.type \in SignedTypes THEN \A v \in Constant("i64", e) : Fits(e.type, v)
    ELSE /\ \A v \in Constant("u64", e) : Fits(e.type, v)
         /\ ~ /\ e.op = "-"
              /\ \E l \in Constant("u64", e.left), r \in Constant("u64", e.right) : l < r

ConstantZero(e, t) ==
    0 \in Constant(IF t \in SignedTypes THEN "i64" ELSE "u64", e)

Compared(op, l, r) ==
    CASE op = "==" -> l = r
      [] op = "!=" -> l # r
      [] op = "<" -> l < r
      [] op = "<=" -> l <= r
      [] op = ">" -> l > r
      [] op = ">=" -> l >= r

RECURSIVE ConstantTruth(_)
ConstantTruth(e) ==
    CASE e.node = "boolean" -> {e.value = 1}
      [] e.node = "unary" /\ e.op = "!" -> {~v : v \in ConstantTruth(e.operand)}
      [] e.node = "binary" /\ e.op \in Logical ->
            {IF e.op = "&&" THEN l /\ r ELSE l \/ r :
                l \in ConstantTruth(e.left), r \in ConstantTruth(e.right)}
      [] e.node = "binary" /\ e.op \in Relational /\ e.left.type = "bool" ->
            IF e.op \notin {"==", "!="} THEN {}
            ELSE {Compared(e.op, l, r) : l \in ConstantTruth(e.left),
                                         r \in ConstantTruth(e.right)}
      [] e.node = "binary" /\ e.op \in Relational /\ e.left.type # "bool" ->
            LET t == IF e.left.type \in SignedTypes THEN "i64" ELSE "u64"
            IN  {Compared(e.op, l, r) : l \in Constant(t, e.left),
                                        r \in Constant(t, e.right)}
      [] OTHER -> {}

(* What sf_const_warn tells the user: the value this node always has. *)
Warned(e) ==
    IF \/ e.node = "binary" /\ e.op \in Relational \cup Logical
       \/ e.node = "unary" /\ e.op = "!"
    THEN ConstantTruth(e) ELSE {}

(* ----------------------------------------------------------------- types *)

WithType(e, t) == {[e EXCEPT !.type = t]}

AnalysedInteger(e, expected) ==
    LET t == IF expected \in IntegerTypes THEN expected ELSE "i64"
    IN  IF Fits(t, e.value) THEN WithType(e, t) ELSE {}

AnalysedLogical(e) ==
    IF {e.left.type, e.right.type} = {"bool"} THEN WithType(e, "bool") ELSE {}

AnalysedShift(e) ==
    IF \A count \in Constant("i64", e.right) : count \in 0 .. Bits[Size(e.left.type)] - 1
    THEN WithType(e, e.left.type) ELSE {}

AnalysedRelational(e) ==
    IF /\ SameGroup(e.left.type, e.right.type)
       /\ Size(e.left.type) = Size(e.right.type)
    THEN WithType(e, "bool") ELSE {}

Promoted(t, u) == IF Size(t) >= Size(u) THEN t ELSE u

AnalysedArithmetic(e) ==
    IF SameGroup(e.left.type, e.right.type) /\ e.left.type \in IntegerTypes
    THEN LET t == Promoted(e.left.type, e.right.type)
         IN  {x \in WithType(e, t) : /\ ~(e.op = "/" /\ ConstantZero(e.right, t))
                                     /\ ConstantFits(x)}
    ELSE {}

AnalysedNegatedLiteral(e, expected) ==
    LET t == IF expected \in SignedTypes THEN expected ELSE "i64"
    IN  IF expected \in UnsignedTypes \/ -e.operand.value < LeastOf(t) THEN {}
        ELSE {[e EXCEPT !.type = t, !.operand.type = t]}

(* A literal on the left of a comparison takes the type of the right side;   *)
(* the right operand of any other operator, shifts excepted, that of the left.*)
RECURSIVE Analysed(_, _, _)
AnalysedOperands(e, vars, expected) ==
    LET inner == IF e.op \in Logical THEN "bool"
                 ELSE IF e.op \in Relational \/ expected \notin IntegerTypes
                      THEN "unresolved" ELSE expected
        IsLiteral(x) == x.node \in {"integer", "boolean"}
        rightFirst == e.op \in Relational /\ IsLiteral(e.left) /\ ~IsLiteral(e.right)
    IN  IF rightFirst
        THEN UNION {{[e EXCEPT !.left = l, !.right = r] : l \in Analysed(e.left, vars, r.type)} :
                        r \in Analysed(e.right, vars, inner)}
        ELSE UNION {{[e EXCEPT !.left = l, !.right = r] :
                        r \in Analysed(e.right, vars, IF e.op \in Shifts THEN inner ELSE l.type)} :
                        l \in Analysed(e.left, vars, inner)}

AnalysedBinary(e) ==
    CASE e.op \in Logical -> AnalysedLogical(e)
      [] e.op \in Shifts -> AnalysedShift(e)
      [] e.op \in Relational -> AnalysedRelational(e)
      [] OTHER -> AnalysedArithmetic(e)

(* The operand of an operator, when its type is one the operator takes. *)
AnalysedUnary(e, vars, expected) ==
    LET Operand(t, accepted) ==
            {[e EXCEPT !.operand = x, !.type = x.type] :
                x \in {x \in Analysed(e.operand, vars, t) : x.type \in accepted}}
    IN  CASE e.op = "neg" /\ e.operand.node = "integer" -> AnalysedNegatedLiteral(e, expected)
          [] e.op = "neg" /\ e.operand.node # "integer" ->
                Operand(IF expected \in SignedTypes THEN expected ELSE "i64", SignedTypes)
          [] e.op = "~" -> Operand(expected, IntegerTypes)
          [] e.op \in Increments ->
                IF e.operand.node = "identifier" THEN Operand(expected, IntegerTypes) ELSE {}
          [] e.op = "!" -> Operand("bool", {"bool"})

AnalysedCast(e, vars) ==
    {[e EXCEPT !.operand = x, !.type = e.target] :
        x \in {x \in Analysed(e.operand, vars, "unresolved") : Castable(x.type, e.target)}}

(* A value can be stored where a value of the same group and at least its    *)
(* size is wanted.                                                            *)
Assignable(from, to) == SameGroup(from, to) /\ Size(from) <= Size(to)

(* An argument of another type than the parameter's is put under a cast. *)
AsItIs(x, t) == x
Converted(x, t) == IF x.type = t THEN x ELSE [Cast(x, t) EXCEPT !.type = t]

AnalysedCall(e, vars) ==
    LET parameter == Declared[e.callee].parameter
    IN  {[e EXCEPT !.argument = Converted(x, parameter), !.type = Declared[e.callee].result] :
            x \in {x \in Analysed(e.argument, vars, parameter) : Assignable(x.type, parameter)}}

Analysed(e, vars, expected) ==
    CASE e.node = "binary" -> UNION {AnalysedBinary(x) : x \in AnalysedOperands(e, vars, expected)}
      [] e.node = "unary" -> AnalysedUnary(e, vars, expected)
      [] e.node = "cast" -> AnalysedCast(e, vars)
      [] e.node = "call" -> AnalysedCall(e, vars)
      [] e.node = "integer" -> AnalysedInteger(e, expected)
      [] e.node = "boolean" -> WithType(e, "bool")
      [] e.node = "identifier" -> WithType(e, vars[e.name])

=============================================================================
