-------------------------- MODULE MCExpressionCode --------------------------
(* Statements of every type and operator: two operators deep where the        *)
(* widths are equal, one operator for every pair of types.                    *)
EXTENDS ExpressionCode

MCBits == (1 :> 3) @@ (2 :> 6) @@ (4 :> 7) @@ (8 :> 8)

MCDeclared == [t \in Types |-> [parameter |-> t, result |-> t]]

MCInputs == [t \in Types |-> IF t = "bool" THEN {0, 1}
                ELSE {v \in {LeastOf(t), -1, 0, 1, GreatestOf(t)} : Fits(t, v)}]

Names == {"a", "b", "d"}
a == Identifier("a")
b == Identifier("b")

(* Bounds of the types, and the immediates of 8 bytes too large for 4. *)
Literals == {Integer(v) : v \in {1, GreatestOf("i8") + 1, GreatestOf("i32") + 1, GreatestOf("i64") + 1}}

Arithmetic == Additive \cup Bitwises \cup Shifts

Statement(kind, ta, tb, target, td, e) ==
    [kind |-> kind, types |-> ("a" :> ta) @@ ("b" :> tb) @@ ("d" :> td),
     given |-> {"a", "b"}, target |-> target, value |-> e]

(* One operator on operands of one type, stored over an operand or elsewhere. *)
Flat ==
    LET values == {Binary(op, l, r) : op \in Arithmetic, l, r \in {a, b} \cup Literals}
                  \cup {Unary(op, a) : op \in {"neg", "~"} \cup Increments}
                  \cup {Unary("neg", k) : k \in Literals} \cup Literals \cup {a, b}
    IN  {Statement("assign", t, t, target, t, e) :
            t \in IntegerTypes, target \in {"a", "d"}, e \in values}

(* Two operators: what a first operation leaves for the second. *)
Nested ==
    LET inner == {Binary("-", a, b), Binary("/", b, a), Unary("neg", b), Unary("x++", b)}
    IN  {Statement("assign", t, t, "a", t, e) : t \in {"i8", "u8", "i32", "u64"},
            e \in {Binary(op, i, j) : op \in {"-", "/", "<<"}, i, j \in inner \cup {a}}}

Conditions ==
    LET truths == {a, b, Boolean(0), Boolean(1)}
    IN  {Statement("assign", t, t, "d", "bool", Binary(op, l, r)) :
            t \in Types, op \in Relational, l, r \in {a, b} \cup Literals}
        \cup {Statement("assign", t, u, "d", "bool", Binary(op, a, b)) :
            t, u \in Types, op \in {"==", "<"}}
        \cup {Statement("assign", "bool", "bool", "d", "bool", e) :
            e \in {Binary(op, l, r) : op \in Logical \cup {"==", "!="}, l, r \in truths}
                  \cup {Unary("!", x) : x \in truths \cup {Binary("==", a, b)}}}
        \cup {Statement("assign", "i32", "i32", "d", "bool", Binary(op, e, Unary("neg", Integer(1)))) :
            op \in Relational,
            e \in {Binary(o, Unary("neg", Integer(l)), Integer(r)) : o \in Arithmetic, l, r \in {1, 2, 3}}}

(* Conversions between every two types, and counts of another width. *)
Conversions ==
    UNION {
        {Statement("assign", t, u, "d", u, e) :
            e \in {a, Cast(a, u), Binary("-", Cast(a, u), b), Cast(Binary("*", a, a), u)}
                  \cup {FuncCall(u, x) : x \in {a, b, Integer(1), Binary("-", a, a)}}}
        \cup {Statement("assign", t, u, "a", t, Binary(op, a, b)) : op \in Shifts \cup {"+"}} :
        t, u \in Types}

Returned ==
    UNION {{Statement("return", t, t, u, t, e) :
                e \in {a, Cast(a, u), Binary("-", a, b), Integer(1)}} : t, u \in Types}

MCStatements == Flat \cup Nested \cup Conditions \cup Conversions \cup Returned

(* The body of "fn widen(i32 x) i64 { return x; }". *)
WidenStatements == {Statement("return", "i32", "i32", "i64", "i32", a)}

=============================================================================
