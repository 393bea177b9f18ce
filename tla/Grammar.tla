-------------------------------- MODULE Grammar --------------------------------
(***************************************************************************)
(* The language, as its documentation describes it: which trees a sequence *)
(* of tokens has.  Nothing here looks ahead or recovers; a phrase is cut   *)
(* in every way its rule allows, and each part is tried by itself.         *)
(***************************************************************************)
EXTENDS Integers, Sequences, FiniteSets

CONSTANTS
    Types,              \* the type keywords
    TopLevelVariables   \* qualified variables may stand beside functions

(* precedence.md, from the loosest. *)
Precedence ==
    << {"||"}, {"&&"}, {"==", "!=", "<", "<=", ">", ">="}, {"|"}, {"^"}, {"&"},
       {"<<", ">>"}, {"+", "-"}, {"*", "/"} >>
NonChainable == 3

Assignment ==
    [op \in {"=", "+=", "-=", "*=", "/=", "&=", "|=", "^=", "<<=", ">>="} |->
        CASE op = "="  -> "=" [] op = "+=" -> "+" [] op = "-=" -> "-"
          [] op = "*=" -> "*" [] op = "/=" -> "/" [] op = "&=" -> "&"
          [] op = "|=" -> "|" [] op = "^=" -> "^" [] op = "<<=" -> "<<"
          [] op = ">>=" -> ">>"]

Part(ts, i, j)  == SubSeq(ts, i, j)
From(ts, i)     == SubSeq(ts, i, Len(ts))
Is(ts, i, type) == i \in DOMAIN ts /\ ts[i].type = type
Ends(ts, type)  == Is(ts, Len(ts), type)
Where(ts, S)    == {k \in DOMAIN ts : ts[k].type \in S}

None == [node |-> "none"]

-----------------------------------------------------------------------------
RECURSIVE Expression(_, _), CastTrees(_), UnaryTrees(_), PostfixTrees(_), Arguments(_)

(* Binary operators associate to the left; relational ones not at all. *)
Expression(ts, level) ==
    IF level > Len(Precedence) THEN CastTrees(ts)
    ELSE LET left == IF level = NonChainable THEN level + 1 ELSE level
         IN  Expression(ts, level + 1) \cup
             UNION {{[node |-> "binary", op |-> ts[k].type, left |-> l, right |-> r] :
                        l \in Expression(Part(ts, 1, k - 1), left),
                        r \in Expression(From(ts, k + 1), level + 1)} :
                    k \in Where(ts, Precedence[level]) \ {1, Len(ts)}}

CastTrees(ts) ==
    UnaryTrees(ts) \cup
    IF Len(ts) < 3 \/ ~Is(ts, Len(ts) - 1, "as") \/ ts[Len(ts)].type \notin Types THEN {}
    ELSE {[node |-> "cast", operand |-> e, target |-> ts[Len(ts)].type] :
            e \in CastTrees(Part(ts, 1, Len(ts) - 2))}

UnaryTrees(ts) ==
    PostfixTrees(ts) \cup
    IF Len(ts) < 2 \/ ts[1].type \notin {"-", "~", "!", "++", "--"} THEN {}
    ELSE {[node |-> "prefix", op |-> ts[1].type, operand |-> e] :
            e \in UnaryTrees(From(ts, 2))}

PostfixTrees(ts) ==
    CASE Len(ts) = 1 /\ ts[1].type = "integer" ->
            {[node |-> "number", number |-> ts[1].value]}
      [] Len(ts) = 1 /\ ts[1].type \in {"true", "false"} ->
            {[node |-> "truth", truth |-> ts[1].type]}
      [] Len(ts) = 1 /\ ts[1].type = "identifier" ->
            {[node |-> "name", name |-> ts[1].value]}
      [] Len(ts) > 1 /\ ts[Len(ts)].type \in {"++", "--"} ->
            {[node |-> "postfix", op |-> ts[Len(ts)].type, operand |-> e] :
                e \in PostfixTrees(Part(ts, 1, Len(ts) - 1))}
      [] Len(ts) > 2 /\ Is(ts, 1, "(") /\ Ends(ts, ")") ->
            Expression(Part(ts, 2, Len(ts) - 1), 1)
      [] Len(ts) > 2 /\ Is(ts, 1, "identifier") /\ Is(ts, 2, "(") /\ Ends(ts, ")") ->
            {[node |-> "call", name |-> ts[1].value, arguments |-> args] :
                args \in IF Len(ts) = 3 THEN {<<>>}
                         ELSE Arguments(Part(ts, 3, Len(ts) - 1))}
      [] OTHER -> {}

Arguments(ts) ==
    {<<e>> : e \in Expression(ts, 1)} \cup
    UNION {{<<e>> \o es : e \in Expression(Part(ts, 1, k - 1), 1),
                          es \in Arguments(From(ts, k + 1))} :
           k \in Where(ts, {","})}

Expressions(ts) == IF ts = <<>> THEN {} ELSE Expression(ts, 1)

-----------------------------------------------------------------------------
(* The qualifiers before position k, if nothing else is there. *)
Qualifier == {"mut", "pub", "extern"}
Start(ts) == CHOOSE k \in 1 .. Len(ts) + 1 :
                /\ \A i \in 1 .. k - 1 : ts[i].type \in Qualifier
                /\ k \in DOMAIN ts => ts[k].type \notin Qualifier
Given(ts) == {ts[i].type : i \in 1 .. Start(ts) - 1}

Variables(ts) ==
    LET k == Start(ts)
    IN  IF ~(Len(ts) >= k + 2 /\ ts[k].type \in Types /\ Is(ts, k + 1, "identifier")
             /\ Ends(ts, ";")) THEN {}
        ELSE {[node |-> "variable", type |-> ts[k].type, name |-> ts[k + 1].value,
               quals |-> Given(ts), value |-> v] :
                v \in CASE Len(ts) = k + 2 -> {None}
                        [] Len(ts) > k + 2 /\ Is(ts, k + 2, "=") ->
                               Expressions(Part(ts, k + 3, Len(ts) - 1))
                        [] OTHER -> {}}

Assignments(ts) ==
    IF ~(Is(ts, 1, "identifier") /\ Len(ts) > 2 /\ Ends(ts, ";")
         /\ ts[2].type \in DOMAIN Assignment) THEN {}
    ELSE {[node |-> "assign", name |-> ts[1].value,
           value |-> IF ts[2].type = "=" THEN v
                     ELSE [node |-> "binary", op |-> Assignment[ts[2].type],
                           left |-> [node |-> "name", name |-> ts[1].value],
                           right |-> v]] :
            v \in Expressions(Part(ts, 3, Len(ts) - 1))}

Returns(ts) ==
    IF ~(Is(ts, 1, "return") /\ Ends(ts, ";")) THEN {}
    ELSE {[node |-> "return", value |-> v] :
            v \in IF Len(ts) = 2 THEN {None} ELSE Expressions(Part(ts, 2, Len(ts) - 1))}

RECURSIVE Statements(_), Ifs(_), Functions(_)

Blocks(ts) ==
    IF ~(Len(ts) > 1 /\ Is(ts, 1, "{") /\ Ends(ts, "}")) THEN {}
    ELSE {[node |-> "block", statements |-> ss] :
            ss \in Statements(Part(ts, 2, Len(ts) - 1))}

Ifs(ts) ==
    IF ~Is(ts, 1, "if") THEN {}
    ELSE UNION {
        {[node |-> "if", condition |-> c, then |-> t, else |-> None] :
            c \in Expressions(Part(ts, 2, k - 1)), t \in Blocks(From(ts, k))}
        \cup
        UNION {{[node |-> "if", condition |-> c, then |-> t, else |-> e] :
                    c \in Expressions(Part(ts, 2, k - 1)),
                    t \in Blocks(Part(ts, k, m - 1)),
                    e \in Ifs(From(ts, m + 1)) \cup Blocks(From(ts, m + 1))} :
               m \in Where(ts, {"else"})} :
        k \in Where(ts, {"{"})}

Whiles(ts) ==
    IF ~Is(ts, 1, "while") THEN {}
    ELSE UNION {{[node |-> "while", condition |-> c, body |-> b] :
                    c \in Expressions(Part(ts, 2, k - 1)), b \in Blocks(From(ts, k))} :
                k \in Where(ts, {"{"})}

Statement(ts) ==
    Variables(ts) \cup Assignments(ts) \cup Returns(ts) \cup Blocks(ts) \cup Ifs(ts)
    \cup Whiles(ts) \cup Functions(ts)
    \cup (IF Ends(ts, ";") THEN Expressions(Part(ts, 1, Len(ts) - 1)) ELSE {})

(* A sequence of phrases, each of which ends with a semicolon or a brace. *)
Statements(ts) ==
    IF ts = <<>> THEN {<<>>}
    ELSE UNION {{<<s>> \o ss : s \in Statement(Part(ts, 1, k)),
                               ss \in Statements(From(ts, k + 1))} :
                k \in Where(ts, {";", "}"})}

Parameter(ts) ==
    LET k == Start(ts)
    IN  IF Len(ts) # k + 1 \/ ts[k].type \notin Types \/ ~Is(ts, k + 1, "identifier") THEN {}
        ELSE {[type |-> ts[k].type, name |-> ts[k + 1].value, quals |-> Given(ts)]}

RECURSIVE Parameters(_)
Parameters(ts) ==
    {<<p>> : p \in Parameter(ts)} \cup
    UNION {{<<p>> \o ps : p \in Parameter(Part(ts, 1, k - 1)),
                          ps \in Parameters(From(ts, k + 1))} :
           k \in Where(ts, {","})}

(* After the parameters: the type, if any, and the body, if any. *)
Bodies(ts) ==
    LET typed == ts # <<>> /\ ts[1].type \in Types
        rest  == IF typed THEN From(ts, 2) ELSE ts
    IN  {[type |-> IF typed THEN ts[1].type ELSE "void", body |-> b] :
            b \in IF Len(rest) = 1 /\ Is(rest, 1, ";") THEN {None} ELSE Blocks(rest)}

Functions(ts) ==
    LET k == Start(ts)
    IN  IF ~(Is(ts, k, "fn") /\ Is(ts, k + 1, "identifier") /\ Is(ts, k + 2, "(")) THEN {}
        ELSE UNION {{[node |-> "function", name |-> ts[k + 1].value, quals |-> Given(ts),
                      parameters |-> ps, type |-> b.type, body |-> b.body] :
                        ps \in IF m = k + 3 THEN {<<>>} ELSE Parameters(Part(ts, k + 3, m - 1)),
                        b \in Bodies(From(ts, m + 1))} :
                    m \in {j \in Where(ts, {")"}) : j > k + 2}}

ImportTrees(ts) ==
    IF /\ Is(ts, 1, "import") /\ Ends(ts, ";") /\ Len(ts) > 2 /\ Len(ts) % 2 = 1
       /\ \A i \in 2 .. Len(ts) - 1 :
            ts[i].type = IF i % 2 = 0 THEN "identifier" ELSE "."
    THEN {[node |-> "import", path |-> [i \in 1 .. Len(ts) \div 2 |-> ts[2 * i].value]]}
    ELSE {}

TopLevel(ts) ==
    Functions(ts) \cup ImportTrees(ts) \cup
    (IF TopLevelVariables /\ Given(ts) # {} THEN Variables(ts) ELSE {})

RECURSIVE Programs(_)
Programs(ts) ==
    IF ts = <<>> THEN {<<>>}
    ELSE UNION {{<<s>> \o ss : s \in TopLevel(Part(ts, 1, k)),
                               ss \in Programs(From(ts, k + 1))} :
                k \in Where(ts, {";", "}"})}

=============================================================================
