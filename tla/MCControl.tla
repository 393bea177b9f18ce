------------------------------- MODULE MCControl -------------------------------
(***************************************************************************)
(* Small functions for Control: branches and loops within each other and   *)
(* behind each other, with and without an else, that return or do not.     *)
(***************************************************************************)
EXTENDS Control, FiniteSets

SeqsOf(S, k) == UNION {[1 .. j -> S] : j \in 0 .. k}

Idles == [kind |-> "idle"]
Does1 == [kind |-> "act", name |-> "a"]
Does2 == [kind |-> "act", name |-> "b"]
Block(s) == [kind |-> "block", statements |-> s]
Blocks(S, k) == {Block(s) : s \in SeqsOf(S, k)}

If(name, computed, then) ==
    [kind |-> "if", name |-> name, computed |-> computed, then |-> then,
     hasElse |-> FALSE, else |-> NoElse]
IfElse(name, computed, then, else) ==
    [If(name, computed, then) EXCEPT !.hasElse = TRUE, !.else = else]
While(name, computed, body) ==
    [kind |-> "while", name |-> name, computed |-> computed, body |-> body]
Function(name, void, body) == [kind |-> "function", name |-> name, void |-> void, body |-> body]

Ifs(name, computed, then, else) ==
    {If(name, c, t) : c \in computed, t \in then}
    \cup {IfElse(name, c, t, e) : c \in computed, t \in then, e \in else}
Whiles(name, computed, body) == {While(name, c, b) : c \in computed, b \in body}

(* Statements without others in them; the smallest constructs. *)
Simple == {Does1, Does2, ReturnStatement}
Small == Blocks(Simple, 1)
Inner == Ifs("c", {FALSE}, Small, Small) \cup Whiles("c", {TRUE}, Small)

(* Two constructs behind each other; constructs in constructs; else if.    *)
Behind ==
    {Block(<<x, y, z>>) :
        x \in Ifs("d", BOOLEAN, Blocks(Simple, 0), Small) \cup Whiles("d", BOOLEAN, Small),
        y \in Ifs("e", {FALSE}, Small, Blocks({Does1}, 1)) \cup Whiles("e", BOOLEAN, Small),
        z \in {Idles, Does2, ReturnStatement}}

Within ==
    {Block(<<x>> \o y) :
        x \in Ifs("d", {TRUE}, {Block(s) : s \in {<<i>> : i \in Inner} \cup {<<i, Does2>> : i \in Inner}},
                  Small \cup {Block(<<Does2, While("e", FALSE, Block(<<Does1>>))>>)})
             \cup Ifs("d", {FALSE}, Small, Inner)
             \cup Whiles("d", BOOLEAN, Blocks(Inner \cup {Does1}, 2)),
        y \in {<<>>, <<Does1>>, <<ReturnStatement>>}}

OneFunction == {<<Function("f", v, b)>> : v \in BOOLEAN, b \in Behind \cup Within \cup Blocks(Simple, 2)}

(* A function in a function, and one behind it. *)
Several ==
    {<<Function("f", v, Block(<<x, Function("g", w, Block(y)), z>>)), Function("h", TRUE, Block(y))>> :
        v, w \in BOOLEAN, x, z \in Inner \cup {Idles, ReturnStatement},
        y \in {<<>>, <<ReturnStatement>>, <<While("i", FALSE, Block(<<Does1>>))>>}}

(* The last example of doc/compiler/if-else.md: four assignments. *)
Pay(k) == Block(<<[kind |-> "act", name |-> k]>>)
ElseIf ==
    {<<Function("main", FALSE, Block(<<
        IfElse("score >= 90", TRUE, Pay("1600"),
            IfElse("score >= 80", TRUE, Pay("1400"),
                IfElse("score >= 70", TRUE, Pay("1200"), Pay("1000")))),
        ReturnStatement>>))>>}

MCPrograms == OneFunction \cup Several

=============================================================================
