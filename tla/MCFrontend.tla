------------------------------- MODULE MCFrontend ------------------------------
(***************************************************************************)
(* Small texts for Frontend: every short text over the characters that the *)
(* tokenizer tells apart; every short expression; and whole programs with  *)
(* one word lost, doubled, exchanged or replaced.                          *)
(***************************************************************************)
EXTENDS Frontend

Spelling ==
    ("fn" :> <<"f", "n">>) @@ ("i8" :> <<"i", "8">>) @@ ("mut" :> <<"m", "u", "t">>) @@
    ("pub" :> <<"p", "u", "b">>) @@ ("as" :> <<"a", "s">>) @@ ("if" :> <<"i", "f">>) @@
    ("else" :> <<"e", "l", "s", "e">>) @@ ("while" :> <<"w", "h", "i", "l", "e">>) @@
    ("return" :> <<"r", "e", "t", "u", "r", "n">>) @@
    ("import" :> <<"i", "m", "p", "o", "r", "t">>) @@
    ("true" :> <<"t", "r", "u", "e">>) @@ ("||" :> <<"|", "|">>) @@ ("&&" :> <<"&", "&">>) @@
    ("==" :> <<"=", "=">>) @@ ("<<" :> <<"<", "<">>) @@ ("++" :> <<"+", "+">>) @@
    ("--" :> <<"-", "-">>) @@ ("+=" :> <<"+", "=">>) @@ ("<=" :> <<"<", "=">>) @@
    ("void" :> <<"v", "o", "i", "d">>) @@
    [c \in {"a", "b", "f", "1", "+", "-", "*", "/", "<", "&", "|", "^", "!", "~", "=",
            "(", ")", "{", "}", ",", ".", ";", "@"} |-> <<c>>]

(* The words of a program, with a space after each. *)
Text(words) == FlattenSeq([i \in DOMAIN words |-> Spelling[words[i]] \o <<" ">>])

SeqsOf(S, n) == UNION {[1 .. k -> S] : k \in 0 .. n}

-----------------------------------------------------------------------------
CharTexts ==
    SeqsOf({"+", "=", "<", "/", "0", "x", "b", "1", "_", "\n", "@"}, 3)
    \cup SeqsOf({"<", "=", ">"}, 4)
    \cup [1 .. 4 -> {"0", "x", "b", "1", "_"}]
    \cup {<<"/", "\r", "/", "+">>, <<"+", "NUL", "+">>, <<"2", "5", "5">>, <<"2", "5", "6">>,
          <<"a", "b", "c", "d", "e", "f", "a", "b", "c">>}

InFunction(words) == <<"fn", "f", "(", ")", "{">> \o words \o <<";", "}">>

Expressions ==
    SeqsOf({"a", "+", "-", "<", "++", "as", "i8", "(", ")", ","}, 4)
    \cup {<<"a", x, "b", y, "1">> :
            x, y \in {"||", "&&", "==", "<", "|", "^", "&", "<<", "+", "*", "++", "as"}}
    \cup {<<x, "a", y, z>> \o e :
            x \in {"-", "~", "++", "("}, y \in {"++", "*", "(", ")"},
            z \in {"b", "++", ")", "as"}, e \in {<<>>, <<")">>, <<"i8">>}}

-----------------------------------------------------------------------------
Bases ==
    { <<"import", "a", ".", "b", ";", "fn", "f", "(", ")", ";">>,
      <<"pub", "fn", "f", "(", "i8", "a", ",", "mut", "i8", "b", ")", "i8", "{",
            "return", "a", ";", "}">>,
      <<"fn", "f", "(", ")", "{", "mut", "i8", "a", "=", "1", ";", "a", "+=", "b", ";",
            "return", ";", "}">>,
      <<"fn", "f", "(", ")", "{", "if", "a", "{", "b", "=", "1", ";", "}",
            "else", "if", "b", "{", "}", "else", "{", "f", "(", ")", ";", "}", "}">>,
      <<"fn", "f", "(", ")", "{", "while", "true", "{", "{", "i8", "a", ";", "}", "}", "}",
            "import", "a", ";">> }

Words == {"fn", "i8", "pub", "if", "else", "return", "import", "a", "=", "(", ")", "{", "}",
          ";", ",", ".", "1", "@", "void", "as"}

Damaged(w) ==
    {w} \cup {RemoveAt(w, i) : i \in DOMAIN w}
        \cup {ReplaceAt(w, i, x) : i \in DOMAIN w, x \in Words}
        \cup {InsertAt(w, i, x) : i \in DOMAIN w, x \in Words}
        \cup {SubSeq(w, 1, i) : i \in DOMAIN w}

ProgramTexts ==
    {Text(InFunction(e)) : e \in Expressions}
    \cup UNION {{Text(w) : w \in Damaged(b)} : b \in Bases}
    \cup {Text(q \o <<"i8", "a">> \o v) : q \in {<<>>, <<"mut">>},
             v \in {<<";">>, <<"=", "1", ";">>, <<"=", "1", ";", "fn", "f", "(", ")", ";">>}}

MCInputs ==
    [text : CharTexts \cup ProgramTexts, memory : {0}]
    \cup [text : {Text(b) : b \in Bases}, memory : 1 .. 30]

=============================================================================
