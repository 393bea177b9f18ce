------------------------------- MODULE MCLinkage -------------------------------
(***************************************************************************)
(* Small programs for Linkage: two modules, m and n, and the root.         *)
(***************************************************************************)
EXTENDS Linkage, TLC

MCModules == <<"m", "n">>
MCMain == <<"m", "a", "i", "n">>
MCDigits == [k \in 1 .. 9 |-> <<ToString(k)>>]
f == <<"f">>
g == <<"g">>
MCLibrary == {g}
MCCharacters == DigitCharacters \cup {"_", "S", "F", "s", "t", "a", "r", "m", "i", "n", "f", "g", "b", "d"}

SeqsOf(S, k) == UNION {[1 .. j -> S] : j \in 0 .. k}

Decl(name, quals, sig) ==
    [name |-> name, quals |-> quals, sig |-> sig, defined |-> FALSE, calls |-> <<>>]
Def(name, quals, sig, calls) ==
    [name |-> name, quals |-> quals, sig |-> sig, defined |-> TRUE, calls |-> calls]
Call(name, sig) == [name |-> name, sig |-> sig]
Main(calls) == Def(MCMain, {}, 1, calls)
AndMain(S, calls) == {s \o <<Main(calls)>> : s \in S}

Usual == {{}, {"pub"}, {"extern"}}

(* Declarations and definitions, with and without a call of f. *)
Funcs(names, quals, sigs) ==
    {Decl(x, q, s) : x \in names, q \in quals, s \in sigs}
    \cup {Def(x, q, s, c) : x \in names, q \in quals, s \in sigs, c \in {<<>>, <<Call(f, 1)>>}}

-----------------------------------------------------------------------------
(* One directory, s, with the files m and n. *)
S == <<"s">>
M == <<"m">>
N == <<"n">>

Flat(imports, items) ==
    [dirs : {<<<<S>>>>}, file : {[m |-> <<S, M>>, n |-> <<S, N>>]},
     imports : imports, items : items]

(* What a module can hold. *)
Declarations ==
    Flat([m : {<<>>}, n : {<<>>}, root : {<<>>, <<<<M>>>>}],
         [m : SeqsOf(Funcs({f, g}, Usual, {1}), 2),
          n : {<<>>},
          root : AndMain(SeqsOf({Decl(f, q, 1) : q \in Usual}
                                \cup {Def(f, q, 1, <<>>) : q \in {{}, {"pub"}}}, 1),
                         <<Call(f, 1)>>)])

(* Signatures and forbidden qualifiers; what main can look like. *)
Signatures ==
    Flat([m : {<<>>}, n : {<<>>}, root : {<<<<M>>>>}],
         [m : SeqsOf(Funcs({f}, {{"pub"}}, {1, 2}), 2),
          n : {<<>>},
          root : {y \o z : y \in SeqsOf(Funcs({f}, {{}, {"mut"}, {"pub", "extern"}}, {1, 2}), 1),
                           z \in {<<>>, <<Main(<<Call(f, 1)>>)>>, <<Main(<<Call(g, 1)>>)>>,
                                  <<Decl(MCMain, {}, 1)>>, <<Def(MCMain, {"pub"}, 1, <<>>)>>,
                                  <<Def(MCMain, {}, 2, <<>>)>>}}])

(* Who imports whom. *)
Graphs ==
    Flat([m : {<<>>}, n : {<<>>, <<<<M>>>>},
          root : {<<<<N>>>>, <<<<M>>, <<N>>>>, <<<<N>>, <<M>>>>, <<<<N>>, <<S>>>>}],
         [m : SeqsOf(Funcs({f}, Usual, {1}), 2),
          n : SeqsOf(Funcs({f, g}, Usual, {1}), 1) \cup
              {<<x, Def(g, {"pub"}, 1, <<Call(f, 1)>>)>> : x \in Funcs({f}, {{}, {"pub"}}, {1})},
          root : AndMain(SeqsOf(Funcs({f}, {{}, {"extern"}}, {1}), 1), <<Call(f, 1)>>)])

-----------------------------------------------------------------------------
(* Where modules lie, and how their names are spelled. *)
A == <<"a">>
B == <<"b">>
D == <<"d">>
AB == <<"a", "b">>

Places ==
    [dirs    : {<<<<S>>>>, <<<<S>>, <<S, A>>>>, <<<<S, A>>, <<S>>>>},
     file    : {t \in [m : {<<S, A>>, <<S, B>>, <<S, A, B>>, <<S, AB>>},
                       n : {<<S, B>>, <<S, A, B>>, <<S, AB>>}] : t.m # t.n},
     imports : [m : {<<>>}, n : {<<>>},
                root : {<<p>> : p \in {<<A>>, <<B>>, <<A, B>>, <<AB>>, <<S, B>>}}
                       \cup {<<<<A, B>>, <<B>>>>, <<<<A>>, <<A, B>>>>}],
     items   : [m : {<<Def(x, {"pub"}, 1, <<>>)>> : x \in {B, AB}},
                n : {<<Def(x, {"pub"}, 1, <<>>)>> : x \in {B, <<"b", "1", "b">>}},
                root : {<<Decl(B, {}, 1), Main(<<Call(B, 1)>>)>>}]]

(* One file that lies where the name of another one would lead. *)
Nested ==
    [dirs    : {<<<<S>>, <<D>>>>, <<<<D>>, <<S>>>>},
     file    : {[m |-> <<S, B>>, n |-> <<D, S, B>>]},
     imports : [m : {<<>>}, n : {<<>>}, root : {<<<<S, B>>>>, <<<<B>>>>, <<<<D, S, B>>>>}],
     items   : [m : {<<Def(f, {"pub"}, 1, <<>>)>>}, n : {<<Def(f, {"pub"}, 1, <<>>)>>},
                root : {<<Main(<<Call(f, 1)>>)>>}]]

(* Names like those that are mangled, and like the entry point; functions  *)
(* of a library that the root declares.                                    *)
MF == <<"_", "S", "F", "1", "m", "1", "f">>

Spellings ==
    Flat([m : {<<>>}, n : {<<>>}, root : {<<>>, <<<<M>>>>}],
         [m : {<<x, Def(f, {"pub"}, 1, <<Call(x.name, 1)>>)>> :
                    x \in {Decl(y, {"extern"}, 1) : y \in {g, MF, Start}}},
          n : {<<>>},
          root : AndMain({<<x>> : x \in Funcs({g, MF, Start}, {{}, {"pub"}}, {1})}, <<>>)])

MCPrograms == Declarations \cup Signatures \cup Graphs \cup Places \cup Nested \cup Spellings

=============================================================================
