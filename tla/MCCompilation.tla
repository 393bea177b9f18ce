----------------------------- MODULE MCCompilation -----------------------------
(***************************************************************************)
(* Small instances of Compilation.  Three files, of which one is the       *)
(* program's own, are enough for every shape the two walks tell apart:     *)
(* self imports, cycles of two and three modules that the walk enters at   *)
(* any module, cycles through the program's own file, diamonds, and the    *)
(* same module imported twice by one unit.                                 *)
(***************************************************************************)
EXTENDS Compilation

CONSTANTS main, a, b, f

MCFiles == {main, a, b}

SeqsUpTo(S, n) == UNION {[1 .. k -> S] : k \in 0 .. n}

(* Every import graph of sound files; and functions whose names may clash. *)
GraphPrograms ==
    [MCFiles -> [imports : SeqsUpTo(MCFiles, 2), health : {"ok"},
                 public : {{}}, private : {{}}]]

NamePrograms ==
    {p \in [MCFiles -> [imports : SeqsUpTo({a, b}, 2), health : {"ok"},
                        public : SUBSET {f}, private : SUBSET {f}]] :
        /\ \A x \in MCFiles : p[x].public \cap p[x].private = {}
        /\ p[a].imports \in {<<>>, <<b>>}
        /\ p[b].imports = <<>>}

(* Files with every kind of defect, missing ones among them; b is not used. *)
FaultyPrograms ==
    {p \in [MCFiles -> [imports : SeqsUpTo({main, a, NotFound}, 2),
                        health : Health, public : {{}, {f}},
                        private : {{}}]] :
        /\ p[main].public = {}
        /\ p[b] = [imports |-> <<>>, health |-> "ok", public |-> {}, private |-> {}]}

(* All graphs of a program without faults, all defects of a module with them. *)
MCPrograms ==
    [s \in Settings |->
        CASE ~s.isModule /\ ~s.faults -> GraphPrograms \cup NamePrograms
          [] s.isModule /\ s.faults   -> FaultyPrograms
          [] OTHER                    -> {}]

=============================================================================
