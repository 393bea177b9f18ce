------------------------------ MODULE MCBuildTool ------------------------------
(***************************************************************************)
(* A project of up to three sources, src/main.slfr and two others: a       *)
(* library can lose one of two members.                                    *)
(***************************************************************************)
EXTENDS BuildTool, TLC

CONSTANTS main, one, two, s, t

Interchangeable == Permutations({one, two}) \cup Permutations({s, t})

=============================================================================
