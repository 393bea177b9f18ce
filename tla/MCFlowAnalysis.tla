----------------------------- MODULE MCFlowAnalysis -----------------------------
(***************************************************************************)
(* Small instances of FlowAnalysis: two variable names are enough for      *)
(* shadowing, for a value copied from one to the other and for branches    *)
(* that assign different variables.                                        *)
(***************************************************************************)
EXTENDS FlowAnalysis, TLC

CONSTANTS x, y

VariableNames == Permutations(Names)

=============================================================================
