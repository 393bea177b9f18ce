------------------------------ MODULE MCStackFrame ------------------------------
(***************************************************************************)
(* Frames of operands of every size, with two of the smallest so that gaps *)
(* and slots that need none alternate, and a void one.  The map starts     *)
(* with room for two entries and so grows twice.                           *)
(***************************************************************************)
EXTENDS StackFrame

CONSTANTS a, b, c, d, e, u

WidthOf == [n \in {a, b, c, d, e, u} |->
    CASE n \in {a, b} -> 1 [] n = c -> 2 [] n = d -> 4 [] n = e -> 8 [] n = u -> 0]

=============================================================================
