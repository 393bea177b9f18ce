------------------------------- MODULE Statements -------------------------------
(***************************************************************************)
(* The statements of a function, as the analysis leaves them.  An act is   *)
(* an expression statement, an assignment or a declaration with a value;   *)
(* what it does to the data is ExpressionCode's subject.  A condition that *)
(* needs code of its own is `computed' before it is tested.                *)
(***************************************************************************)
EXTENDS Naturals, Sequences

ReturnStatement == [kind |-> "return"]
NoElse == [kind |-> "block", statements |-> <<>>]

(* A variable without a value, an expression without an effect or a        *)
(* function declared here do nothing where they stand.                     *)
Idle == {"idle", "function"}

(* What is done one after the other. *)
RECURSIVE Unfolded(_)
Unfolded(statements) ==
    IF statements = <<>> THEN <<>>
    ELSE (CASE Head(statements).kind = "block" -> Unfolded(Head(statements).statements)
            [] Head(statements).kind \in Idle -> <<>>
            [] OTHER -> <<Head(statements)>>)
         \o Unfolded(Tail(statements))

(* The functions declared in a statement, the one it is included.          *)
RECURSIVE FunctionsIn(_)
FunctionsIn(s) ==
    CASE s.kind = "function" -> {s} \cup FunctionsIn(s.body)
      [] s.kind = "block"    -> UNION {FunctionsIn(s.statements[i]) : i \in DOMAIN s.statements}
      [] s.kind = "if"       -> FunctionsIn(s.then) \cup FunctionsIn(s.else)
      [] s.kind = "while"    -> FunctionsIn(s.body)
      [] OTHER               -> {}

(* A function without a result returns at its end. *)
AtEnd(f) == IF f.void THEN <<ReturnStatement>> ELSE <<>>

Tested(s) == [kind |-> "test", of |-> s]

=============================================================================
