------------------------------- MODULE Execution -------------------------------
(***************************************************************************)
(* What executing a function means: its statements one after the other, a  *)
(* branch of an if, the body of a while again and again.  A condition goes *)
(* either way each time it is tested, and after all that a function has    *)
(* still to do, it returns.                                                *)
(***************************************************************************)
EXTENDS Statements

VARIABLES
    program,  \* its function declarations
    todo,     \* what the function that runs has still to do
    event,    \* what was done last
    beat      \* flips with every event: a second one like the first is a step

executionVars == <<program, todo, event, beat>>

Functions == UNION {FunctionsIn(program[i]) : i \in DOMAIN program}

-----------------------------------------------------------------------------
Init == todo = <<>> /\ event = <<"none">> /\ beat = FALSE

Does(what) == event' = what /\ beat' = ~beat /\ UNCHANGED program

Start(f) ==
    /\ event = <<"none">>
    /\ todo' = Unfolded(<<f.body>> \o AtEnd(f))
    /\ Does(<<"started", f.name>>)

Doing(kinds) == todo # <<>> /\ Head(todo).kind \in kinds

Act ==
    /\ Doing({"act"})
    /\ todo' = Unfolded(Tail(todo))
    /\ Does(<<"did", Head(todo).name>>)

Compute ==
    /\ Doing({"if", "while"})
    /\ Head(todo).computed
    /\ todo' = <<Tested(Head(todo))>> \o Tail(todo)
    /\ Does(<<"computed", Head(todo).name>>)

(* The if or while whose condition is tested next. *)
Deciding ==
    IF Doing({"test"}) THEN {Head(todo).of}
    ELSE IF Doing({"if", "while"}) /\ ~Head(todo).computed THEN {Head(todo)}
    ELSE {}

Chosen(s, holds) ==
    IF s.kind = "while" THEN IF holds THEN <<s.body, s>> ELSE <<>>
    ELSE IF holds THEN <<s.then>> ELSE <<s.else>>

Test ==
    \E s \in Deciding, holds \in BOOLEAN :
        /\ todo' = Unfolded(Chosen(s, holds) \o Tail(todo))
        /\ Does(<<"tested", s.name, holds>>)

Return ==
    /\ Doing({"return"})
    /\ todo' = <<>>
    /\ Does(<<"returned">>)

Step == Act \/ Compute \/ Test \/ Return

(* WF_executionVars(Step): as long as something is left to do, a step is   *)
(* possible.                                                               *)
GoesOn == []<>(todo = <<>>) \/ []<><<Step>>_executionVars

Spec == Init /\ [][Step \/ \E f \in Functions : Start(f)]_executionVars /\ GoesOn

=============================================================================
