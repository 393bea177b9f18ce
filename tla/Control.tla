-------------------------------- MODULE Control --------------------------------
(***************************************************************************)
(* How statements become operations, labels and jumps (ir.c), how these    *)
(* lie in the lines of the assembly file (codegen.c), and what a processor *)
(* does with them.                                                         *)
(*                                                                         *)
(* Functions are generated one after the other; a function declared inside *)
(* another one is finished before it.  The operations are executed as they *)
(* follow each other in the file, whether or not nasm takes its lines.     *)
(***************************************************************************)
EXTENDS Statements

CONSTANTS
    Programs  \* the programs: sequences of function declarations

VARIABLES
    program,
    index,      \* the next top-level declaration
    functions,  \* ir->functions
    nextLabel,  \* ir->next_label
    phase,      \* "analyze", "generate", "written" or "rejected"
    text,       \* the assembly file, an operation after the other
    left,       \* what is left to be done at each of them, by the statements
    pc,         \* the operation executed next, 0 if none is
    event,      \* what the execution did last
    beat        \* flips with every event

vars == <<program, index, functions, nextLabel, phase, text, left, pc, event, beat>>

Init ==
    /\ program \in Programs
    /\ index = 1 /\ functions = <<>> /\ nextLabel = 0
    /\ phase = "analyze" /\ text = <<>> /\ left = <<>>
    /\ pc = 0 /\ event = <<"none">> /\ beat = FALSE

-----------------------------------------------------------------------------
(* semantic.c: functions with a result return on every path. *)

RECURSIVE AlwaysReturns(_)
AlwaysReturns(s) ==
    CASE s.kind = "return" -> TRUE
      [] s.kind = "block"  -> \E i \in DOMAIN s.statements : AlwaysReturns(s.statements[i])
      [] s.kind = "if"     -> s.hasElse /\ AlwaysReturns(s.then) /\ AlwaysReturns(s.else)
      [] OTHER             -> FALSE

RECURSIVE ReturnsWhereItMust(_)
ReturnsWhereItMust(s) ==
    CASE s.kind = "function" -> (s.void \/ AlwaysReturns(s.body)) /\ ReturnsWhereItMust(s.body)
      [] s.kind = "block"    -> \A i \in DOMAIN s.statements : ReturnsWhereItMust(s.statements[i])
      [] s.kind = "if"       -> ReturnsWhereItMust(s.then) /\ ReturnsWhereItMust(s.else)
      [] s.kind = "while"    -> ReturnsWhereItMust(s.body)
      [] OTHER               -> TRUE

Analyze ==
    /\ phase = "analyze"
    /\ phase' = IF \A i \in DOMAIN program : ReturnsWhereItMust(program[i])
                THEN "generate" ELSE "rejected"
    /\ UNCHANGED <<program, index, functions, nextLabel, text, left, pc, event, beat>>

-----------------------------------------------------------------------------
(* ir.c.  g holds the operations of the function that is generated, the     *)
(* functions that are finished, and the next label.                         *)

Op(code, name, to) == [code |-> code, name |-> name, to |-> to]
Emit(g, op) == [g EXCEPT !.ops = Append(@, op)]

Label(n) == Op("label", "", n)
Jump(n) == Op("jmp", "", n)
JumpIfNot(name, n) == Op("jz", name, n)
ReturnOp == Op("return", "", 0)

(* Mutant: labels are not used up. *)
SameLabel(g) == g

(* new_label; the label is g.label. *)
NewLabel(g) == [g EXCEPT !.label = @ + 1]

Condition(g, s) == IF s.computed THEN Emit(g, Op("compute", s.name, 0)) ELSE g

(* Mutant: any return will do. *)
HasReturn(ops) == \E i \in DOMAIN ops : ops[i] = ReturnOp

EndsWithReturn(ops) == ops # <<>> /\ ops[Len(ops)] = ReturnOp

RECURSIVE GenerateStatement(_, _), GenerateBlock(_, _)

GenerateIf(g, s) ==
    LET cond   == Condition(g, s)
        else   == cond.label
        end    == cond.label + 1
        labels == IF s.hasElse THEN NewLabel(NewLabel(cond)) ELSE NewLabel(cond)
        then   == GenerateStatement(Emit(labels, JumpIfNot(s.name, else)), s.then)
        other  == GenerateStatement(Emit(Emit(then, Jump(end)), Label(else)), s.else)
    IN  IF s.hasElse THEN Emit(other, Label(end)) ELSE Emit(then, Label(else))

(* Mutant: the condition is computed before the loop. *)
WhileComputedOnce(g, s) ==
    LET cond  == Condition(g, s)
        start == cond.label
        end   == cond.label + 1
        top   == Emit(NewLabel(NewLabel(cond)), Label(start))
        body  == GenerateStatement(Emit(top, JumpIfNot(s.name, end)), s.body)
    IN  Emit(Emit(body, Jump(start)), Label(end))

GenerateWhile(g, s) ==
    LET start == g.label
        end   == g.label + 1
        top   == Emit(NewLabel(NewLabel(g)), Label(start))
        body  == GenerateStatement(Emit(Condition(top, s), JumpIfNot(s.name, end)), s.body)
    IN  Emit(Emit(body, Jump(start)), Label(end))

GenerateBlock(g, statements) ==
    IF statements = <<>> THEN g
    ELSE GenerateBlock(GenerateStatement(g, Head(statements)), Tail(statements))

GenerateFunction(g, f) ==
    LET body == GenerateStatement([g EXCEPT !.ops = <<>>], f.body)
        ops  == IF f.void /\ ~EndsWithReturn(body.ops) THEN Append(body.ops, ReturnOp)
                ELSE body.ops
    IN  [body EXCEPT !.ops = g.ops,
                     !.functions = Append(@, [name |-> f.name, ops |-> ops])]

GenerateStatement(g, s) ==
    CASE s.kind = "act"      -> Emit(g, Op("act", s.name, 0))
      [] s.kind = "return"   -> Emit(g, ReturnOp)
      [] s.kind = "block"    -> GenerateBlock(g, s.statements)
      [] s.kind = "if"       -> GenerateIf(g, s)
      [] s.kind = "while"    -> GenerateWhile(g, s)
      [] s.kind = "function" -> GenerateFunction(g, s)
      [] OTHER               -> g

(* sf_ir_generate, a declaration at a time. *)
GenerateDecl ==
    /\ phase = "generate"
    /\ index <= Len(program)
    /\ LET g == GenerateStatement([ops |-> <<>>, functions |-> functions, label |-> nextLabel],
                                  program[index])
       IN  functions' = g.functions /\ nextLabel' = g.label
    /\ index' = index + 1
    /\ UNCHANGED <<program, phase, text, left, pc, event, beat>>

-----------------------------------------------------------------------------
(* What the statements leave to be done at each operation generated for     *)
(* them.  LeftAt is for a statement that `rest' follows.                    *)

RECURSIVE LeftAt(_, _), LeftInBlock(_, _)

AtCondition(s, rest) ==
    IF s.computed THEN <<<<s>> \o rest, <<Tested(s)>> \o rest>> ELSE <<<<s>> \o rest>>

LeftInBlock(statements, rest) ==
    IF statements = <<>> THEN <<>>
    ELSE LeftAt(Head(statements), Unfolded(Tail(statements) \o rest))
         \o LeftInBlock(Tail(statements), rest)

LeftAt(s, rest) ==
    CASE s.kind \in Idle -> <<>>
      [] s.kind = "block" -> LeftInBlock(s.statements, rest)
      [] s.kind = "if" ->
            AtCondition(s, rest) \o LeftAt(s.then, rest)
            \o (IF s.hasElse
                THEN <<rest, Unfolded(<<s.else>> \o rest)>> \o LeftAt(s.else, rest)
                ELSE <<>>)
            \o <<rest>>
      [] s.kind = "while" ->
            LET again == <<s>> \o rest
            IN  <<again>> \o AtCondition(s, rest) \o LeftAt(s.body, again) \o <<again, rest>>
      [] OTHER -> <<<<s>> \o rest>>

LeftInFunction(f) ==
    LET body == LeftAt(f.body, AtEnd(f))
    IN  IF f.void THEN Append(body, AtEnd(f)) ELSE body

FunctionNamed(name) ==
    CHOOSE f \in UNION {FunctionsIn(program[i]) : i \in DOMAIN program} : f.name = name

(* For each operation of the text; an entry is before its function.         *)
LeftInText(fs) ==
    LET upTo[i \in 0 .. Len(fs)] ==
            IF i = 0 THEN <<>>
            ELSE upTo[i - 1] \o <<<<>>>>
                 \o SubSeq(LeftInFunction(FunctionNamed(fs[i].name)), 1, Len(fs[i].ops))
    IN  upTo[Len(fs)]

-----------------------------------------------------------------------------
(* The file that codegen.c writes: a function's entry, then its operations. *)

FunctionText(f) == <<Op("entry", f.name, 0)>> \o f.ops

AssemblyOf(fs) ==
    LET upTo[i \in 0 .. Len(fs)] == IF i = 0 THEN <<>> ELSE upTo[i - 1] \o FunctionText(fs[i])
    IN  upTo[Len(fs)]

(* sf_generate_assembly *)
GenerateAssembly ==
    /\ phase = "generate"
    /\ index > Len(program)
    /\ text' = AssemblyOf(functions)
    /\ left' = LeftInText(functions)
    /\ phase' = "written"
    /\ UNCHANGED <<program, index, functions, nextLabel, pc, event, beat>>

(* The entry of the function that the i-th operation belongs to. *)
EntryOf(i) ==
    CHOOSE e \in 1 .. i : text[e].code = "entry" /\ \A j \in e + 1 .. i : text[j].code # "entry"

(* Where .L<to> is: a label that begins with a dot is its function's own.   *)
Targets(i) == {j \in DOMAIN text : text[j] = Label(text[i].to) /\ EntryOf(j) = EntryOf(i)}

(* emit_label ends no line, so that a label stands before what follows; a   *)
(* function's entry begins a line of its own.                               *)
SharesLine(i) == text[i].code = "label" /\ i < Len(text) /\ text[i + 1].code # "entry"

(* nasm: a line is a label, then an instruction; a label is defined once.   *)
TakenByNasm ==
    /\ \A i \in DOMAIN text : SharesLine(i) => text[i + 1].code # "label"
    /\ \A i \in DOMAIN text :
        text[i].code \in {"label", "jmp", "jz"} => \E j \in DOMAIN text : Targets(i) = {j}

-----------------------------------------------------------------------------
(* The processor. *)

Start(i) ==
    /\ phase = "written"
    /\ event = <<"none">>
    /\ text[i].code = "entry"
    /\ pc' = i + 1
    /\ event' = <<"started", text[i].name>> /\ beat' = ~beat
    /\ UNCHANGED <<program, index, functions, nextLabel, phase, text, left>>

At(codes) == pc \in DOMAIN text /\ text[pc].code \in codes
Target == CHOOSE j \in Targets(pc) : TRUE

Goes(next) == pc' = next /\ UNCHANGED <<program, index, functions, nextLabel, phase, text, left>>
Does(what) == event' = what /\ beat' = ~beat

Act == At({"act"}) /\ Goes(pc + 1) /\ Does(<<"did", text[pc].name>>)
Compute == At({"compute"}) /\ Goes(pc + 1) /\ Does(<<"computed", text[pc].name>>)
Falls == At({"jz"}) /\ Goes(pc + 1) /\ Does(<<"tested", text[pc].name, TRUE>>)
Branches == At({"jz"}) /\ Goes(Target) /\ Does(<<"tested", text[pc].name, FALSE>>)
Jumps == At({"jmp"}) /\ Goes(Target) /\ UNCHANGED <<event, beat>>
Passes == At({"label", "entry"}) /\ Goes(pc + 1) /\ UNCHANGED <<event, beat>>
Returns == At({"return"}) /\ Goes(0) /\ Does(<<"returned">>)

Step == Act \/ Compute \/ Falls \/ Branches \/ Jumps \/ Passes \/ Returns

Ended == (phase = "rejected" \/ event = <<"returned">>) /\ UNCHANGED vars

Next == Analyze \/ GenerateDecl \/ GenerateAssembly \/ (\E i \in DOMAIN text : Start(i)) \/ Step \/ Ended

(* The processor goes on. *)
Spec == Init /\ [][Next]_vars /\ WF_vars(Step)

-----------------------------------------------------------------------------
Left == IF pc \in DOMAIN left THEN left[pc] ELSE <<>>

Source == INSTANCE Execution WITH todo <- Left

(***************************************************************************)
(* RunsAsWritten: a function does what its statements say, in their order, *)
(* and goes on doing it: every branch and loop of the generated code is    *)
(* one of the source, the code of no other function is entered, and no     *)
(* jumps follow each other for ever (generate_if, generate_while,          *)
(* generate_function, ends_with_return).                                   *)
(***************************************************************************)
RunsAsWritten == Source!Spec

-----------------------------------------------------------------------------
(* Where labels meet, said of the statements. *)

RECURSIVE HasCode(_), EndsOpen(_), StartsOpen(_), LabelsMeet(_)

HasCode(s) ==
    s.kind \notin Idle /\ (s.kind = "block" => \E i \in DOMAIN s.statements : HasCode(s.statements[i]))

Coded(s) == {i \in DOMAIN s.statements : HasCode(s.statements[i])}

(* The last operation of its code is a label; the first is.                 *)
EndsOpen(s) ==
    \/ s.kind \in {"if", "while"}
    \/ /\ s.kind = "block"
       /\ \E i \in Coded(s) : EndsOpen(s.statements[i]) /\ \A j \in Coded(s) : j <= i

StartsOpen(s) ==
    \/ s.kind = "while"
    \/ /\ s.kind = "block"
       /\ \E i \in Coded(s) : StartsOpen(s.statements[i]) /\ \A j \in Coded(s) : i <= j

LabelsMeet(s) ==
    CASE s.kind = "block" ->
            \/ \E i \in DOMAIN s.statements : LabelsMeet(s.statements[i])
            \/ \E i, j \in Coded(s) :
                /\ i < j /\ \A k \in Coded(s) : ~(i < k /\ k < j)
                /\ EndsOpen(s.statements[i]) /\ StartsOpen(s.statements[j])
      [] s.kind = "if" ->
            \/ LabelsMeet(s.then)
            \/ ~s.hasElse /\ EndsOpen(s.then)
            \/ s.hasElse /\ (LabelsMeet(s.else) \/ StartsOpen(s.else)
                             \/ EndsOpen(s.else) \/ ~HasCode(s.else))
      [] s.kind \in {"while", "function"} -> LabelsMeet(s.body)
      [] OTHER -> FALSE

(***************************************************************************)
(* RefusedOnlyWhereLabelsMeet: of a program that is accepted, nasm takes   *)
(* the lines unless two constructs begin or end at one place; every jump   *)
(* has its one target (new_label, emit_label).                             *)
(***************************************************************************)
RefusedOnlyWhereLabelsMeet ==
    phase = "written" /\ pc = 0 =>
        (TakenByNasm \/ \E i \in DOMAIN program : \E f \in FunctionsIn(program[i]) :
                                    LabelsMeet(f.body))

(***************************************************************************)
(* AcceptedIsAssembled: what the compiler accepts, nasm takes: branches    *)
(* can be combined as doc/compiler/if-else.md says.  The end of an else-if *)
(* is the end of the if as well, and their labels share a line.            *)
(***************************************************************************)
AcceptedIsAssembled == phase = "written" => TakenByNasm

=============================================================================
