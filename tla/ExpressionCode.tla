--------------------------- MODULE ExpressionCode ---------------------------
(* One statement from its syntax tree to its effect: the compiler types it,   *)
(* generates the operations of ir.c and the instructions of codegen.c, and a  *)
(* machine runs them. A statement assigns an expression to a variable or      *)
(* returns it. The machine is an x86-64 of narrower values: a byte has        *)
(* Bits[1] bits; a write of 4 bytes to a register clears the rest and a       *)
(* shorter write keeps it; an immediate of an 8-byte operation is the sign    *)
(* extension of 4 bytes, except in a move to a register.                      *)
EXTENDS ExpressionTyping, TLC
LOCAL INSTANCE SequencesExt

CONSTANTS
    Statements,    \* the statements compiled: [kind, types, given, target, value], with
                   \* the types of the variables and those that have a value before
    Inputs,        \* type -> the values its variables may hold before the statement
    Junk           \* what registers and unwritten slots hold

ASSUME CountsFitInCL == Bits[8] <= 2 ^ Bits[1]

VARIABLES
    phase,         \* how far the statement is
    statement,     \* the statement, its nodes typed once it is analysed
    operations,    \* the operations of its function
    inputs,        \* values of the variables before the statement
    machine,       \* registers, stack slots, last comparison, division trap
    pc             \* operations executed

vars == <<phase, statement, operations, inputs, machine, pc>>

(* ---------------------------------------------------- operations, ir.c *)

None == [place |-> <<"none", 0>>, type |-> "unresolved"]
Immediate(v, t) == [place |-> <<"immediate", v>>, type |-> t]
Variable(n, t) == [place |-> <<"variable", n>>, type |-> t]
Temporary(id, t) == [place |-> <<"temporary", id>>, type |-> t]
Function(f) == [place |-> <<"function", f>>, type |-> Declared[f].result]

Operation(opcode, dst, left, right) ==
    [opcode |-> opcode, dst |-> dst, left |-> left, right |-> right]

(* Where a result goes: the operand the caller asks for, or a new temporary. *)
ReusedTemporary(next, t) == [value |-> Temporary(next, t), next |-> next]
NewTemporary(next, t) == [value |-> Temporary(next, t), next |-> next + 1]

Destination(hint, next, t) ==
    IF hint # None THEN [value |-> hint, next |-> next] ELSE NewTemporary(next, t)

GeneratedIncrement(e, next) ==
    LET v == Variable(e.operand.name, e.type)
        updated == NewTemporary(next, e.type)
        result == IF e.op \in {"x++", "x--"} THEN NewTemporary(updated.next, e.type) ELSE updated
        opcode == IF e.op \in {"x++", "++x"} THEN "+" ELSE "-"
    IN  [code |-> (IF result = updated THEN <<>>
                   ELSE <<Operation("assign", result.value, v, None)>>)
                  \o <<Operation(opcode, updated.value, v, Immediate(1, e.type)),
                       Operation("assign", v, updated.value, None)>>,
         value |-> result.value, next |-> result.next]

Then(g, opcode, dst, left, right) ==
    [code |-> Append(g, Operation(opcode, dst.value, left, right)),
     value |-> dst.value, next |-> dst.next]

RECURSIVE Generated(_, _, _)
Generated(e, hint, next) ==
    CASE e.node \in {"integer", "boolean"} ->
            [code |-> <<>>, value |-> Immediate(e.value, e.type), next |-> next]
      [] e.node = "identifier" ->
            [code |-> <<>>, value |-> Variable(e.name, e.type), next |-> next]
      [] e.node = "unary" /\ e.op \in Increments -> GeneratedIncrement(e, next)
      [] e.node = "unary" /\ e.op \notin Increments ->
            LET g == Generated(e.operand, None, next)
            IN  Then(g.code, e.op, Destination(hint, g.next, e.type), g.value, None)
      [] e.node = "cast" ->
            LET g == Generated(e.operand, None, next)
            IN  Then(g.code, "cast", Destination(hint, g.next, e.type), g.value, None)
      [] e.node = "call" ->
            LET g == Generated(e.argument, None, next)
            IN  Then(g.code, "call", Destination(hint, g.next, e.type), g.value, Function(e.callee))
      [] e.node = "binary" ->
            LET l == Generated(e.left, None, next)
                r == Generated(e.right, None, l.next)
            IN  Then(l.code \o r.code, e.op, Destination(hint, r.next, e.type), l.value, r.value)

GeneratedStatement(s) ==
    LET dst == Variable(s.target, s.types[s.target])
        assigned == Generated(s.value, dst, 0)
        returned == Generated(s.value, None, 0)
    IN  CASE s.kind = "assign" ->
                IF assigned.value = dst THEN assigned.code
                ELSE Append(assigned.code, Operation("assign", dst, assigned.value, None))
          [] s.kind = "return" ->
                Append(returned.code, Operation("return", None, returned.value, None))

(* ----------------------------------------------- instructions, codegen.c *)

Register(name, size) == [place |-> <<"register", name>>, size |-> size]
A(size) == Register("a", size)
C(size) == Register("c", size)
Nothing == [place |-> <<"none", 0>>, size |-> 0]

IsImmediate(o) == o.place[1] = "immediate"
IsSlot(o) == o.place[1] \in {"variable", "temporary"}

(* format_operand: a slot with the size of the operand's type. *)
Formatted(o) ==
    [place |-> o.place, size |-> IF IsImmediate(o) THEN 0 ELSE Size(o.type)]

Instruction(mnemonic, to, from) == [mnemonic |-> mnemonic, to |-> to, from |-> from]
Move(to, from) == Instruction("mov", to, from)

LargeAsUnsigned(o, size) == IsImmediate(o) /\ size = 8 /\ ~Fits("u32", o.place[2])
Large(o, size) == IsImmediate(o) /\ size = 8 /\ ~Fits("i32", o.place[2])

(* A large immediate goes through rcx. *)
Loaded(o, size) == IF Large(o, size) THEN <<Move(C(8), Formatted(o))>> ELSE <<>>
Source(o, size) == IF Large(o, size) THEN C(8) ELSE Formatted(o)

(* Load into the accumulator, work on it there, and store it. *)
Through(size, first, work, dst) ==
    <<Move(A(size), Formatted(first))>> \o work \o <<Move(Formatted(dst), A(size))>>

EmittedBinary(o, mnemonic) ==
    LET size == Size(o.dst.type)
    IN  Loaded(o.right, size) \o
        IF Formatted(o.dst) = Formatted(o.left) /\ ~IsSlot(o.right)
        THEN <<Instruction(mnemonic, Formatted(o.dst), Source(o.right, size))>>
        ELSE Through(size, o.left, <<Instruction(mnemonic, A(size), Source(o.right, size))>>, o.dst)

InCounter(o, size) == IF IsImmediate(o) THEN <<Move(C(size), Formatted(o))>> ELSE <<>>
CounterOr(o, size) == IF IsImmediate(o) THEN C(size) ELSE Formatted(o)

EmittedMult(o) ==
    LET size == Size(o.dst.type)
        mnemonic == IF o.dst.type \in SignedTypes THEN "imul" ELSE "mul"
    IN  IF size = 1
        THEN Through(1, o.left, InCounter(o.right, 1) \o
                     <<Instruction(mnemonic, Nothing, CounterOr(o.right, 1))>>, o.dst)
        ELSE Loaded(o.right, size) \o
             Through(size, o.left, <<Instruction("imul", A(size), Source(o.right, size))>>, o.dst)

(* cbw, cwd, cdq and cqo, or a zero in their place. *)
DividendExtension(size, signed) ==
    Instruction(IF signed THEN "extend_sign" ELSE "extend_zero", A(size), Nothing)

EmittedDiv(o) ==
    LET size == Size(o.dst.type)
        signed == o.dst.type \in SignedTypes
    IN  Through(size, o.left,
                <<DividendExtension(size, signed)>> \o InCounter(o.right, size) \o
                <<Instruction(IF signed THEN "idiv" ELSE "div", Nothing, CounterOr(o.right, size))>>,
                o.dst)

(* emit_neg and emit_not, which for a bool inverts the lowest bit. *)
EmittedUnary(o) ==
    LET size == Size(o.dst.type)
        On(target) == CASE o.opcode = "neg" -> Instruction("neg", target, Nothing)
                        [] o.opcode = "~" -> Instruction("not", target, Nothing)
                        [] o.opcode = "!" -> Instruction("xor", target, Formatted(Immediate(1, "bool")))
    IN  IF Formatted(o.dst) = Formatted(o.left) THEN <<On(Formatted(o.dst))>>
        ELSE Through(size, o.left, <<On(A(size))>>, o.dst)

CounterOfResult(o) == C(Size(o.dst.type))
CounterRegister(o) == C(Size(o.right.type))

EmittedShift(o) ==
    LET size == Size(o.dst.type)
        mnemonic == IF o.opcode = "<<" THEN "shl"
                    ELSE IF o.dst.type \in SignedTypes THEN "sar" ELSE "shr"
    IN  Through(size, o.left,
                IF IsImmediate(o.right)
                THEN <<Instruction(mnemonic, A(size), Formatted(o.right))>>
                ELSE <<Move(CounterRegister(o), Formatted(o.right)),
                       Instruction(mnemonic, A(size), C(1))>>,
                o.dst)

Extending(size, type) ==
    IF type \in SignedTypes THEN (IF size = 4 THEN "movsxd" ELSE "movsx") ELSE "movzx"

EmittedConvert(o) ==
    LET from == Size(o.left.type)
        to == Size(o.dst.type)
    IN  CASE IsImmediate(o.left) \/ from = to -> Through(to, o.left, <<>>, o.dst)
          [] ~IsImmediate(o.left) /\ from > to ->
                <<Move(A(from), Formatted(o.left)), Move(Formatted(o.dst), A(to))>>
          [] ~IsImmediate(o.left) /\ from < to ->
                <<IF from = 4 /\ o.left.type \notin SignedTypes
                  THEN Move(A(4), Formatted(o.left))
                  ELSE Instruction(Extending(from, o.left.type), A(to), Formatted(o.left)),
                  Move(Formatted(o.dst), A(to))>>

EmittedAssign(o) == IF Formatted(o.left) = Formatted(o.dst) THEN <<>> ELSE EmittedConvert(o)

SetSigned(opcode, type) ==
    Instruction("set_signed", A(1), [place |-> <<"condition", opcode>>, size |-> 0])

SetInstruction(opcode, type) ==
    Instruction(IF type \in SignedTypes THEN "set_signed" ELSE "set_unsigned",
                A(1), [place |-> <<"condition", opcode>>, size |-> 0])

EmittedRelational(o) ==
    LET size == Size(o.left.type)
    IN  Loaded(o.right, size) \o
        <<Move(A(size), Formatted(o.left)),
          Instruction("cmp", A(size), Source(o.right, size)),
          SetInstruction(o.opcode, o.left.type),
          Move(Formatted(o.dst), A(1))>>

EmittedReturn(o) == <<Move(A(Size(o.left.type)), Formatted(o.left))>>

EmittedCall(o) ==
    LET size == Size(o.left.type)
        argument == Register("di", IF size <= 2 THEN 4 ELSE size)
        extends == size <= 2 /\ ~IsImmediate(o.left)
    IN  <<Instruction(IF extends THEN Extending(size, o.left.type) ELSE "mov",
                      argument, Formatted(o.left)),
          Instruction("call", Nothing, [place |-> o.right.place, size |-> 0]),
          Move(Formatted(o.dst), A(Size(o.dst.type)))>>

Emitted(o) ==
    CASE o.opcode = "+" -> EmittedBinary(o, "add")
      [] o.opcode = "-" -> EmittedBinary(o, "sub")
      [] o.opcode \in {"&", "&&"} -> EmittedBinary(o, "and")
      [] o.opcode \in {"|", "||"} -> EmittedBinary(o, "or")
      [] o.opcode = "^" -> EmittedBinary(o, "xor")
      [] o.opcode = "*" -> EmittedMult(o)
      [] o.opcode = "/" -> EmittedDiv(o)
      [] o.opcode \in {"neg", "~", "!"} -> EmittedUnary(o)
      [] o.opcode \in Shifts -> EmittedShift(o)
      [] o.opcode \in Relational -> EmittedRelational(o)
      [] o.opcode = "assign" -> EmittedAssign(o)
      [] o.opcode = "cast" -> EmittedConvert(o)
      [] o.opcode = "call" -> EmittedCall(o)
      [] o.opcode = "return" -> EmittedReturn(o)

(* ------------------------------------------------------------ the machine *)

(* What nasm accepts: operands of one size, one of them not in memory;        *)
(* extensions to a larger size; no two-operand product of bytes.              *)
Assembled(i) ==
    CASE i.mnemonic \in {"mov", "add", "sub", "and", "or", "xor", "cmp", "imul"}
         /\ i.to # Nothing ->
            /\ ~IsImmediate(i.to)
            /\ IsImmediate(i.from) \/ i.from.size = i.to.size
            /\ ~(IsSlot(i.to) /\ IsSlot(i.from))
            /\ i.mnemonic = "imul" => i.to.size # 1
      [] i.mnemonic \in {"movsx", "movzx"} -> i.from.size \in {1, 2} /\ i.to.size > i.from.size
      [] i.mnemonic = "movsxd" -> i.from.size = 4 /\ i.to.size = 8
      [] i.mnemonic \in {"idiv", "div", "mul"} \/ (i.mnemonic = "imul" /\ i.to = Nothing) ->
            ~IsImmediate(i.from)
      [] OTHER -> TRUE

Low(v, size) == v % Modulus(size)

AsSigned(v, size) ==
    IF v < Modulus(size) \div 2 THEN v ELSE v - Modulus(size)

Slot(m, place) == IF place \in DOMAIN m.slots THEN m.slots[place] ELSE Junk

(* The bits an operand gives an instruction that works on size bytes. *)
Read(m, o, size) ==
    CASE IsImmediate(o) -> Low(o.place[2], size)
      [] IsSlot(o) -> Low(Slot(m, o.place), o.size)
      [] OTHER -> Low(m.registers[o.place[2]], o.size)

Extended32(o, v) == IF IsImmediate(o) THEN Low(AsSigned(Low(v, 4), 4), 8) ELSE v

Write(m, o, v) ==
    IF IsSlot(o) THEN [m EXCEPT !.slots = (o.place :> Low(v, o.size)) @@ @]
    ELSE [m EXCEPT !.registers[o.place[2]] =
            IF o.size >= 4 THEN Low(v, o.size)
            ELSE @ - Low(@, o.size) + Low(v, o.size)]

(* Quotient and remainder of the double-width dividend; a zero divisor and a *)
(* quotient out of range trap. A byte divides ax and leaves ah:al.            *)
Divided(m, signed, divisor, size) ==
    LET high == IF size = 1 THEN Low(m.registers["a"], 2) \div Modulus(1)
                ELSE Low(m.registers["d"], size)
        pattern == high * Modulus(size) + Low(m.registers["a"], size)
        dividend == IF signed /\ high >= Modulus(size) \div 2
                    THEN pattern - Modulus(size) ^ 2 ELSE pattern
        by == IF signed THEN AsSigned(divisor, size) ELSE divisor
        range == IF signed THEN -(Modulus(size) \div 2) .. (Modulus(size) \div 2) - 1
                 ELSE 0 .. Modulus(size) - 1
    IN  IF by = 0 \/ Quotient(dividend, by) \notin range THEN [m EXCEPT !.trapped = TRUE]
        ELSE LET q == Low(Quotient(dividend, by), size)
                 r == Low(dividend - by * Quotient(dividend, by), size)
             IN  IF size = 1 THEN Write(m, A(2), r * Modulus(1) + q)
                 ELSE Write(Write(m, A(size), q), Register("d", size), r)

DividendExtended(m, signed, size) ==
    LET a == Low(m.registers["a"], size)
        high == IF signed /\ a >= Modulus(size) \div 2 THEN Modulus(size) - 1 ELSE 0
    IN  IF size = 1 THEN Write(m, A(2), high * Modulus(1) + a)
        ELSE Write(m, Register("d", size), high)

(* A function of one parameter that returns it: its prologue stores the       *)
(* parameter register and emit_return loads the slot.                         *)
Called(m, f) ==
    LET size == Size(Declared[f].parameter)
    IN  Write(m, A(size), Low(m.registers["di"], size))

Executed(m, i) ==
    LET size == IF i.to # Nothing THEN i.to.size ELSE i.from.size
        left == Read(m, i.to, size)
        from == Read(m, i.from, size)
        right == IF size = 8 THEN Extended32(i.from, from) ELSE from
        count == Read(m, i.from, 1)
        Into(v) == Write(m, i.to, v)
        Condition(Value(_, _)) ==
            Compared(i.from.place[2], Value(m.compared[1], m.compared[3]),
                                      Value(m.compared[2], m.compared[3]))
    IN  CASE m.trapped -> m
          [] i.mnemonic = "mov" -> Into(from)
          [] i.mnemonic = "movzx" -> Into(from)
          [] i.mnemonic \in {"movsx", "movsxd"} -> Into(AsSigned(from, i.from.size))
          [] i.mnemonic = "add" -> Into(left + right)
          [] i.mnemonic = "sub" -> Into(left - right)
          [] i.mnemonic = "and" -> Into(left & right)
          [] i.mnemonic = "or" -> Into(left | right)
          [] i.mnemonic = "xor" -> Into(left ^^ right)
          [] i.mnemonic = "not" -> Into(-left - 1)
          [] i.mnemonic = "neg" -> Into(-left)
          [] i.mnemonic = "shl" -> Into(left * 2 ^ count)
          [] i.mnemonic = "shr" -> Into(left \div 2 ^ count)
          [] i.mnemonic = "sar" -> Into(AsSigned(left, size) \div 2 ^ count)
          [] i.mnemonic = "imul" /\ i.to # Nothing -> Into(left * right)
          [] i.mnemonic \in {"imul", "mul"} /\ i.to = Nothing ->
                Write(m, A(2), Low(m.registers["a"], 1) * from)
          [] i.mnemonic = "idiv" -> Divided(m, TRUE, from, size)
          [] i.mnemonic = "div" -> Divided(m, FALSE, from, size)
          [] i.mnemonic = "extend_sign" -> DividendExtended(m, TRUE, size)
          [] i.mnemonic = "extend_zero" -> DividendExtended(m, FALSE, size)
          [] i.mnemonic = "cmp" -> [m EXCEPT !.compared = <<left, right, size>>]
          [] i.mnemonic = "set_signed" -> Into(IF Condition(AsSigned) THEN 1 ELSE 0)
          [] i.mnemonic = "set_unsigned" -> Into(IF Condition(Low) THEN 1 ELSE 0)
          [] i.mnemonic = "call" -> Called(m, i.from.place[2])

(* ------------------------------------------------------------------ steps *)

Blank == [registers |-> [r \in {"a", "c", "d", "di"} |-> Junk], slots |-> <<>>,
          compared |-> <<0, 0, 1>>, trapped |-> FALSE]

Init ==
    /\ statement \in Statements
    /\ phase = "parsed"
    /\ operations = <<>> /\ inputs = <<>> /\ machine = Blank /\ pc = 0

WantedType(s) == IF s.kind = "assign" THEN s.types[s.target] ELSE s.target

Accepted(s) ==
    {x \in Analysed(s.value, s.types, WantedType(s)) : Assignable(x.type, WantedType(s))}

Analyse ==
    /\ phase = "parsed"
    /\ \/ /\ Accepted(statement) = {}
          /\ phase' = "rejected"
          /\ UNCHANGED statement
       \/ \E x \in Accepted(statement) :
             /\ statement' = [statement EXCEPT !.value = x]
             /\ phase' = "analysed"
    /\ UNCHANGED <<operations, inputs, machine, pc>>

Generate ==
    /\ phase = "analysed"
    /\ phase' = "generated"
    /\ operations' = GeneratedStatement(statement)
    /\ UNCHANGED <<statement, inputs, machine, pc>>

Instructions == UNION {{Emitted(operations[n])[k] : k \in DOMAIN Emitted(operations[n])} :
                           n \in DOMAIN operations}

Assemble ==
    /\ phase = "generated"
    /\ phase' = IF \A i \in Instructions : Assembled(i) THEN "assembled" ELSE "not assembled"
    /\ UNCHANGED <<statement, operations, inputs, machine, pc>>

Start ==
    /\ phase = "assembled"
    /\ phase' = "running"
    /\ inputs' \in {v \in [statement.given -> UNION {Inputs[t] : t \in Types}] :
                       \A n \in statement.given : v[n] \in Inputs[statement.types[n]]}
    /\ machine' = [machine EXCEPT !.slots =
                     [place \in {<<"variable", n>> : n \in statement.given} |->
                         Low(inputs'[place[2]], Size(statement.types[place[2]]))]]
    /\ UNCHANGED <<statement, operations, pc>>

Execute ==
    /\ phase = "running"
    /\ pc < Len(operations) /\ ~machine.trapped
    /\ pc' = pc + 1
    /\ machine' = FoldLeft(Executed, machine, Emitted(operations[pc + 1]))
    /\ UNCHANGED <<phase, statement, operations, inputs>>

Done == phase = "running" /\ pc = Len(operations) /\ ~machine.trapped

(* A statement ends when it was refused, trapped or is done. *)
Ended ==
    /\ phase \in {"rejected", "not assembled"} \/ Done \/ machine.trapped
    /\ UNCHANGED vars

Next == Analyse \/ Generate \/ Assemble \/ Start \/ Execute \/ Ended

Spec == Init /\ [][Next]_vars

(* ---------------------------------------------------------------- meaning *)

(* The value of a typed expression and the variables after it, in the         *)
(* integers: operands from left to right, results wrapped to the node's type. *)
(* Division by zero, a quotient or a shift count out of range, and a shift of *)
(* a bool have no meaning.                                                     *)
Result(t, op, l, r) ==
    CASE op = "+" -> Wrapped(t, l + r)
      [] op = "-" -> Wrapped(t, l - r)
      [] op = "*" -> Wrapped(t, l * r)
      [] op = "/" -> Quotient(l, r)
      [] op = "<<" -> Wrapped(t, l * 2 ^ r)
      [] op = ">>" -> l \div 2 ^ r
      [] op \in Bitwises \cup Logical ->
            Wrapped(t, BitsOf(op, l % Modulus(Size(t)), r % Modulus(Size(t))))
      [] op \in Relational -> IF Compared(op, l, r) THEN 1 ELSE 0

HasResult(t, op, l, r) ==
    CASE op = "/" -> r # 0 /\ Fits(t, Quotient(l, r))
      [] op \in Shifts -> t # "bool" /\ r \in 0 .. Bits[Size(t)] - 1
      [] OTHER -> TRUE

RECURSIVE Meaning(_, _)
Meaning(e, env) ==
    CASE e.node \in {"integer", "boolean"} -> [value |-> e.value, env |-> env, defined |-> TRUE]
      [] e.node = "identifier" -> [value |-> env[e.name], env |-> env, defined |-> TRUE]
      [] e.node = "unary" /\ e.op \in Increments ->
            LET old == env[e.operand.name]
                new == Wrapped(e.type, IF e.op \in {"x++", "++x"} THEN old + 1 ELSE old - 1)
            IN  [value |-> IF e.op \in {"x++", "x--"} THEN old ELSE new,
                 env |-> [env EXCEPT ![e.operand.name] = new], defined |-> TRUE]
      [] e.node = "unary" /\ e.op \notin Increments ->
            LET m == Meaning(e.operand, env)
            IN  [m EXCEPT !.value = CASE e.op = "neg" -> Wrapped(e.type, -m.value)
                                      [] e.op = "~" -> Wrapped(e.type, -m.value - 1)
                                      [] e.op = "!" -> 1 - m.value]
      [] e.node = "cast" ->
            LET m == Meaning(e.operand, env)
            IN  [m EXCEPT !.value = Wrapped(e.type, m.value)]
      [] e.node = "call" -> Meaning(e.argument, env)
      [] e.node = "binary" ->
            LET l == Meaning(e.left, env)
                r == Meaning(e.right, l.env)
                defined == /\ l.defined /\ r.defined
                           /\ HasResult(e.type, e.op, l.value, r.value)
            IN  [value |-> IF defined THEN Result(e.type, e.op, l.value, r.value) ELSE 0,
                 env |-> r.env, defined |-> defined]

(* A value computed where a wider one is wanted: the operations take their    *)
(* widths from the place of the result. Plain variables, literals and         *)
(* arguments are converted by an operation of their own.                      *)
RECURSIVE MixedWidths(_)
MixedWidths(e) ==
    CASE e.node = "binary" ->
            \/ MixedWidths(e.left) \/ MixedWidths(e.right)
            \/ e.op \in Additive \cup Bitwises /\ Size(e.left.type) # Size(e.right.type)
      [] e.node \in {"unary", "cast"} -> MixedWidths(e.operand)
      [] e.node = "call" ->
            MixedWidths(e.argument) \/ Size(e.type) # Size(Declared[e.callee].parameter)
      [] OTHER -> FALSE

Computed(e) ==
    \/ e.node \in {"binary", "cast", "call"}
    \/ e.node = "unary" /\ e.op \notin Increments

Widens(s) ==
    \/ MixedWidths(s.value)
    \/ Size(s.value.type) # Size(WantedType(s)) /\ (s.kind = "return" \/ Computed(s.value))

(* A variable operand is read when the operator runs, after the right side    *)
(* has been computed: x + x++ reads the incremented x.                        *)
RECURSIVE Incremented(_)
Incremented(e) ==
    CASE e.node = "binary" -> Incremented(e.left) \cup Incremented(e.right)
      [] e.node = "unary" ->
            (IF e.op \in Increments THEN {e.operand.name} ELSE Incremented(e.operand))
      [] e.node = "cast" -> Incremented(e.operand)
      [] e.node = "call" -> Incremented(e.argument)
      [] OTHER -> {}

RECURSIVE ReadsLate(_)
ReadsLate(e) ==
    CASE e.node = "binary" ->
            \/ ReadsLate(e.left) \/ ReadsLate(e.right)
            \/ e.left.node = "identifier" /\ e.left.name \in Incremented(e.right)
      [] e.node \in {"unary", "cast"} -> ReadsLate(e.operand)
      [] e.node = "call" -> ReadsLate(e.argument)
      [] OTHER -> FALSE

(* ------------------------------------------------------------- properties *)

ValueOf(t, v) == IF t \in SignedTypes THEN AsSigned(Low(v, Size(t)), Size(t)) ELSE Low(v, Size(t))

VariableNow(n) == ValueOf(statement.types[n], Slot(machine, <<"variable", n>>))

(* What the statement has to leave behind. *)
HasEffect ==
    LET m == Meaning(statement.value, inputs)
        returned == ValueOf(statement.target, machine.registers["a"])
    IN  m.defined =>
            /\ ~machine.trapped
            /\ Done =>
                 /\ \A n \in statement.given \ (IF statement.kind = "assign" THEN {statement.target} ELSE {}) :
                        VariableNow(n) = m.env[n]
                 /\ statement.kind = "assign" => VariableNow(statement.target) = m.value
                 /\ statement.kind = "return" => returned = m.value

(* Types: the state is well formed, a temporary has been written by an        *)
(* earlier operation whenever one reads it, and no two operations of an       *)
(* expression write the same temporary (new_temporary, ir.c).                 *)
TypeOK ==
    /\ phase \in {"parsed", "analysed", "generated", "assembled", "running", "rejected", "not assembled"}
    /\ pc \in 0 .. Len(operations)
    /\ \A r \in DOMAIN machine.registers : machine.registers[r] \in 0 .. Modulus(8) - 1
    /\ machine.trapped \in BOOLEAN
    /\ LET written(k) == operations[k].dst.place
            Temporaries == {k \in DOMAIN operations : written(k)[1] = "temporary"}
        IN  /\ \A j, k \in Temporaries : written(j) = written(k) => j = k
            /\ \A k \in DOMAIN operations : \A o \in {operations[k].left, operations[k].right} :
                    o.place[1] = "temporary" => \E j \in Temporaries : j < k /\ written(j) = o.place

(* A statement the compiler accepts gives instructions the assembler accepts: *)
(* registers and memory operands of each have one size (codegen.c).           *)
Assembles == phase = "not assembled" => Widens(statement)

(* What runs is what was written: the variables and the returned value are    *)
(* those the expression means, for every shape, width and signedness, and     *)
(* nothing traps unless a division has no quotient (ir.c and codegen.c).      *)
ComputesMeaning ==
    phase = "running" /\ ~Widens(statement) /\ ~ReadsLate(statement.value) => HasEffect

(* When a warning says that a condition always has one value, the code        *)
(* computes that value (sf_const_warn, semantic_const.c).                     *)
WarningsAreRight ==
    Done /\ statement.kind = "assign" =>
        \A v \in Warned(statement.value) : VariableNow(statement.target) = IF v THEN 1 ELSE 0

(* functions.md: "Implicit casts apply to returned values", with              *)
(* "fn widen(i32 x) i64 { return x; // ok: implicit i32 -> i64 is safe".      *)
ReturnsImplicitCast ==
    phase = "running" /\ statement.kind = "return" => HasEffect

=============================================================================
