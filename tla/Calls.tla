--------------------------------- MODULE Calls ---------------------------------
(***************************************************************************)
(* Calls in the generated code: emit_call, emit_stack_arg, the prologue of *)
(* emit_function and emit_return of codegen.c, executed on a stack of      *)
(* bytes.  Beside the machine, `active' records what the source program    *)
(* means: which functions are active and the value of each of their        *)
(* operands.  The operands of a function are numbered in the order in      *)
(* which sf_stack_populate meets them, so its parameters come first.       *)
(***************************************************************************)
EXTENDS Integers, Sequences, StackLayout

CONSTANTS
    Functions,
    Main,        \* the function _start calls
    Sizes,       \* for each function the sizes of its operands, in order
    ParamCount,  \* how many of them are parameters
    Assigned,    \* the operands that its instructions compute: all but the
                 \* parameters that are not mut
    CallSites,   \* for each function the calls in it: the callee, the
                 \* operands passed and the one that takes the result (or 0)
    Top,         \* bound: rsp when the program starts; a call or a prologue
                 \* that finds no room for what it stores never happens
    MaxDepth     \* bound: functions active at once

Registers == 6

Operands(f) == DOMAIN Sizes[f]

Site(f, s) ==
    /\ DOMAIN s = {"callee", "args", "result"}
    /\ s.callee \in Functions
    /\ s.args \in Seq(Operands(f)) /\ Len(s.args) = ParamCount[s.callee]
    /\ \A i \in DOMAIN s.args : Sizes[f][s.args[i]] = Sizes[s.callee][i]
    /\ s.result \in {0} \cup Operands(f)

ASSUME CallsAssumption ==
    /\ Main \in Functions /\ ParamCount[Main] = 0
    /\ \A f \in Functions : /\ Sizes[f] \in Seq({1, 2, 4, 8})
                            /\ ParamCount[f] \in 0 .. Len(Sizes[f])
                            /\ Assigned[f] \subseteq Operands(f)
                            /\ \A s \in CallSites[f] : Site(f, s)
    /\ Top \in Nat \ {0} /\ Top % 16 = 0
    /\ MaxDepth \in Nat

VARIABLES
    mem,     \* the bytes of the stack
    rsp,
    rbp,
    args,    \* rdi, rsi, rdx, rcx, r8, r9
    rax,
    at,      \* where the machine is: "code", "prologue" or "returned"
    active   \* the active functions, the innermost first

vars == <<mem, rsp, rbp, args, rax, at, active>>

(* A value is known by where it comes from: what a function computed for   *)
(* an operand at some depth, a saved rbp, a return address.                *)
Value(kind, n, o) == <<kind, n, o>>
Junk == Value("junk", 0, 0)
Unset == Value("unset", 0, 0)
ReturnAddress(depth) == Value("return", depth, 0)
Address(a) == Value("rbp", a, 0)

(* Byte number k of a value.                                               *)
Byte(v, k) == <<v, k>>

Depth == Len(active)
Current == active[1]

-----------------------------------------------------------------------------
Stored(m, a, size, v) ==
    [b \in DOMAIN m |-> IF b \in a .. (a + size - 1) THEN Byte(v, b - a) ELSE m[b]]

Loaded(m, a, size) ==
    IF \A k \in 0 .. (size - 1) : m[a + k] = Byte(m[a][1], k) THEN m[a][1] ELSE Junk

(* Nothing below rsp, and no register, is relied on by a later operation:  *)
(* what they hold is forgotten as soon as they are read.                   *)
Forgotten(m, sp) == [b \in DOMAIN m |-> IF b < sp THEN Byte(Junk, 0) ELSE m[b]]

Offset(f) ==
    LET offset[o \in 0 .. Len(Sizes[f])] ==
            IF o = 0 THEN 0 ELSE NextAlignedOffset(offset[o - 1], Sizes[f][o])
    IN  offset

Frame(f) == FrameRounded(Offset(f)[Len(Sizes[f])])

(* Mutant: the whole register is stored, whatever the size of the operand. *)
RegisterStored(m, base, f, o, v) == Stored(m, base - Offset(f)[o], 8, v)

SlotStored(m, base, f, o, v) == Stored(m, base - Offset(f)[o], Sizes[f][o], v)
SlotLoaded(m, base, f, o) == Loaded(m, base - Offset(f)[o], Sizes[f][o])

Started(f, site) ==
    [fn |-> f, base |-> 0, site |-> site, result |-> Unset,
     values |-> [o \in Operands(f) |-> Unset]]

(* _start has called the main function. *)
Init ==
    /\ mem = Stored([b \in 0 .. (Top - 1) |-> Byte(Junk, 0)],
                    Top - 8, 8, ReturnAddress(0))
    /\ rsp = Top - 8
    /\ rbp = 0
    /\ args = <<>>
    /\ rax = Junk
    /\ at = "prologue"
    /\ active = <<Started(Main, 0)>>

-----------------------------------------------------------------------------
(* Mutant: only the saved rbp lies between the frame and the arguments. *)
ArgumentOffsetWithoutReturn(i) == 8 + (i - Registers - 1) * 8

StackArgumentOffset(i) == 16 + (i - Registers - 1) * 8

(* What the prologue finds for parameter i. *)
Incoming(m, base, f, i) ==
    IF i <= Registers
    THEN args[i]
    ELSE Loaded(m, base + StackArgumentOffset(i), Sizes[f][i])

(* The parameters are the caller's arguments. *)
Bound(f) ==
    [o \in Operands(f) |->
        IF o <= ParamCount[f]
        THEN active[2].values[Current.site.args[o]]
        ELSE Unset]

(* The stack m with the first parameters copied to their slots. *)
Copied(m, base, f) ==
    LET copied[i \in 0 .. ParamCount[f]] ==
            IF i = 0 THEN m
            ELSE SlotStored(copied[i - 1], base, f, i, Incoming(copied[i - 1], base, f, i))
    IN  copied

(* The prologue: rbp is saved, the frame reserved, the parameters copied. *)
Prologue ==
    LET f == Current.fn
        base == rsp - 8
    IN  /\ at = "prologue"
        /\ base >= Frame(f)
        /\ mem' = Copied(Stored(mem, base, 8, Address(rbp)), base, f)[ParamCount[f]]
        /\ rbp' = base
        /\ rsp' = base - Frame(f)
        /\ at' = "code"
        /\ active' = [active EXCEPT ![1].base = base, ![1].values = Bound(f)]
        /\ args' = <<>>
        /\ UNCHANGED rax

(* Any instruction that computes the value of an operand. *)
Compute(o) ==
    LET v == Value("computed", Depth, o)
    IN  /\ at = "code"
        /\ mem' = SlotStored(mem, rbp, Current.fn, o, v)
        /\ active' = [active EXCEPT ![1].values[o] = v]
        /\ UNCHANGED <<rsp, rbp, args, rax, at>>

RegisterArguments(s) ==
    SubSeq(s.args, 1, IF Len(s.args) < Registers THEN Len(s.args) ELSE Registers)

StackArguments(s) == SubSeq(s.args, Registers + 1, Len(s.args))

Padding(s) == Len(StackArguments(s)) % 2

(* From sp down the last of the stack arguments, the very last one first. *)
ArgumentsPushed(s, sp) ==
    LET arguments == StackArguments(s)
        pushed[k \in 0 .. Len(arguments)] ==
            IF k = 0 THEN [rsp |-> sp, mem |-> mem]
            ELSE LET m == pushed[k - 1]
                     o == arguments[Len(arguments) + 1 - k]
                 IN  [rsp |-> m.rsp - 8,
                      mem |-> Stored(m.mem, m.rsp - 8, 8,
                                     SlotLoaded(m.mem, rbp, Current.fn, o))]
    IN  pushed

(* Mutant: the padding is put below the arguments. *)
PushedThenPadded(s) ==
    LET pushed == ArgumentsPushed(s, rsp)[Len(StackArguments(s))]
    IN  [pushed EXCEPT !.rsp = @ - 8 * Padding(s)]

(* The stack with the padding and the stack arguments. *)
Pushed(s) == ArgumentsPushed(s, rsp - 8 * Padding(s))[Len(StackArguments(s))]

(* emit_call up to the call instruction. *)
Call(s) ==
    LET stack == Pushed(s)
        inRegisters == RegisterArguments(s)
    IN  /\ at = "code"
        /\ Depth < MaxDepth
        /\ stack.rsp >= 8
        /\ \A i \in DOMAIN s.args : Current.values[s.args[i]] # Unset
        /\ args' = [i \in DOMAIN inRegisters |->
                       SlotLoaded(stack.mem, rbp, Current.fn, inRegisters[i])]
        /\ rsp' = stack.rsp - 8
        /\ mem' = Stored(stack.mem, stack.rsp - 8, 8, ReturnAddress(Depth))
        /\ at' = "prologue"
        /\ active' = <<Started(s.callee, s)>> \o active
        /\ UNCHANGED <<rbp, rax>>

(* emit_return of an operand.  The width at which rax is written here and  *)
(* read by the caller is left out.                                         *)
Return(o) ==
    LET saved == Loaded(mem, rbp, 8)
    IN  /\ at = "code"
        /\ Depth > 1
        /\ Current.values[o] # Unset
        /\ rax' = SlotLoaded(mem, rbp, Current.fn, o)
        /\ rbp' = IF saved[1] = "rbp" THEN saved[2] ELSE 0
        /\ rsp' = rbp + 16
        /\ at' = "returned"
        /\ active' = [active EXCEPT ![1].result = Current.values[o]]
        /\ mem' = Forgotten(mem, rbp + 16)
        /\ UNCHANGED args

(* Mutant: the padding is left on the stack. *)
PoppedWithoutPadding(s) == 8 * Len(StackArguments(s))

Popped(s) == 8 * (Len(StackArguments(s)) + Padding(s))

(* emit_call behind the call instruction. *)
Resume ==
    LET s == Current.site
        caller == active[2]
    IN  /\ at = "returned"
        /\ rsp' = rsp + Popped(s)
        /\ mem' = IF s.result = 0 THEN mem
                  ELSE SlotStored(mem, rbp, caller.fn, s.result, rax)
        /\ rax' = Junk
        /\ active' = IF s.result = 0 THEN Tail(active)
                     ELSE [Tail(active) EXCEPT ![1].values[s.result] = Current.result]
        /\ at' = "code"
        /\ UNCHANGED <<rbp, args>>

(* Main's return ends the program in _start. *)
Next ==
    \/ Prologue
    \/ at = "code" /\ \E o \in Assigned[Current.fn] : Compute(o)
    \/ at = "code" /\ \E s \in CallSites[Current.fn] : Call(s)
    \/ at = "code" /\ \E o \in Operands(Current.fn) : Return(o)
    \/ Resume

Spec == Init /\ [][Next]_vars

-----------------------------------------------------------------------------
(* Functions that have run their prologue and not yet returned. *)
Established ==
    {i \in DOMAIN active : i > 1 \/ at = "code"}

(***************************************************************************)
(* FramesIntact: each operand of each active function is in its slot, with *)
(* the value the source program gives it, whatever the functions called    *)
(* from there do: arguments arrive, results return, no frame is written by *)
(* another function, and rbp is the frame of the function that runs.       *)
(***************************************************************************)
FramesIntact ==
    /\ at = "code" => rbp = Current.base
    /\ \A i \in Established : \A o \in Operands(active[i].fn) :
           active[i].values[o] # Unset =>
               SlotLoaded(mem, active[i].base, active[i].fn, o) = active[i].values[o]

(***************************************************************************)
(* LinksIntact: above each frame lie the caller's rbp and the address      *)
(* behind the call, until emit_return pops them.                           *)
(***************************************************************************)
LinksIntact ==
    \A i \in Established :
        /\ Loaded(mem, active[i].base + 8, 8) = ReturnAddress(Depth - i)
        /\ Loaded(mem, active[i].base, 8) =
               Address(IF i < Depth THEN active[i + 1].base ELSE 0)

(***************************************************************************)
(* StackAligned: the System V convention that functions of C rely on.      *)
(***************************************************************************)
StackAligned ==
    /\ at = "code" => rsp % 16 = 0
    /\ at = "prologue" => (rsp + 8) % 16 = 0

=============================================================================
