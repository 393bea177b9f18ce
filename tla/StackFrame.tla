------------------------------- MODULE StackFrame -------------------------------
(***************************************************************************)
(* The stack frame of one function (stack.c, and frame_size and            *)
(* stack_offset of codegen.c).  sf_stack_populate meets the parameters and *)
(* then the operands of every operation, and gives each name a slot when   *)
(* it first meets it; the instructions emitted afterwards address the      *)
(* slots by name.  An offset from rbp is a negative number in the code and *)
(* its absolute value here.                                                *)
(***************************************************************************)
EXTENDS Naturals, Sequences, StackLayout

CONSTANTS
    Names,            \* variables and temporaries
    Width,            \* bytes of the type of each; 0 for void
    InitialCapacity   \* k_initial_capacity

ASSUME StackFrameAssumption ==
    /\ Width \in [Names -> {0, 1, 2, 4, 8}]
    /\ InitialCapacity \in Nat \ {0}

VARIABLES
    entries,   \* map->entries
    capacity,  \* map->capacity
    next,      \* next_offset
    met,       \* the operands met so far
    frame,     \* what emit_function subtracts from rsp
    phase,     \* "populate", "emit" or "aborted"
    fatal      \* the log has a fatal

vars == <<entries, capacity, next, met, frame, phase, fatal>>

Entry == [name : Names, offset : Nat, size : {1, 2, 4, 8}]

TypeOK ==
    /\ entries \in Seq(Entry)
    /\ capacity \in Nat
    /\ Len(entries) <= capacity
    /\ next \in Nat
    /\ met \subseteq Names
    /\ frame \in Nat
    /\ phase \in {"populate", "emit", "aborted"}
    /\ fatal \in BOOLEAN

Init ==
    /\ entries = <<>>
    /\ capacity = 0
    /\ next = 0
    /\ met = {}
    /\ frame = 0
    /\ phase = "populate"
    /\ fatal = FALSE

-----------------------------------------------------------------------------
HasEntry(name) == \E i \in DOMAIN entries : entries[i].name = name

CapacityGrown == IF capacity = 0 THEN InitialCapacity ELSE capacity * 2

(* Mutant: the map takes one entry more than it has room for. *)
OverFull == Len(entries) > capacity

Full == Len(entries) >= capacity

Met(name) ==
    /\ phase = "populate"
    /\ met' = met \cup {name}

(* add_entry of a name that has a slot already, or no size. *)
NoNewEntry(name) ==
    /\ Met(name)
    /\ HasEntry(name) \/ Width[name] = 0
    /\ UNCHANGED <<entries, capacity, next, frame, phase, fatal>>

NewName(name) == Met(name) /\ ~HasEntry(name) /\ Width[name] # 0

AddEntry(name) ==
    LET offset == NextAlignedOffset(next, Width[name])
    IN  /\ NewName(name)
        /\ capacity' = IF Full THEN CapacityGrown ELSE capacity
        /\ next' = offset
        /\ entries' = Append(entries, [name |-> name, offset |-> offset,
                                       size |-> Width[name]])
        /\ UNCHANGED <<frame, phase, fatal>>

(* Mutant: add_entry returns without a message. *)
ReportsNothing == UNCHANGED fatal

ReportsNoMemory == fatal' = TRUE

(* There is no memory to grow the map, or to copy the name. *)
AddEntryFails(name) ==
    /\ NewName(name)
    /\ \/ Full /\ UNCHANGED capacity
       \/ capacity' = IF Full THEN CapacityGrown ELSE capacity
    /\ ReportsNoMemory
    /\ UNCHANGED <<entries, next, frame, phase>>

-----------------------------------------------------------------------------
DeepestOffset ==
    CHOOSE n \in {0} \cup {entries[i].offset : i \in DOMAIN entries} :
        \A i \in DOMAIN entries : entries[i].offset <= n

FrameSize == FrameRounded(DeepestOffset)

(* emit_function reserves the frame. *)
Reserve ==
    /\ phase = "populate"
    /\ phase' = "emit"
    /\ frame' = FrameSize
    /\ UNCHANGED <<entries, capacity, next, met, fatal>>

(* An operand is formatted: stack_offset gives up when it has no slot. *)
Aborts ==
    /\ phase = "emit"
    /\ \E name \in met : Width[name] # 0 /\ ~HasEntry(name)
    /\ phase' = "aborted"
    /\ fatal' = TRUE
    /\ UNCHANGED <<entries, capacity, next, met, frame>>

Emitted == phase # "populate" /\ UNCHANGED vars

Next ==
    \/ \E name \in Names : NoNewEntry(name)
    \/ \E name \in Names : AddEntry(name)
    \/ \E name \in Names : AddEntryFails(name)
    \/ Reserve
    \/ Aborts
    \/ Emitted

Spec == Init /\ [][Next]_vars

-----------------------------------------------------------------------------
(***************************************************************************)
(* SlotsDisjoint: the slot of an entry is the bytes from rbp - offset up   *)
(* to rbp - offset + size.  It is aligned, it stays below the saved rbp    *)
(* and the return address, and no two slots share a byte.                  *)
(***************************************************************************)
SlotsDisjoint ==
    /\ \A i \in DOMAIN entries :
           /\ entries[i].offset % entries[i].size = 0
           /\ entries[i].offset >= entries[i].size
    /\ \A i, j \in DOMAIN entries :
           i < j => entries[i].offset <= entries[j].offset - entries[j].size

(***************************************************************************)
(* SlotsInFrame: a callee's frame starts below every slot, and calls find  *)
(* the stack aligned.                                                      *)
(***************************************************************************)
SlotsInFrame ==
    phase # "populate" =>
        /\ frame % 16 = 0
        /\ \A i \in DOMAIN entries : entries[i].offset <= frame

(***************************************************************************)
(* OneSlotEach: an operand is always addressed at the same slot, and has   *)
(* one of the size of its type unless the lack of memory is in the log.    *)
(***************************************************************************)
OneSlotEach ==
    /\ \A i, j \in DOMAIN entries : entries[i].name = entries[j].name => i = j
    /\ \A i \in DOMAIN entries : entries[i].size = Width[entries[i].name]
    /\ \A name \in met : Width[name] = 0 \/ HasEntry(name) \/ fatal

=============================================================================
