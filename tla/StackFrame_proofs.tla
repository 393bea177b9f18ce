--------------------------- MODULE StackFrame_proofs ---------------------------
(***************************************************************************)
(* Proofs about StackFrame, for any number of names of any size: slots are *)
(* disjoint, aligned, inside the frame, and one for each operand.          *)
(***************************************************************************)
EXTENDS StackFrame, TLAPS

Sizes == {1, 2, 4, 8}

(* next_offset is the offset of the last slot.                             *)
OffsetsReached == \A i \in DOMAIN entries : entries[i].offset <= next

IInv ==
    /\ TypeOK
    /\ OffsetsReached
    /\ SlotsDisjoint
    /\ SlotsInFrame
    /\ OneSlotEach

(* next_aligned_offset leaves room for the slot and aligns it.             *)
LEMMA NextAlignedOffsetProperties ==
    ASSUME NEW offset \in Nat, NEW size \in Sizes
    PROVE  LET n == NextAlignedOffset(offset, size)
           IN  n \in Nat /\ n >= offset + size /\ n % size = 0
<1>1. CASE size = 1
  BY <1>1 DEF NextAlignedOffset
<1>2. CASE size = 2
  BY <1>2 DEF NextAlignedOffset
<1>3. CASE size = 4
  BY <1>3 DEF NextAlignedOffset
<1>4. CASE size = 8
  BY <1>4 DEF NextAlignedOffset
<1> QED
  BY <1>1, <1>2, <1>3, <1>4 DEF Sizes

(* The last slot is the deepest one, and frame_size covers it.             *)
LEMMA FrameSizeProperties ==
    ASSUME IInv
    PROVE  /\ FrameSize \in Nat
           /\ FrameSize % 16 = 0
           /\ \A i \in DOMAIN entries : entries[i].offset <= FrameSize
<1> DEFINE Offsets == {0} \cup {entries[i].offset : i \in DOMAIN entries}
           Deepest(n) == \A i \in DOMAIN entries : entries[i].offset <= n
<1>1. /\ entries \in Seq(Entry) /\ Len(entries) \in Nat
      /\ DOMAIN entries = 1 .. Len(entries)
      /\ \A i \in DOMAIN entries : entries[i] \in Entry
  BY DEF IInv, TypeOK
<1>2. Offsets \subseteq Nat
  BY <1>1 DEF Entry
<1>3. \E n \in Offsets : Deepest(n)
  <2>1. CASE entries = <<>>
    BY <2>1
  <2>2. CASE entries # <<>>
    <3> DEFINE last == Len(entries)
    <3>1. last \in DOMAIN entries
      BY <1>1, <2>2
    <3>2. ASSUME NEW i \in DOMAIN entries PROVE entries[i].offset <= entries[last].offset
      <4>1. CASE i = last
        BY <1>1, <4>1 DEF Entry
      <4>2. CASE i # last
        <5>1. entries[i].offset <= entries[last].offset - entries[last].size
          BY <1>1, <3>1, <4>2 DEF IInv, SlotsDisjoint
        <5>2. /\ entries[i].offset \in Nat /\ entries[last].offset \in Nat
              /\ entries[last].size \in Nat
          BY <1>1, <3>1 DEF Entry
        <5> QED
          BY <5>1, <5>2
      <4> QED
        BY <4>1, <4>2
    <3>3. entries[last].offset \in Offsets
      BY <3>1
    <3> QED
      BY <3>2, <3>3
  <2> QED
    BY <2>1, <2>2
<1>4. DeepestOffset \in Offsets /\ Deepest(DeepestOffset)
  BY <1>3 DEF DeepestOffset
<1>5. DeepestOffset \in Nat
  BY <1>2, <1>4
<1>6. \A n \in Nat : /\ ((n + 15) \div 16) * 16 \in Nat
                     /\ ((n + 15) \div 16) * 16 >= n
                     /\ (((n + 15) \div 16) * 16) % 16 = 0
  BY SMT
<1>7. FrameSize \in Nat /\ FrameSize >= DeepestOffset /\ FrameSize % 16 = 0
  BY <1>5, <1>6 DEF FrameSize, FrameRounded
<1>8. ASSUME NEW i \in DOMAIN entries PROVE entries[i].offset <= FrameSize
  <2>1. entries[i].offset \in Nat /\ entries[i].offset <= DeepestOffset
    BY <1>1, <1>4 DEF Entry
  <2> QED
    BY <1>5, <1>7, <2>1
<1> QED
  BY <1>7, <1>8

-----------------------------------------------------------------------------
LEMMA InitIInv == Init => IInv
<1> SUFFICES ASSUME Init PROVE IInv
  OBVIOUS
<1>1. entries = <<>> /\ DOMAIN entries = {} /\ Len(entries) = 0 /\ entries \in Seq(Entry)
  <2>1. entries = <<>>
    BY DEF Init
  <2>2. <<>> \in Seq(Entry) /\ Len(<<>>) = 0
    OBVIOUS
  <2>3. DOMAIN <<>> = {}
    OBVIOUS
  <2> QED
    BY <2>1, <2>2, <2>3
<1>2. TypeOK
  <2>1. entries \in Seq(Entry)
    BY <1>1
  <2>2. capacity \in Nat /\ next \in Nat /\ frame \in Nat
    BY DEF Init
  <2>3. Len(entries) <= capacity
    BY <1>1 DEF Init
  <2>4. met \subseteq Names /\ fatal \in BOOLEAN
    BY DEF Init
  <2>5. phase \in {"populate", "emit", "aborted"}
    BY DEF Init
  <2> QED
    BY <2>1, <2>2, <2>3, <2>4, <2>5 DEF TypeOK
<1>3. OffsetsReached /\ SlotsDisjoint
  BY <1>1 DEF OffsetsReached, SlotsDisjoint
<1>4. SlotsInFrame
  BY DEF Init, SlotsInFrame
<1>5. OneSlotEach
  BY <1>1 DEF Init, OneSlotEach
<1> QED
  BY <1>2, <1>3, <1>4, <1>5 DEF IInv

(* A new slot lies deeper than every slot before it.                       *)
LEMMA AddEntryIInv ==
    ASSUME IInv, NEW name \in Names, AddEntry(name) PROVE IInv'
<1> DEFINE size == Width[name]
           offset == NextAlignedOffset(next, size)
           entry == [name |-> name, offset |-> offset, size |-> size]
<1>1. size \in Sizes
  BY StackFrameAssumption DEF AddEntry, NewName, Sizes
<1>2. next \in Nat /\ offset \in Nat /\ offset >= next + size /\ offset % size = 0
  BY <1>1, NextAlignedOffsetProperties DEF IInv, TypeOK
<1>3. /\ next' = offset /\ entries' = Append(entries, entry)
      /\ met' = met \cup {name} /\ phase = "populate"
      /\ ~HasEntry(name)
      /\ UNCHANGED <<frame, phase, fatal>>
  BY DEF AddEntry, NewName, Met
<1>4. entry \in Entry
  BY <1>1, <1>2 DEF Entry, Sizes
<1>5. /\ entry.name = name /\ entry.offset = offset /\ entry.size = size
  OBVIOUS
<1> HIDE DEF entry, offset, size
<1>6. entries \in Seq(Entry)
  BY DEF IInv, TypeOK
<1>7. /\ entries' \in Seq(Entry) /\ Len(entries') = Len(entries) + 1
      /\ Len(entries) \in Nat
      /\ DOMAIN entries = 1 .. Len(entries)
      /\ DOMAIN entries' = 1 .. Len(entries) + 1
      /\ entries'[Len(entries) + 1] = entry
      /\ \A i \in DOMAIN entries : entries'[i] = entries[i]
  BY <1>3, <1>4, <1>6
<1>8. capacity' \in Nat /\ Len(entries') <= capacity'
  BY <1>7, StackFrameAssumption DEF AddEntry, IInv, TypeOK, Full, CapacityGrown
<1>9. TypeOK'
  BY <1>2, <1>3, <1>7, <1>8 DEF IInv, TypeOK
<1>10. \A i \in DOMAIN entries : entries[i] \in Entry
  BY <1>6
<1>11. \A i \in DOMAIN entries : entries[i].offset <= offset - size
  <2>1. size \in Nat
    BY <1>1 DEF Sizes
  <2> QED
    BY <1>2, <1>10, <2>1 DEF Entry, IInv, OffsetsReached
<1>12. OffsetsReached'
  <2>1. size \in Nat
    BY <1>1 DEF Sizes
  <2>2. \A i \in DOMAIN entries : entries[i].offset <= offset
    BY <1>2, <1>10, <1>11, <2>1 DEF Entry
  <2> QED
    BY <1>2, <1>3, <1>5, <1>7, <2>2 DEF OffsetsReached
<1>13. SlotsDisjoint'
  <2>1. offset >= size
    BY <1>1, <1>2 DEF Sizes
  <2>2. ASSUME NEW i \in DOMAIN entries'
        PROVE  /\ entries'[i].offset % entries'[i].size = 0
               /\ entries'[i].offset >= entries'[i].size
    <3>1. CASE i \in DOMAIN entries
      BY <1>7, <3>1 DEF IInv, SlotsDisjoint
    <3>2. CASE i = Len(entries) + 1
      BY <1>2, <1>5, <1>7, <2>1, <3>2
    <3> QED
      BY <1>7, <3>1, <3>2
  <2>3. ASSUME NEW i \in DOMAIN entries', NEW j \in DOMAIN entries', i < j
        PROVE  entries'[i].offset <= entries'[j].offset - entries'[j].size
    <3>1. i \in DOMAIN entries
      BY <1>7, <2>3
    <3>2. CASE j \in DOMAIN entries
      BY <1>7, <2>3, <3>1, <3>2 DEF IInv, SlotsDisjoint
    <3>3. CASE j = Len(entries) + 1
      BY <1>5, <1>7, <1>11, <3>1, <3>3
    <3> QED
      BY <1>7, <3>2, <3>3
  <2> QED
    BY <2>2, <2>3 DEF SlotsDisjoint
<1>14. SlotsInFrame'
  BY <1>3 DEF SlotsInFrame
<1>15. OneSlotEach'
  <2>1. \A i \in DOMAIN entries : entries[i].name # name
    BY <1>3 DEF HasEntry
  <2>2. ASSUME NEW i \in DOMAIN entries', NEW j \in DOMAIN entries',
               entries'[i].name = entries'[j].name
        PROVE  i = j
    <3>1. CASE i \in DOMAIN entries /\ j \in DOMAIN entries
      BY <1>7, <2>2, <3>1 DEF IInv, OneSlotEach
    <3>2. CASE i = Len(entries) + 1 \/ j = Len(entries) + 1
      BY <1>5, <1>7, <2>1, <2>2, <3>2
    <3> QED
      BY <1>7, <3>1, <3>2
  <2>3. \A i \in DOMAIN entries' : entries'[i].size = Width[entries'[i].name]
    BY <1>5, <1>7 DEF IInv, OneSlotEach, size
  <2>4. ASSUME NEW n \in met' PROVE Width[n] = 0 \/ HasEntry(n)' \/ fatal'
    <3>1. CASE n = name
      <4>1. Len(entries) + 1 \in DOMAIN entries'
        BY <1>7
      <4> QED
        BY <1>5, <1>7, <3>1, <4>1 DEF HasEntry
    <3>2. CASE n \in met
      <4>1. HasEntry(n) => HasEntry(n)'
        BY <1>7 DEF HasEntry
      <4> QED
        BY <1>3, <3>2, <4>1 DEF IInv, OneSlotEach
    <3> QED
      BY <1>3, <3>1, <3>2
  <2> QED
    BY <2>2, <2>3, <2>4 DEF OneSlotEach
<1> QED
  BY <1>9, <1>12, <1>13, <1>14, <1>15 DEF IInv

(* Steps that add no entry.                                                *)
LEMMA SameEntries ==
    ASSUME IInv, UNCHANGED <<entries, next>>
    PROVE  OffsetsReached' /\ SlotsDisjoint' /\ (\A n \in Names : HasEntry(n)' = HasEntry(n))
  BY DEF IInv, OffsetsReached, SlotsDisjoint, HasEntry

LEMMA NoNewEntryIInv ==
    ASSUME IInv, NEW name \in Names, NoNewEntry(name) PROVE IInv'
<1>1. /\ UNCHANGED <<entries, capacity, next, frame, phase, fatal>>
      /\ met' = met \cup {name}
      /\ HasEntry(name) \/ Width[name] = 0
  BY DEF NoNewEntry, Met
<1>2. TypeOK' /\ SlotsInFrame'
  BY <1>1 DEF IInv, TypeOK, SlotsInFrame
<1>3. OneSlotEach'
  BY <1>1 DEF IInv, OneSlotEach, HasEntry
<1> QED
  BY <1>1, <1>2, <1>3, SameEntries DEF IInv

LEMMA AddEntryFailsIInv ==
    ASSUME IInv, NEW name \in Names, AddEntryFails(name) PROVE IInv'
<1>1. /\ UNCHANGED <<entries, next, frame, phase>>
      /\ met' = met \cup {name}
      /\ fatal' = TRUE
  BY DEF AddEntryFails, NewName, Met, ReportsNoMemory
<1>2. capacity' \in Nat /\ Len(entries) <= capacity'
  <2>1. Len(entries) \in Nat
    BY DEF IInv, TypeOK
  <2> QED
    BY <2>1, StackFrameAssumption DEF AddEntryFails, CapacityGrown, Full, IInv, TypeOK
<1>3. TypeOK' /\ SlotsInFrame'
  BY <1>1, <1>2 DEF IInv, TypeOK, SlotsInFrame
<1>4. OneSlotEach'
  BY <1>1 DEF IInv, OneSlotEach
<1> QED
  BY <1>1, <1>3, <1>4, SameEntries DEF IInv

LEMMA ReserveIInv == ASSUME IInv, Reserve PROVE IInv'
<1>1. /\ UNCHANGED <<entries, capacity, next, met, fatal>>
      /\ frame' = FrameSize /\ phase' = "emit"
  BY DEF Reserve
<1>2. TypeOK' /\ SlotsInFrame'
  BY <1>1, FrameSizeProperties DEF IInv, TypeOK, SlotsInFrame
<1>3. OneSlotEach'
  BY <1>1 DEF IInv, OneSlotEach, HasEntry
<1> QED
  BY <1>1, <1>2, <1>3, SameEntries DEF IInv

LEMMA AbortsIInv == ASSUME IInv, Aborts PROVE IInv'
<1>1. /\ UNCHANGED <<entries, capacity, next, met, frame>>
      /\ phase = "emit" /\ phase' = "aborted" /\ fatal' = TRUE
  BY DEF Aborts
<1>2. TypeOK' /\ SlotsInFrame' /\ OneSlotEach'
  BY <1>1 DEF IInv, TypeOK, SlotsInFrame, OneSlotEach
<1> QED
  BY <1>1, <1>2, SameEntries DEF IInv

-----------------------------------------------------------------------------
(* IInv holds in every reachable state.                                    *)
THEOREM FrameSafety == Spec => []IInv
<1>1. Init => IInv
  BY InitIInv
<1>2. IInv /\ [Next]_vars => IInv'
  <2> SUFFICES ASSUME IInv, [Next]_vars PROVE IInv'
    OBVIOUS
  <2>1. ASSUME NEW name \in Names, NoNewEntry(name) PROVE IInv'
    BY <2>1, NoNewEntryIInv
  <2>2. ASSUME NEW name \in Names, AddEntry(name) PROVE IInv'
    BY <2>2, AddEntryIInv
  <2>3. ASSUME NEW name \in Names, AddEntryFails(name) PROVE IInv'
    BY <2>3, AddEntryFailsIInv
  <2>4. CASE Reserve
    BY <2>4, ReserveIInv
  <2>5. CASE Aborts
    BY <2>5, AbortsIInv
  <2>6. CASE UNCHANGED vars
    BY <2>6 DEF vars, IInv, TypeOK, OffsetsReached, SlotsDisjoint, SlotsInFrame,
                OneSlotEach, HasEntry
  <2> QED
    BY <2>1, <2>2, <2>3, <2>4, <2>5, <2>6 DEF Next, Emitted
<1> QED
  BY <1>1, <1>2, PTL DEF Spec

(* The map never writes past its array.                                    *)
THEOREM FrameTypeCorrect == Spec => []TypeOK
BY FrameSafety, PTL DEF IInv

(* next_aligned_offset never gives out a byte twice.                       *)
THEOREM SlotsNeverOverlap == Spec => []SlotsDisjoint
BY FrameSafety, PTL DEF IInv

(* frame_size covers every slot and keeps the stack aligned.               *)
THEOREM FrameCoversSlots == Spec => []SlotsInFrame
BY FrameSafety, PTL DEF IInv

(* stack_offset finds one slot, or the lack of memory is in the log.       *)
THEOREM OperandsHaveSlots == Spec => []OneSlotEach
BY FrameSafety, PTL DEF IInv

=============================================================================
