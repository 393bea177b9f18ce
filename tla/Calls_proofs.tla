------------------------------ MODULE Calls_proofs ------------------------------
(***************************************************************************)
(* Proofs about Calls, for every set of functions with any number of       *)
(* parameters and operands of any size, every call in them and every depth *)
(* of recursion: operands keep their values, the links between frames stay *)
(* intact and the stack is aligned where C expects it.                     *)
(***************************************************************************)
EXTENDS Calls, WellFoundedInduction, TLAPS

Widths == {1, 2, 4, 8}

Bytes == 0 .. (Top - 1)

-----------------------------------------------------------------------------
(* The functions that are active, and the calls that made them so.         *)
Activation(i) ==
    /\ active[i] = [fn |-> active[i].fn, base |-> active[i].base,
                    site |-> active[i].site, result |-> active[i].result,
                    values |-> active[i].values]
    /\ active[i].fn \in Functions
    /\ DOMAIN active[i].values = Operands(active[i].fn)
    /\ IF i = Depth THEN active[i].fn = Main
       ELSE /\ active[i].site \in CallSites[active[i + 1].fn]
            /\ active[i].site.callee = active[i].fn

Shape ==
    /\ DOMAIN mem = Bytes
    /\ active \in Seq({active[i] : i \in DOMAIN active}) /\ active # <<>>
    /\ \A i \in 1 .. Depth : Activation(i)
    /\ at \in {"code", "prologue", "returned"}

(* Where the frame of an active function ends.                             *)
Low(i) == active[i].base - Frame(active[i].fn)

(* A frame lies below what the call pushed, the return address and the     *)
(* saved rbp, and that below the caller's frame.                           *)
Placed(i) ==
    /\ active[i].base \in Nat /\ active[i].base % 16 = 0
    /\ Low(i) >= 0
    /\ active[i].base + 16 <= Top
    /\ i < Depth => active[i].base + 16 + Popped(active[i].site) = Low(i + 1)

(* The operands are in their slots.                                        *)
InFrame(i) ==
    \A o \in Operands(active[i].fn) :
        active[i].values[o] # Unset =>
            SlotLoaded(mem, active[i].base, active[i].fn, o) = active[i].values[o]

Linked(i) ==
    /\ Loaded(mem, active[i].base + 8, 8) = ReturnAddress(Depth - i)
    /\ Loaded(mem, active[i].base, 8) =
           Address(IF i < Depth THEN active[i + 1].base ELSE 0)

(* An older frame lies above a newer one.                                  *)
Ordered ==
    \A i, j \in Established : i < j => active[i].base + 16 <= Low(j)

InCode == at = "code" => rbp = active[1].base /\ rsp = Low(1)

(* What a function that has just been called finds as its argument i.      *)
Argument(i) ==
    IF i <= Registers THEN args[i]
    ELSE Loaded(mem, rsp + 8 + (i - Registers - 1) * 8, Sizes[active[1].fn][i])

(* The return address is on top of the stack, below the arguments that do  *)
(* not fit into registers and the caller's frame.                          *)
InPrologue ==
    at = "prologue" =>
        /\ rsp \in Nat /\ rsp + 8 <= Top
        /\ Loaded(mem, rsp, 8) = ReturnAddress(Depth - 1)
        /\ Depth = 1 => rsp = Top - 8 /\ rbp = 0
        /\ Depth > 1 =>
               /\ rsp + 8 + Popped(active[1].site) = Low(2)
               /\ rbp = active[2].base
               /\ \A i \in 1 .. ParamCount[active[1].fn] :
                      /\ active[2].values[active[1].site.args[i]] # Unset
                      /\ Argument(i) = active[2].values[active[1].site.args[i]]

InReturned ==
    at = "returned" =>
        /\ Depth > 1
        /\ rsp + Popped(active[1].site) = Low(2)
        /\ rbp = active[2].base
        /\ rax = active[1].result

IInv ==
    /\ Shape
    /\ \A i \in Established : Placed(i) /\ InFrame(i) /\ Linked(i)
    /\ Ordered
    /\ InCode
    /\ InPrologue
    /\ InReturned

-----------------------------------------------------------------------------
(* Induction up to a bound, over a set.                                    *)
LEMMA UpTo ==
    ASSUME NEW n \in Nat, NEW S, 0 \in S, \A i \in 1 .. n : i - 1 \in S => i \in S
    PROVE  \A i \in 0 .. n : i \in S
<1> DEFINE Left == (0 .. n) \ S
           R == OpToRel(<, Nat)
<1> SUFFICES ASSUME Left # {} PROVE FALSE
  OBVIOUS
<1>1. IsWellFoundedOn(R, Nat)
  BY NatLessThanWellFounded
<1>2. \A i, j \in Nat : i < j => <<i, j>> \in R
  BY DEF OpToRel
<1>3. Left \subseteq Nat
  OBVIOUS
<1> HIDE DEF R, Left
<1>4. \E m \in Left : \A k \in Left : ~(<<k, m>> \in R)
  BY <1>1, <1>3, WFMin
<1>5. \E m \in Left : \A k \in Left : ~(k < m)
  BY <1>2, <1>3, <1>4
<1>6. PICK i \in Left : \A k \in Left : ~(k < i)
  BY <1>5
<1>7. i \in 0 .. n /\ i \notin S
  BY DEF Left
<1>8. i \in 1 .. n
  BY <1>7
<1>9. i - 1 \in S
  BY <1>6, <1>8 DEF Left
<1> QED
  BY <1>7, <1>8, <1>9

(* The recursive definition of Offset has a solution: it is built operand  *)
(* by operand.                                                             *)
LEMMA OffsetEquation ==
    ASSUME NEW f \in Functions
    PROVE  Offset(f) =
             [o \in 0 .. Len(Sizes[f]) |->
                IF o = 0 THEN 0 ELSE NextAlignedOffset(Offset(f)[o - 1], Sizes[f][o])]
<1> DEFINE Step(g, o) == IF o = 0 THEN 0 ELSE NextAlignedOffset(g[o - 1], Sizes[f][o])
           Prefix(n) == \E g : g = [o \in 0 .. n |-> Step(g, o)]
           S == {n \in Nat : Prefix(n)}
           N == Len(Sizes[f])
<1>1. N \in Nat
  BY CallsAssumption
<1>2. 0 \in S
  <2> DEFINE g == [o \in 0 .. 0 |-> 0]
  <2>1. g = [o \in 0 .. 0 |-> Step(g, o)]
    OBVIOUS
  <2> HIDE DEF g, Step
  <2> QED
    BY <2>1
<1>3. ASSUME NEW i \in 1 .. N, i - 1 \in S PROVE i \in S
  <2>1. PICK g : g = [o \in 0 .. i - 1 |-> Step(g, o)]
    BY <1>3
  <2> DEFINE h == [o \in 0 .. i |-> IF o = i THEN Step(g, i) ELSE g[o]]
  <2>2. \A o \in 0 .. i : Step(h, o) = Step(g, o)
    OBVIOUS
  <2>3. \A o \in 0 .. i : h[o] = Step(g, o)
    <3> HIDE DEF Step
    <3> QED
      BY <1>3, <2>1
  <2>4. h = [o \in 0 .. i |-> Step(h, o)]
    <3> HIDE DEF Step
    <3> QED
      BY <2>2, <2>3
  <2> HIDE DEF h, Step
  <2> QED
    BY <1>3, <2>4
<1>4. Prefix(N)
  <2> HIDE DEF S, N
  <2>1. \A i \in 0 .. N : i \in S
   BY <1>1, <1>2, <1>3, UpTo
  <2>2. N \in S
   BY <1>1, <2>1
  <2> QED
    BY <2>2 DEF S
<1>5. PICK g : g = [o \in 0 .. N |-> Step(g, o)]
  BY <1>4
<1> QED
  BY <1>5 DEF Offset

(* next_aligned_offset leaves room for the slot.                           *)
LEMMA NextAlignedOffsetProperties ==
    ASSUME NEW offset \in Nat, NEW size \in Widths
    PROVE  LET n == NextAlignedOffset(offset, size)
           IN  n \in Nat /\ n >= offset + size
<1>1. CASE size = 1
  BY <1>1 DEF NextAlignedOffset
<1>2. CASE size = 2
  BY <1>2 DEF NextAlignedOffset
<1>3. CASE size = 4
  BY <1>3 DEF NextAlignedOffset
<1>4. CASE size = 8
  BY <1>4 DEF NextAlignedOffset
<1> QED
  BY <1>1, <1>2, <1>3, <1>4 DEF Widths

(* The sizes of the operands, and how many there are.                      *)
LEMMA OperandFacts ==
    ASSUME NEW f \in Functions
    PROVE  /\ Len(Sizes[f]) \in Nat
           /\ Operands(f) = 1 .. Len(Sizes[f])
           /\ \A o \in Operands(f) : Sizes[f][o] \in Widths
           /\ ParamCount[f] \in 0 .. Len(Sizes[f])
<1>1. Sizes[f] \in Seq(Widths)
  BY CallsAssumption DEF Widths
<1> QED
  BY <1>1, CallsAssumption DEF Operands

(* Offsets grow by at least the size of each operand.                      *)
LEMMA OffsetsGrow ==
    ASSUME NEW f \in Functions
    PROVE  /\ \A o \in 0 .. Len(Sizes[f]) : Offset(f)[o] \in Nat
           /\ \A o \in Operands(f), p \in 0 .. Len(Sizes[f]) :
                  p < o => Offset(f)[o] >= Offset(f)[p] + Sizes[f][o]
<1> DEFINE N == Len(Sizes[f])
           off == Offset(f)
           S == {o \in 0 .. N :
                   /\ \A p \in 0 .. o : off[p] \in Nat
                   /\ \A p, q \in 0 .. o : p < q => off[q] >= off[p] + Sizes[f][q]}
<1>1. /\ N \in Nat /\ Operands(f) = 1 .. N
      /\ \A o \in 1 .. N : Sizes[f][o] \in Widths
  BY OperandFacts
<1>2. /\ off[0] = 0
      /\ \A o \in 1 .. N : off[o] = NextAlignedOffset(off[o - 1], Sizes[f][o])
  <2> HIDE DEF off
  <2>1. off = [o \in 0 .. N |->
                IF o = 0 THEN 0 ELSE NextAlignedOffset(off[o - 1], Sizes[f][o])]
    BY OffsetEquation DEF off
  <2> QED
    BY <1>1, <2>1
<1> HIDE DEF off, N
<1>3. 0 \in S
  BY <1>1, <1>2
<1>4. ASSUME NEW i \in 1 .. N, i - 1 \in S PROVE i \in S
  <2>1. /\ \A p \in 0 .. i - 1 : off[p] \in Nat
        /\ \A p, q \in 0 .. i - 1 : p < q => off[q] >= off[p] + Sizes[f][q]
    BY <1>4
  <2>2. Sizes[f][i] \in Widths /\ Sizes[f][i] \in Nat
    BY <1>1 DEF Widths
  <2>3. off[i - 1] \in Nat
    BY <1>4, <2>1
  <2>4. off[i] \in Nat /\ off[i] >= off[i - 1] + Sizes[f][i]
    BY <1>2, <2>2, <2>3, NextAlignedOffsetProperties
  <2>5. \A p \in 0 .. i - 1 : off[p] <= off[i - 1]
    <3> SUFFICES ASSUME NEW p \in 0 .. i - 1, p # i - 1 PROVE off[p] <= off[i - 1]
      BY <2>3
    <3>1. off[i - 1] >= off[p] + Sizes[f][i - 1]
      BY <2>1
    <3>2. Sizes[f][i - 1] \in Nat
      BY <1>1 DEF Widths
    <3> QED
      BY <2>1, <2>3, <3>1, <3>2
  <2>6. \A p \in 0 .. i - 1 : off[i] >= off[p] + Sizes[f][i]
    BY <2>1, <2>2, <2>3, <2>4, <2>5
  <2>7. \A p \in 0 .. i : off[p] \in Nat
    BY <2>1, <2>4
  <2>8. ASSUME NEW p \in 0 .. i, NEW q \in 0 .. i, p < q
        PROVE  off[q] >= off[p] + Sizes[f][q]
    <3>1. CASE q = i
      BY <2>6, <2>8, <3>1
    <3>2. CASE q # i
      BY <2>1, <2>8, <3>2
    <3> QED
      BY <3>1, <3>2
  <2> QED
    BY <2>7, <2>8
<1>5. N \in S
  <2> HIDE DEF S
  <2>1. \A i \in 0 .. N : i \in S
    BY <1>1, <1>3, <1>4, UpTo
  <2> QED
    BY <1>1, <2>1
<1> QED
  BY <1>1, <1>5 DEF off, N

(* Slots are disjoint and lie in the frame.                                *)
LEMMA SlotFacts ==
    ASSUME NEW f \in Functions
    PROVE  /\ Frame(f) \in Nat /\ Frame(f) % 16 = 0
           /\ \A o \in Operands(f) :
                  /\ Offset(f)[o] \in Nat /\ Sizes[f][o] \in Widths
                  /\ Offset(f)[o] >= Sizes[f][o] /\ Offset(f)[o] <= Frame(f)
           /\ \A o, p \in Operands(f) :
                  o # p => \/ Offset(f)[o] - Sizes[f][o] >= Offset(f)[p]
                           \/ Offset(f)[p] - Sizes[f][p] >= Offset(f)[o]
<1> DEFINE N == Len(Sizes[f])
           off == Offset(f)
<1>1. /\ N \in Nat /\ Operands(f) = 1 .. N
      /\ \A o \in 1 .. N : Sizes[f][o] \in Widths
  BY OperandFacts
<1>2. /\ \A o \in 0 .. N : off[o] \in Nat
      /\ \A o \in 1 .. N, p \in 0 .. N : p < o => off[o] >= off[p] + Sizes[f][o]
  BY <1>1, OffsetsGrow
<1>3. \A n \in Nat : /\ ((n + 15) \div 16) * 16 \in Nat
                     /\ ((n + 15) \div 16) * 16 >= n
                     /\ (((n + 15) \div 16) * 16) % 16 = 0
  BY SMT
<1>4. off[N] \in Nat
  BY <1>1, <1>2
<1>5. Frame(f) \in Nat /\ Frame(f) % 16 = 0 /\ Frame(f) >= off[N]
  BY <1>3, <1>4 DEF Frame, FrameRounded
<1> HIDE DEF N, off
<1>6. \A o \in 1 .. N : Sizes[f][o] \in Nat
  BY <1>1 DEF Widths
<1>7. \A o \in 1 .. N : off[o] <= off[N]
  <2> SUFFICES ASSUME NEW o \in 1 .. N, o # N PROVE off[o] <= off[N]
    BY <1>4
  <2>1. off[N] >= off[o] + Sizes[f][N]
    BY <1>1, <1>2
  <2>2. off[o] \in Nat /\ Sizes[f][N] \in Nat
    BY <1>1, <1>2, <1>6
  <2> QED
    BY <1>4, <2>1, <2>2
<1>8. ASSUME NEW o \in 1 .. N
      PROVE  off[o] \in Nat /\ off[o] >= Sizes[f][o] /\ off[o] <= Frame(f)
  <2>1. off[o] \in Nat /\ off[0] \in Nat /\ Sizes[f][o] \in Nat
    BY <1>1, <1>2, <1>6
  <2>2. off[o] >= off[0] + Sizes[f][o]
    BY <1>1, <1>2
  <2>3. off[o] <= off[N]
    BY <1>7
  <2> QED
    BY <1>4, <1>5, <2>1, <2>2, <2>3
<1>9. ASSUME NEW o \in 1 .. N, NEW p \in 1 .. N, o # p
      PROVE  off[o] - Sizes[f][o] >= off[p] \/ off[p] - Sizes[f][p] >= off[o]
  <2>1. off[o] \in Nat /\ off[p] \in Nat /\ Sizes[f][o] \in Nat /\ Sizes[f][p] \in Nat
    BY <1>6, <1>8
  <2>2. off[o] >= off[p] + Sizes[f][o] \/ off[p] >= off[o] + Sizes[f][p]
    BY <1>1, <1>2, <1>9
  <2> QED
    BY <2>1, <2>2
<1> QED
  BY <1>1, <1>5, <1>8, <1>9 DEF off

-----------------------------------------------------------------------------
(* What is loaded depends on the bytes loaded.                             *)
LEMMA LoadedSame ==
    ASSUME NEW m, NEW n, NEW a \in Int, NEW w \in Widths,
           \A b \in a .. (a + w - 1) : n[b] = m[b]
    PROVE  Loaded(n, a, w) = Loaded(m, a, w)
<1>1. w \in Nat /\ w >= 1
  BY DEF Widths
<1>2. \A k \in 0 .. (w - 1) : n[a + k] = m[a + k]
  BY <1>1
<1>3. n[a] = m[a]
  BY <1>1
<1> QED
  BY <1>2, <1>3 DEF Loaded

(* What was stored is loaded, all of it or its lower part.                 *)
LEMMA LoadedStored ==
    ASSUME NEW m, NEW a \in Int, NEW size \in Nat, NEW w \in Widths, w <= size, NEW v,
           a .. (a + size - 1) \subseteq DOMAIN m
    PROVE  Loaded(Stored(m, a, size, v), a, w) = v
<1> DEFINE n == Stored(m, a, size, v)
<1>1. w \in Nat /\ w >= 1
  BY DEF Widths
<1>2. ASSUME NEW k \in 0 .. (w - 1) PROVE n[a + k] = Byte(v, k)
  <2>1. a + k \in a .. (a + size - 1) /\ (a + k) - a = k
    BY <1>1
  <2> QED
    BY <2>1 DEF Stored
<1>3. n[a] = Byte(v, 0)
  <2>1. n[a + 0] = Byte(v, 0)
    BY <1>1, <1>2
  <2> QED
    BY <2>1
<1>4. Byte(v, 0)[1] = v
  BY DEF Byte
<1> HIDE DEF n
<1>5. Loaded(n, a, w) = v
  BY <1>2, <1>3, <1>4 DEF Loaded
<1> QED
  BY <1>5 DEF n

(* A store changes the bytes it writes and no other one.                   *)
LEMMA StoredElsewhere ==
    ASSUME NEW m, NEW a, NEW size, NEW v
    PROVE  /\ DOMAIN Stored(m, a, size, v) = DOMAIN m
           /\ \A b \in DOMAIN m :
                  b \notin a .. (a + size - 1) => Stored(m, a, size, v)[b] = m[b]
BY DEF Stored

-----------------------------------------------------------------------------
(* Two stacks that hold the same bytes from `low' up to `high'.            *)
Same(m, n, low, high) == \A b \in low .. (high - 1) : n[b] = m[b]

(* The slots of a frame depend on the bytes of the frame.                  *)
LEMMA SlotSame ==
    ASSUME NEW f \in Functions, NEW o \in Operands(f), NEW m, NEW n, NEW base \in Nat,
           Same(m, n, base - Frame(f), base)
    PROVE  SlotLoaded(n, base, f, o) = SlotLoaded(m, base, f, o)
<1> DEFINE off == Offset(f)[o]
           size == Sizes[f][o]
           frame == Frame(f)
<1>1. off \in Nat /\ size \in Widths /\ off >= size /\ off <= frame /\ frame \in Nat
  BY SlotFacts
<1>2. \A b \in (base - frame) .. (base - 1) : n[b] = m[b]
  BY DEF Same
<1> HIDE DEF off, size, frame
<1>3. size \in Nat
  BY <1>1 DEF Widths
<1>4. \A b \in (base - off) .. (base - off + size - 1) : n[b] = m[b]
  BY <1>1, <1>2, <1>3
<1>5. base - off \in Int
  BY <1>1
<1>6. Loaded(n, base - off, size) = Loaded(m, base - off, size)
  BY <1>1, <1>4, <1>5, LoadedSame
<1> QED
  BY <1>6 DEF SlotLoaded, off, size

(* A slot is written without touching another one, nor anything outside    *)
(* the frame.                                                              *)
LEMMA SlotStoredEffect ==
    ASSUME NEW f \in Functions, NEW o \in Operands(f), NEW m, DOMAIN m = Bytes,
           NEW base \in Nat, Frame(f) <= base, base <= Top, NEW v
    PROVE  LET n == SlotStored(m, base, f, o, v)
           IN  /\ DOMAIN n = Bytes
               /\ \A b \in Bytes : b >= base \/ b < base - Frame(f) => n[b] = m[b]
               /\ SlotLoaded(n, base, f, o) = v
               /\ \A p \in Operands(f) :
                      p # o => SlotLoaded(n, base, f, p) = SlotLoaded(m, base, f, p)
<1> DEFINE off == Offset(f)[o]
           size == Sizes[f][o]
           frame == Frame(f)
           n == SlotStored(m, base, f, o, v)
<1>1. off \in Nat /\ size \in Widths /\ off >= size /\ off <= frame /\ frame \in Nat
  BY SlotFacts
<1>2. n = Stored(m, base - off, size, v)
  BY DEF SlotStored
<1>3. Top \in Nat
  BY CallsAssumption
<1>4. size \in Nat /\ frame <= base
  BY <1>1 DEF Widths
<1> HIDE DEF off, size, frame
<1>5. base - off \in Int /\ (base - off) .. (base - off + size - 1) \subseteq Bytes
  BY <1>1, <1>3, <1>4 DEF Bytes
<1> HIDE DEF n
<1>6. DOMAIN n = Bytes
  BY <1>2, StoredElsewhere
<1>7. \A b \in Bytes : b \notin (base - off) .. (base - off + size - 1) => n[b] = m[b]
  BY <1>2, StoredElsewhere
<1>8. \A b \in Bytes : b >= base \/ b < base - frame => n[b] = m[b]
  BY <1>1, <1>3, <1>4, <1>7 DEF Bytes
<1>9. SlotLoaded(n, base, f, o) = v
  <2>1. Loaded(n, base - off, size) = v
    BY <1>1, <1>2, <1>4, <1>5, LoadedStored
  <2> QED
    BY <2>1 DEF SlotLoaded, off, size
<1>10. ASSUME NEW p \in Operands(f), p # o
       PROVE  SlotLoaded(n, base, f, p) = SlotLoaded(m, base, f, p)
  <2> DEFINE poff == Offset(f)[p]
             psize == Sizes[f][p]
  <2>1. /\ poff \in Nat /\ psize \in Widths /\ poff >= psize /\ poff <= frame
        /\ poff - psize >= off \/ off - size >= poff
    BY <1>10, SlotFacts DEF off, size, frame
  <2> HIDE DEF poff, psize
  <2>2. psize \in Nat
    BY <2>1 DEF Widths
  <2>3. \A b \in (base - poff) .. (base - poff + psize - 1) : n[b] = m[b]
    <3> SUFFICES ASSUME NEW b \in (base - poff) .. (base - poff + psize - 1)
                 PROVE  n[b] = m[b]
      OBVIOUS
    <3>1. b \in Bytes
      BY <1>1, <1>3, <1>4, <2>1, <2>2 DEF Bytes
    <3>2. b \notin (base - off) .. (base - off + size - 1)
      BY <1>1, <1>4, <2>1, <2>2
    <3> QED
      BY <1>7, <3>1, <3>2
  <2>4. base - poff \in Int
    BY <2>1
  <2>5. Loaded(n, base - poff, psize) = Loaded(m, base - poff, psize)
    BY <2>1, <2>3, <2>4, LoadedSame
  <2> QED
    BY <2>5 DEF SlotLoaded, poff, psize
<1> QED
  BY <1>6, <1>8, <1>9, <1>10 DEF n, frame

-----------------------------------------------------------------------------
(* The recursive definition of Copied has a solution.                      *)
LEMMA CopiedEquation ==
    ASSUME NEW f \in Functions, NEW m, NEW base
    PROVE  Copied(m, base, f) =
             [i \in 0 .. ParamCount[f] |->
                IF i = 0 THEN m
                ELSE SlotStored(Copied(m, base, f)[i - 1], base, f, i,
                                Incoming(Copied(m, base, f)[i - 1], base, f, i))]
<1> DEFINE Step(g, i) == IF i = 0 THEN m
                         ELSE SlotStored(g[i - 1], base, f, i, Incoming(g[i - 1], base, f, i))
           Prefix(n) == \E g : g = [i \in 0 .. n |-> Step(g, i)]
           S == {n \in Nat : Prefix(n)}
           N == ParamCount[f]
<1>1. N \in Nat
  BY OperandFacts
<1>2. 0 \in S
  <2> DEFINE g == [i \in 0 .. 0 |-> m]
  <2>1. g = [i \in 0 .. 0 |-> Step(g, i)]
    OBVIOUS
  <2> HIDE DEF g, Step
  <2> QED
    BY <2>1
<1>3. ASSUME NEW n \in 1 .. N, n - 1 \in S PROVE n \in S
  <2>1. PICK g : g = [i \in 0 .. n - 1 |-> Step(g, i)]
    BY <1>3
  <2> DEFINE h == [i \in 0 .. n |-> IF i = n THEN Step(g, n) ELSE g[i]]
  <2>2. \A i \in 0 .. n : Step(h, i) = Step(g, i)
    OBVIOUS
  <2>3. \A i \in 0 .. n : h[i] = Step(g, i)
    <3> HIDE DEF Step
    <3> QED
      BY <1>3, <2>1
  <2>4. h = [i \in 0 .. n |-> Step(h, i)]
    <3> HIDE DEF Step
    <3> QED
      BY <2>2, <2>3
  <2> HIDE DEF h, Step
  <2> QED
    BY <1>3, <2>4
<1>4. Prefix(N)
  <2> HIDE DEF S, N
  <2>1. \A n \in 0 .. N : n \in S
    BY <1>1, <1>2, <1>3, UpTo
  <2>2. N \in S
    BY <1>1, <2>1
  <2> QED
    BY <2>2 DEF S
<1>5. PICK g : g = [i \in 0 .. N |-> Step(g, i)]
  BY <1>4
<1> QED
  BY <1>5 DEF Copied

(* The prologue moves every parameter to its slot and writes nothing       *)
(* outside the frame.                                                      *)
LEMMA CopiedEffect ==
    ASSUME NEW f \in Functions, NEW m, DOMAIN m = Bytes,
           NEW base \in Nat, Frame(f) <= base, base <= Top,
           \A i \in 1 .. ParamCount[f] :
               i > Registers => base + StackArgumentOffset(i) + 8 <= Top
    PROVE  LET n == Copied(m, base, f)[ParamCount[f]]
           IN  /\ DOMAIN n = Bytes
               /\ \A b \in Bytes : b >= base \/ b < base - Frame(f) => n[b] = m[b]
               /\ \A i \in 1 .. ParamCount[f] :
                      SlotLoaded(n, base, f, i) = Incoming(m, base, f, i)
<1> DEFINE N == ParamCount[f]
           c == Copied(m, base, f)
           Outside(n) == \A b \in Bytes : b >= base \/ b < base - Frame(f) => n[b] = m[b]
           S == {i \in 0 .. N :
                   /\ DOMAIN c[i] = Bytes
                   /\ Outside(c[i])
                   /\ \A j \in 1 .. i : SlotLoaded(c[i], base, f, j) = Incoming(m, base, f, j)}
<1>1. /\ N \in Nat /\ \A i \in 1 .. N : i \in Operands(f)
      /\ \A i \in 1 .. N : Sizes[f][i] \in Widths
  BY OperandFacts
<1>2. /\ c[0] = m
      /\ \A i \in 1 .. N : c[i] = SlotStored(c[i - 1], base, f, i,
                                            Incoming(c[i - 1], base, f, i))
  <2> HIDE DEF c
  <2>1. c = [i \in 0 .. N |->
                IF i = 0 THEN m
                ELSE SlotStored(c[i - 1], base, f, i, Incoming(c[i - 1], base, f, i))]
    BY CopiedEquation DEF c
  <2>2. 0 \in 0 .. N /\ \A i \in 1 .. N : i \in 0 .. N /\ i # 0
    BY <1>1
  <2> HIDE DEF N
  <2> QED
    BY <2>1, <2>2
<1>3. Top \in Nat /\ Frame(f) \in Nat
  BY SlotFacts, CallsAssumption
<1> HIDE DEF c
(* What the prologue finds does not depend on the slots.                   *)
<1>4. ASSUME NEW n, Outside(n), NEW i \in 1 .. N
      PROVE  Incoming(n, base, f, i) = Incoming(m, base, f, i)
  <2>1. CASE i <= Registers
    BY <2>1 DEF Incoming
  <2>2. CASE i > Registers
    <3> DEFINE a == base + StackArgumentOffset(i)
               w == Sizes[f][i]
    <3>1. a \in Int /\ a >= base /\ a + 8 <= Top
      BY <1>1, <2>2 DEF StackArgumentOffset, Registers
    <3>2. w \in Widths /\ w \in Nat /\ w <= 8
      BY <1>1 DEF Widths
    <3> HIDE DEF a, w
    <3>3. \A b \in a .. (a + w - 1) : b \in Bytes /\ b >= base
      BY <1>3, <3>1, <3>2 DEF Bytes
    <3>4. \A b \in a .. (a + w - 1) : n[b] = m[b]
      BY <1>4, <3>3
    <3>5. Loaded(n, a, w) = Loaded(m, a, w)
      BY <3>1, <3>2, <3>4, LoadedSame
    <3> QED
      BY <1>1, <2>2, <3>5 DEF Incoming, a, w, Registers
  <2> QED
    BY <1>1, <2>1, <2>2 DEF Registers
<1>5. 0 \in S
  BY <1>1, <1>2
<1>6. ASSUME NEW i \in 1 .. N, i - 1 \in S PROVE i \in S
  <2> DEFINE p == c[i - 1]
             v == Incoming(p, base, f, i)
  <2>1. /\ DOMAIN p = Bytes
        /\ Outside(p)
        /\ \A j \in 1 .. i - 1 : SlotLoaded(p, base, f, j) = Incoming(m, base, f, j)
    BY <1>6
  <2>2. c[i] = SlotStored(p, base, f, i, v)
    BY <1>2
  <2>3. v = Incoming(m, base, f, i)
    BY <1>4, <2>1
  <2>4. i \in Operands(f)
    BY <1>1
  <2> HIDE DEF p, v
  <2>5. /\ DOMAIN c[i] = Bytes
        /\ \A b \in Bytes : b >= base \/ b < base - Frame(f) => c[i][b] = p[b]
        /\ SlotLoaded(c[i], base, f, i) = v
        /\ \A j \in Operands(f) : j # i =>
               SlotLoaded(c[i], base, f, j) = SlotLoaded(p, base, f, j)
    BY <2>1, <2>2, <2>4, SlotStoredEffect
  <2>6. Outside(c[i])
    BY <2>1, <2>5
  <2>7. ASSUME NEW j \in 1 .. i
        PROVE  SlotLoaded(c[i], base, f, j) = Incoming(m, base, f, j)
    <3>1. CASE j = i
      BY <2>3, <2>5, <3>1
    <3>2. CASE j # i
      <4>1. j \in 1 .. i - 1 /\ j \in Operands(f)
        BY <1>1, <3>2
      <4> QED
        BY <2>1, <2>5, <3>2, <4>1
    <3> QED
      BY <3>1, <3>2
  <2> QED
    BY <2>5, <2>6, <2>7
<1>7. N \in S
  <2> HIDE DEF S, N
  <2>1. \A i \in 0 .. N : i \in S
    BY <1>1, <1>5, <1>6, UpTo
  <2> QED
    BY <1>1, <2>1
<1> QED
  BY <1>7 DEF c

-----------------------------------------------------------------------------
(* The arguments of a call in f.                                           *)
LEMMA SiteFacts ==
    ASSUME NEW f \in Functions, NEW s \in CallSites[f]
    PROVE  /\ s.callee \in Functions
           /\ s.args \in Seq(Operands(f))
           /\ Len(s.args) = ParamCount[s.callee] /\ Len(s.args) \in Nat
           /\ \A i \in 1 .. Len(s.args) :
                  s.args[i] \in Operands(f) /\ Sizes[f][s.args[i]] = Sizes[s.callee][i]
           /\ s.result \in {0} \cup Operands(f)
<1>1. Site(f, s)
  BY CallsAssumption
<1>2. s.args \in Seq(Operands(f))
  BY <1>1 DEF Site
<1>3. DOMAIN s.args = 1 .. Len(s.args) /\ Len(s.args) \in Nat
  BY <1>2
<1> QED
  BY <1>1, <1>2, <1>3 DEF Site

(* emit_call takes off the stack what it put there, a multiple of 16.      *)
LEMMA StackArgumentFacts ==
    ASSUME NEW f \in Functions, NEW s \in CallSites[f]
    PROVE  LET a == StackArguments(s)
               n == Len(s.args)
           IN  /\ Len(a) \in Nat
               /\ Len(a) = IF n <= Registers THEN 0 ELSE n - Registers
               /\ \A i \in 1 .. Len(a) : a[i] = s.args[i + Registers]
               /\ \A i \in 1 .. Len(a) : a[i] \in Operands(f)
               /\ Padding(s) \in {0, 1}
               /\ Popped(s) \in Nat /\ Popped(s) % 16 = 0 /\ Popped(s) >= 8 * Len(a)
               /\ Popped(s) = 8 * Len(a) + 8 * Padding(s)
<1> DEFINE a == StackArguments(s)
           n == Len(s.args)
<1>1. /\ s.args \in Seq(Operands(f)) /\ n \in Nat
      /\ \A i \in 1 .. n : s.args[i] \in Operands(f)
  BY SiteFacts
<1>2. /\ Len(a) = IF n <= Registers THEN 0 ELSE n - Registers
      /\ \A i \in 1 .. Len(a) : a[i] = s.args[i + Registers]
  <2>1. CASE n <= Registers
    BY <1>1, <2>1 DEF StackArguments, Registers
  <2>2. CASE n > Registers
    BY <1>1, <2>2 DEF StackArguments, Registers
  <2> QED
    BY <1>1, <2>1, <2>2 DEF Registers
<1> HIDE DEF a, n
<1>3. Len(a) \in Nat
  BY <1>1, <1>2 DEF Registers
<1>4. \A i \in 1 .. Len(a) : i + Registers \in 1 .. n
  BY <1>1, <1>2 DEF Registers
<1>5. \A i \in 1 .. Len(a) : a[i] \in Operands(f)
  BY <1>1, <1>2, <1>4 DEF n
<1>6. \A l \in Nat : /\ l % 2 \in {0, 1}
                     /\ 8 * (l + (l % 2)) \in Nat
                     /\ (8 * (l + (l % 2))) % 16 = 0
                     /\ 8 * (l + (l % 2)) >= 8 * l
                     /\ 8 * (l + (l % 2)) = 8 * l + 8 * (l % 2)
  BY SMT
<1>7. Padding(s) = Len(a) % 2 /\ Popped(s) = 8 * (Len(a) + (Len(a) % 2))
  BY DEF Padding, Popped, a
<1> QED
  BY <1>2, <1>3, <1>5, <1>6, <1>7 DEF a, n

(* The recursive definition of ArgumentsPushed has a solution.             *)
LEMMA ArgumentsPushedEquation ==
    ASSUME NEW s, NEW sp, Len(StackArguments(s)) \in Nat
    PROVE  LET a == StackArguments(s)
               p == ArgumentsPushed(s, sp)
           IN  p = [k \in 0 .. Len(a) |->
                      IF k = 0 THEN [rsp |-> sp, mem |-> mem]
                      ELSE [rsp |-> p[k - 1].rsp - 8,
                            mem |-> Stored(p[k - 1].mem, p[k - 1].rsp - 8, 8,
                                           SlotLoaded(p[k - 1].mem, rbp, Current.fn,
                                                      a[Len(a) + 1 - k]))]]
<1> DEFINE a == StackArguments(s)
           N == Len(a)
           Step(g, k) == IF k = 0 THEN [rsp |-> sp, mem |-> mem]
                         ELSE [rsp |-> g[k - 1].rsp - 8,
                               mem |-> Stored(g[k - 1].mem, g[k - 1].rsp - 8, 8,
                                              SlotLoaded(g[k - 1].mem, rbp, Current.fn,
                                                         a[Len(a) + 1 - k]))]
           Prefix(n) == \E g : g = [i \in 0 .. n |-> Step(g, i)]
           S == {n \in Nat : Prefix(n)}
<1>1. N \in Nat
  OBVIOUS
<1>2. 0 \in S
  <2> DEFINE g == [i \in 0 .. 0 |-> [rsp |-> sp, mem |-> mem]]
  <2>1. g = [i \in 0 .. 0 |-> Step(g, i)]
    OBVIOUS
  <2> HIDE DEF g, Step
  <2> QED
    BY <2>1
<1>3. ASSUME NEW n \in 1 .. N, n - 1 \in S PROVE n \in S
  <2>1. PICK g : g = [i \in 0 .. n - 1 |-> Step(g, i)]
    BY <1>3
  <2> DEFINE h == [i \in 0 .. n |-> IF i = n THEN Step(g, n) ELSE g[i]]
  <2>2. \A i \in 0 .. n : Step(h, i) = Step(g, i)
    OBVIOUS
  <2>3. \A i \in 0 .. n : h[i] = Step(g, i)
    <3> HIDE DEF Step
    <3> QED
      BY <1>3, <2>1
  <2>4. h = [i \in 0 .. n |-> Step(h, i)]
    <3> HIDE DEF Step
    <3> QED
      BY <2>2, <2>3
  <2> HIDE DEF h, Step
  <2> QED
    BY <1>3, <2>4
<1>4. Prefix(N)
  <2> HIDE DEF S, N
  <2>1. \A n \in 0 .. N : n \in S
    BY <1>1, <1>2, <1>3, UpTo
  <2>2. N \in S
    BY <1>1, <2>1
  <2> QED
    BY <2>2 DEF S
<1>5. PICK g : g = [k \in 0 .. N |-> Step(g, k)]
  BY <1>4
<1> QED
  BY <1>5 DEF ArgumentsPushed

(* The arguments lie below sp in the order of the parameters, whatever     *)
(* width they are read at, and nothing above sp is touched.                *)
LEMMA ArgumentsPushedEffect ==
    ASSUME NEW f \in Functions, f = Current.fn, NEW s \in CallSites[f],
           DOMAIN mem = Bytes, rbp \in Nat, rbp <= Top,
           NEW sp \in Int, sp <= rbp - Frame(f)
    PROVE  LET a == StackArguments(s)
               p == ArgumentsPushed(s, sp)[Len(a)]
           IN  /\ p.rsp = sp - 8 * Len(a)
               /\ p.rsp >= 0 =>
                    /\ DOMAIN p.mem = Bytes
                    /\ \A b \in Bytes : b >= sp => p.mem[b] = mem[b]
                    /\ \A k \in 1 .. Len(a), w \in Widths :
                           Loaded(p.mem, sp - 8 * k, w) =
                               SlotLoaded(mem, rbp, f, a[Len(a) + 1 - k])
<1> DEFINE a == StackArguments(s)
           N == Len(a)
           p == ArgumentsPushed(s, sp)
           T == {k \in 0 .. N : p[k].rsp = sp - 8 * k}
           Above(n) == \A b \in Bytes : b >= sp => n[b] = mem[b]
           S == {k \in 0 .. N :
                   /\ DOMAIN p[k].mem = Bytes
                   /\ Above(p[k].mem)
                   /\ \A j \in 1 .. k, w \in Widths :
                          Loaded(p[k].mem, sp - 8 * j, w) =
                              SlotLoaded(mem, rbp, f, a[N + 1 - j])}
<1>1. N \in Nat /\ \A i \in 1 .. N : a[i] \in Operands(f)
  BY StackArgumentFacts
<1>2. /\ p[0] = [rsp |-> sp, mem |-> mem]
      /\ \A k \in 1 .. N :
             p[k] = [rsp |-> p[k - 1].rsp - 8,
                     mem |-> Stored(p[k - 1].mem, p[k - 1].rsp - 8, 8,
                                    SlotLoaded(p[k - 1].mem, rbp, f, a[N + 1 - k]))]
  <2>1. p = [k \in 0 .. N |->
               IF k = 0 THEN [rsp |-> sp, mem |-> mem]
               ELSE [rsp |-> p[k - 1].rsp - 8,
                     mem |-> Stored(p[k - 1].mem, p[k - 1].rsp - 8, 8,
                                    SlotLoaded(p[k - 1].mem, rbp, f, a[N + 1 - k]))]]
    BY <1>1, ArgumentsPushedEquation
  <2>2. 0 \in 0 .. N /\ \A i \in 1 .. N : i \in 0 .. N /\ i # 0
    BY <1>1
  <2> HIDE DEF N, p
  <2> QED
    BY <2>1, <2>2
<1> HIDE DEF N, p, a
<1>3. \A k \in 0 .. N : p[k].rsp = sp - 8 * k
  <2>1. 0 \in T
    BY <1>1, <1>2
  <2>2. ASSUME NEW k \in 1 .. N, k - 1 \in T PROVE k \in T
    <3> DEFINE n == Stored(p[k - 1].mem, p[k - 1].rsp - 8, 8,
                           SlotLoaded(p[k - 1].mem, rbp, f, a[N + 1 - k]))
    <3>1. p[k] = [rsp |-> p[k - 1].rsp - 8, mem |-> n]
      BY <1>2
    <3> HIDE DEF n
    <3>2. p[k].rsp = p[k - 1].rsp - 8
      BY <3>1
    <3>3. p[k - 1].rsp = sp - 8 * (k - 1)
      BY <2>2
    <3> QED
      BY <1>1, <3>2, <3>3
  <2> HIDE DEF T
  <2>3. \A k \in 0 .. N : k \in T
    BY <1>1, <2>1, <2>2, UpTo
  <2> QED
    BY <2>3 DEF T
<1>4. N \in 0 .. N
  BY <1>1
<1>5. ASSUME p[N].rsp >= 0 PROVE N \in S
  <2>1. sp - 8 * N >= 0
    BY <1>3, <1>4, <1>5
  <2>2. Top \in Nat /\ Frame(f) \in Nat
    BY SlotFacts, CallsAssumption
  <2>3. 0 \in S
    BY <1>1, <1>2
  <2>4. ASSUME NEW k \in 1 .. N, k - 1 \in S PROVE k \in S
    <3> DEFINE q == p[k - 1].mem
               n == p[k].mem
               at_k == sp - 8 * k
               v == SlotLoaded(mem, rbp, f, a[N + 1 - k])
    <3>1. /\ DOMAIN q = Bytes
          /\ Above(q)
          /\ \A j \in 1 .. k - 1, w \in Widths :
                 Loaded(q, sp - 8 * j, w) = SlotLoaded(mem, rbp, f, a[N + 1 - j])
      BY <2>4
    <3>2. p[k - 1].rsp - 8 = at_k
      <4>1. k - 1 \in 0 .. N
        BY <1>1
      <4>2. p[k - 1].rsp = sp - 8 * (k - 1)
        BY <1>3, <4>1
      <4> QED
        BY <4>2
    <3>3. a[N + 1 - k] \in Operands(f)
      BY <1>1
    <3>4. SlotLoaded(q, rbp, f, a[N + 1 - k]) = v
      <4>1. \A b \in (rbp - Frame(f)) .. (rbp - 1) : b \in Bytes /\ b >= sp
        BY <1>1, <2>1, <2>2 DEF Bytes
      <4>2. Same(mem, q, rbp - Frame(f), rbp)
        BY <3>1, <4>1 DEF Same
      <4> HIDE DEF q
      <4> QED
        BY <3>3, <4>2, SlotSame
    <3>5. n = Stored(q, at_k, 8, v)
      <4> DEFINE u == SlotLoaded(q, rbp, f, a[N + 1 - k])
                 r == p[k - 1].rsp - 8
      <4>1. p[k] = [rsp |-> r, mem |-> Stored(q, r, 8, u)]
        BY <1>2
      <4> HIDE DEF u, r, q
      <4>2. p[k].mem = Stored(q, r, 8, u)
        BY <4>1
      <4> QED
        BY <3>2, <3>4, <4>2 DEF u, r
    <3>6. at_k \in Int /\ at_k >= 0 /\ at_k + 8 <= sp /\ at_k .. (at_k + 8 - 1) \subseteq Bytes
      BY <1>1, <2>1, <2>2 DEF Bytes
    <3> HIDE DEF n, q, v
    <3>7. DOMAIN n = Bytes
      BY <3>1, <3>5, StoredElsewhere
    <3>8. \A b \in Bytes : b \notin at_k .. (at_k + 8 - 1) => n[b] = q[b]
      BY <3>1, <3>5, StoredElsewhere
    <3>9. Above(n)
      <4>1. \A b \in Bytes : b >= sp => b \notin at_k .. (at_k + 8 - 1)
        BY <3>6 DEF Bytes
      <4> QED
        BY <3>1, <3>8, <4>1
    <3>10. ASSUME NEW j \in 1 .. k, NEW w \in Widths
           PROVE  Loaded(n, sp - 8 * j, w) = SlotLoaded(mem, rbp, f, a[N + 1 - j])
      <4>1. w \in Nat /\ w <= 8
        BY DEF Widths
      <4>2. CASE j = k
        <5>1. Loaded(n, at_k, w) = v
          <6> HIDE DEF at_k
          <6> QED
            BY <3>1, <3>5, <3>6, <4>1, LoadedStored
        <5> QED
          BY <4>2, <5>1 DEF v
      <4>3. CASE j # k
        <5> DEFINE c == sp - 8 * j
        <5>1. j \in 1 .. k - 1
          BY <4>3
        <5>2. c \in Int /\ \A b \in c .. (c + w - 1) :
                              b \in Bytes /\ b \notin at_k .. (at_k + 8 - 1)
          BY <1>1, <2>1, <2>2, <4>1, <5>1 DEF Bytes
        <5>3. Loaded(q, c, w) = SlotLoaded(mem, rbp, f, a[N + 1 - j])
          BY <3>1, <5>1
        <5> HIDE DEF c
        <5>4. \A b \in c .. (c + w - 1) : n[b] = q[b]
          BY <3>8, <5>2
        <5>5. Loaded(n, c, w) = Loaded(q, c, w)
          BY <5>2, <5>4, LoadedSame
        <5> QED
          BY <5>3, <5>5 DEF c
      <4> QED
        BY <4>2, <4>3
    <3> QED
      BY <3>7, <3>9, <3>10 DEF n
  <2> HIDE DEF S
  <2>5. \A k \in 0 .. N : k \in S
    BY <1>1, <2>3, <2>4, UpTo
  <2> QED
    BY <1>4, <2>5
<1> QED
  BY <1>3, <1>4, <1>5 DEF N, a, p

-----------------------------------------------------------------------------
(* A sequence that is not empty has a first element.                       *)
LEMMA OwnLength ==
    ASSUME NEW a, a \in Seq({a[i] : i \in DOMAIN a}), a # <<>>
    PROVE  Len(a) \in Nat /\ Len(a) >= 1 /\ DOMAIN a = 1 .. Len(a)
<1> DEFINE X == {a[i] : i \in DOMAIN a}
<1>1. a \in Seq(X)
  OBVIOUS
<1> HIDE DEF X
<1> QED
  BY <1>1

(* Each active function but the first was called from the one below it.    *)
LEMMA ActiveFacts ==
    ASSUME Shape
    PROVE  /\ Depth \in Nat /\ Depth >= 1 /\ DOMAIN active = 1 .. Depth
           /\ active \in Seq({active[i] : i \in 1 .. Depth})
           /\ \A i \in 1 .. Depth : active[i].fn \in Functions
           /\ \A i \in 1 .. Depth :
                  i < Depth => /\ i + 1 \in 1 .. Depth
                               /\ active[i].site \in CallSites[active[i + 1].fn]
                               /\ active[i].site.callee = active[i].fn
<1>1. active \in Seq({active[i] : i \in DOMAIN active}) /\ active # <<>>
  BY DEF Shape
<1>3. Depth \in Nat /\ Depth >= 1 /\ DOMAIN active = 1 .. Depth
  BY <1>1, OwnLength DEF Depth
<1>4. \A i \in 1 .. Depth : Activation(i)
  BY DEF Shape
<1>5. \A i \in 1 .. Depth : i < Depth => i + 1 \in 1 .. Depth /\ i # Depth
  BY <1>3
<1> QED
  BY <1>1, <1>3, <1>4, <1>5 DEF Activation

(* The function on top has a frame only while it runs.                     *)
LEMMA EstablishedFacts ==
    ASSUME Shape
    PROVE  /\ Established \subseteq 1 .. Depth
           /\ \A i \in 1 .. Depth : i > 1 => i \in Established
           /\ at = "code" => 1 \in Established
           /\ at # "code" => 1 \notin Established
BY ActiveFacts DEF Established

(* The same of the state after a step.                                     *)
LEMMA EstablishedNext ==
    ASSUME Shape'
    PROVE  /\ Depth' \in Nat /\ Depth' >= 1
           /\ Established' = {i \in 1 .. Depth' : i > 1 \/ at' = "code"}
<1>1. Len(active') \in Nat /\ Len(active') >= 1 /\ DOMAIN active' = 1 .. Len(active')
  BY OwnLength DEF Shape
<1> QED
  BY <1>1 DEF Depth, Established

(* A sequence takes its elements from the set of its elements.             *)
LEMMA OwnElements ==
    ASSUME NEW S, NEW s \in Seq(S)
    PROVE  s \in Seq({s[i] : i \in DOMAIN s})
OBVIOUS

(* What lies between two frames depends on the bytes there.                *)
LEMMA LinksKept ==
    ASSUME NEW base \in Nat, NEW m, NEW n, Same(m, n, base, base + 16)
    PROVE  /\ Loaded(n, base, 8) = Loaded(m, base, 8)
           /\ Loaded(n, base + 8, 8) = Loaded(m, base + 8, 8)
<1>1. /\ \A b \in base .. (base + 8 - 1) : n[b] = m[b]
      /\ \A b \in (base + 8) .. (base + 8 + 8 - 1) : n[b] = m[b]
  BY DEF Same
<1>2. 8 \in Widths /\ base \in Int /\ base + 8 \in Int
  BY DEF Widths
<1> QED
  BY <1>1, <1>2, LoadedSame

(* A frame whose bytes stay keeps its operands and its links.              *)
LEMMA FrameKept ==
    ASSUME NEW f \in Functions, NEW base \in Nat, NEW m, NEW n,
           Same(m, n, base - Frame(f), base + 16)
    PROVE  /\ \A o \in Operands(f) : SlotLoaded(n, base, f, o) = SlotLoaded(m, base, f, o)
           /\ Loaded(n, base, 8) = Loaded(m, base, 8)
           /\ Loaded(n, base + 8, 8) = Loaded(m, base + 8, 8)
<1>1. Frame(f) \in Nat
  BY SlotFacts
<1>2. Same(m, n, base - Frame(f), base) /\ Same(m, n, base, base + 16)
  BY <1>1 DEF Same
<1> QED
  BY <1>2, SlotSame, LinksKept

(* A function that goes on being active, its frame untouched.              *)
LEMMA Carried ==
    ASSUME IInv, NEW i \in Established, NEW j \in 1 .. Depth', Shape',
           active'[j] = active[i], Depth' - j = Depth - i,
           i < Depth => active'[j + 1] = active[i + 1],
           Same(mem, mem', Low(i), Top)
    PROVE  Placed(j)' /\ InFrame(j)' /\ Linked(j)'
<1> DEFINE f == active[i].fn
           base == active[i].base
<1>1. /\ i \in 1 .. Depth /\ Depth \in Nat /\ Depth' \in Nat /\ f \in Functions
      /\ Placed(i) /\ InFrame(i) /\ Linked(i)
  <2>1. Shape
    BY DEF IInv
  <2>2. i \in 1 .. Depth
    BY <2>1, EstablishedFacts
  <2>3. Depth' \in Nat
    BY OwnLength DEF Shape, Depth
  <2> QED
    BY <2>1, <2>2, <2>3, ActiveFacts DEF IInv
<1>2. /\ (j < Depth') => (i < Depth)
      /\ (i < Depth) => (j < Depth')
  <2> DEFINE d == Depth
             e == Depth'
  <2>1. d \in Nat /\ e \in Nat /\ i \in Nat
    BY <1>1
  <2>2. j \in 1 .. e
    OBVIOUS
  <2>3. e - j = d - i
    OBVIOUS
  <2> HIDE DEF d, e
  <2>4. j \in Nat
    BY <2>1, <2>2
  <2>5. (j < e => i < d) /\ (i < d => j < e)
    BY <2>1, <2>3, <2>4
  <2> QED
    BY <2>5 DEF d, e
<1>3. base \in Nat /\ base + 16 <= Top /\ Low(i) = base - Frame(f)
  BY <1>1 DEF Placed, Low
<1>4. Frame(f) \in Nat /\ Top \in Nat
  BY <1>1, SlotFacts, CallsAssumption
<1>5. Same(mem, mem', base - Frame(f), base + 16)
  BY <1>3, <1>4 DEF Same
<1>6. /\ \A o \in Operands(f) : SlotLoaded(mem', base, f, o) = SlotLoaded(mem, base, f, o)
      /\ Loaded(mem', base, 8) = Loaded(mem, base, 8)
      /\ Loaded(mem', base + 8, 8) = Loaded(mem, base + 8, 8)
  BY <1>1, <1>3, <1>5, FrameKept
<1>7. Placed(j)'
  BY <1>1, <1>2 DEF Placed, Low
<1>8. InFrame(j)'
  BY <1>1, <1>6 DEF InFrame
<1>9. Linked(j)'
  BY <1>1, <1>2, <1>6 DEF Linked
<1> QED
  BY <1>7, <1>8, <1>9

-----------------------------------------------------------------------------
(* The function that runs changes, the functions it was called from do not.*)
LEMMA TopReplaced ==
    ASSUME Shape, NEW x, active' = [active EXCEPT ![1] = x],
           x = [fn |-> x.fn, base |-> x.base, site |-> x.site,
                result |-> x.result, values |-> x.values],
           x.fn = active[1].fn, x.site = active[1].site,
           DOMAIN x.values = Operands(x.fn),
           DOMAIN mem' = Bytes, at' \in {"code", "prologue", "returned"}
    PROVE  /\ Shape'
           /\ Depth' = Depth
           /\ active'[1] = x
           /\ \A i \in 2 .. Depth : active'[i] = active[i]
<1> DEFINE X == {active[i] : i \in 1 .. Depth}
           a == active'
           d == Depth
<1>1. /\ d \in Nat /\ d >= 1 /\ DOMAIN active = 1 .. d /\ active \in Seq(X)
      /\ \A i \in 1 .. d : Activation(i)
  BY ActiveFacts DEF Shape
<1>2. active \in Seq(X \cup {x})
  <2> HIDE DEF X
  <2> QED
    BY <1>1
<1>3. /\ a \in Seq(X \cup {x}) /\ Len(a) = Len(active) /\ a[1] = x
      /\ \A i \in 1 .. d : i # 1 => a[i] = active[i]
  <2> HIDE DEF X, d
  <2>1. a = [active EXCEPT ![1] = x] /\ 1 \in DOMAIN active
    BY <1>1
  <2> HIDE DEF a
  <2> QED
    BY <1>1, <1>2, <2>1
<1>4. a \in Seq({a[i] : i \in DOMAIN a})
  <2> DEFINE Y == X \cup {x}
  <2>1. a \in Seq(Y)
    BY <1>3
  <2> HIDE DEF Y, a
  <2> QED
    BY <2>1, OwnElements
<1>5. Len(a) = d
  BY <1>3 DEF Depth
<1>6. a # <<>>
  <2> HIDE DEF a, d
  <2> QED
    BY <1>1, <1>5
<1>7. Depth' = d
  BY <1>5 DEF Depth
<1>8. ASSUME NEW i \in 1 .. d PROVE Activation(i)'
  <2>1. i < d => i + 1 \in 1 .. d /\ a[i + 1] = active[i + 1]
    BY <1>1, <1>3
  <2>2. i # d => i < d
    BY <1>1
  <2>3. CASE i = 1
    <3>1. Activation(1)
      BY <1>1
    <3>2. a[1] = x
      BY <1>3
    <3> HIDE DEF d
    <3>3. a[1] = [fn |-> a[1].fn, base |-> a[1].base, site |-> a[1].site,
                  result |-> a[1].result, values |-> a[1].values]
      BY <3>2
    <3>4. /\ a[1].fn = active[1].fn /\ a[1].site = active[1].site
          /\ DOMAIN a[1].values = Operands(a[1].fn)
      BY <3>2
    <3>5. IF 1 = Depth' THEN a[1].fn = Main
          ELSE /\ a[1].site \in CallSites[a[1 + 1].fn]
               /\ a[1].site.callee = a[1].fn
      BY <1>7, <2>1, <2>2, <2>3, <3>1, <3>4 DEF Activation, d
    <3> QED
      BY <2>3, <3>1, <3>3, <3>4, <3>5 DEF Activation
  <2>4. CASE i # 1
    <3>1. Activation(i) /\ a[i] = active[i]
      BY <1>1, <1>3, <2>4
    <3>2. i # d => a[i + 1] = active[i + 1]
      BY <2>1, <2>2
    <3> QED
      BY <1>7, <3>1, <3>2 DEF Activation
  <2> QED
    BY <2>3, <2>4
<1>9. Shape'
  BY <1>4, <1>6, <1>7, <1>8 DEF Shape
<1>10. \A i \in 2 .. d : i \in 1 .. d /\ i # 1
  BY <1>1
<1> QED
  BY <1>3, <1>7, <1>9, <1>10

(* An older frame lies above a newer one, all of it.                       *)
LEMMA LowGrows ==
    ASSUME IInv, NEW j \in Established
    PROVE  /\ Low(j) \in Nat /\ active[j].base \in Nat /\ Low(j) <= active[j].base
           /\ \A i \in Established : i < j => /\ active[i].base + 16 <= Low(j)
                                              /\ Low(i) <= Low(j)
<1>1. Shape /\ \A i \in Established : Placed(i)
  BY DEF IInv
<1>2. \A i \in Established : /\ active[i].fn \in Functions
                             /\ Frame(active[i].fn) \in Nat
  BY <1>1, ActiveFacts, EstablishedFacts, SlotFacts
<1>3. \A i \in Established : /\ active[i].base \in Nat
                             /\ Low(i) \in Nat
                             /\ Low(i) <= active[i].base
  BY <1>1, <1>2 DEF Placed, Low
<1>4. ASSUME NEW i \in Established, i < j
      PROVE  active[i].base + 16 <= Low(j) /\ Low(i) <= Low(j)
  <2>1. active[i].base + 16 <= Low(j)
    BY <1>4 DEF IInv, Ordered
  <2> QED
    BY <1>3, <2>1
<1> QED
  BY <1>3, <1>4

(* A frame that is set up lies on the stack.                               *)
LEMMA FrameBounds ==
    ASSUME IInv, NEW i \in Established
    PROVE  LET f == active[i].fn
               base == active[i].base
           IN  /\ i \in 1 .. Depth
               /\ f \in Functions
               /\ Frame(f) \in Nat /\ Frame(f) % 16 = 0
               /\ base \in Nat /\ Top \in Nat
               /\ Frame(f) <= base /\ base <= Top /\ base + 16 <= Top
<1>1. Shape /\ Placed(i)
  BY DEF IInv
<1>2. i \in 1 .. Depth /\ active[i].fn \in Functions
  BY <1>1, ActiveFacts, EstablishedFacts
<1>3. Frame(active[i].fn) \in Nat /\ Frame(active[i].fn) % 16 = 0
  BY <1>2, SlotFacts
<1>4. Top \in Nat
  BY CallsAssumption
<1> QED
  BY <1>1, <1>2, <1>3, <1>4 DEF Placed, Low

(* An instruction writes the slot of its operand.                          *)
LEMMA ComputeIInv ==
    ASSUME IInv, NEW o \in Assigned[Current.fn], Compute(o)
    PROVE  IInv'
<1> DEFINE f == active[1].fn
           base == active[1].base
           v == Value("computed", Depth, o)
           x == [active[1] EXCEPT !.values[o] = v]
<1>1. /\ at = "code" /\ at' = "code" /\ rbp' = rbp /\ rsp' = rsp
      /\ mem' = SlotStored(mem, rbp, f, o, v)
      /\ active' = [active EXCEPT ![1] = x]
  BY DEF Compute, Current
<1>2. Shape /\ 1 \in Established /\ f \in Functions /\ o \in Operands(f)
  <2>1. Shape
    BY DEF IInv
  <2>2. 1 \in 1 .. Depth
    BY <2>1, ActiveFacts
  <2>3. f \in Functions
    BY <2>1, <2>2, ActiveFacts
  <2> QED
    BY <1>1, <2>1, <2>3, EstablishedFacts, CallsAssumption DEF Current
<1>3. Depth \in Nat /\ 1 \in 1 .. Depth
  BY <1>2, ActiveFacts
<1>4. /\ Placed(1) /\ InFrame(1) /\ Linked(1)
      /\ rbp = base /\ rsp = Low(1)
  BY <1>1, <1>2 DEF IInv, InCode
<1>5. DOMAIN mem = Bytes /\ Activation(1)
  BY <1>2, <1>3 DEF Shape
<1>6. /\ base \in Nat /\ Frame(f) <= base /\ base + 16 <= Top /\ base <= Top
      /\ Frame(f) \in Nat /\ Top \in Nat
  BY <1>2, FrameBounds
<1>7. /\ DOMAIN mem' = Bytes
      /\ \A b \in Bytes : b >= base \/ b < base - Frame(f) => mem'[b] = mem[b]
      /\ SlotLoaded(mem', base, f, o) = v
      /\ \A p \in Operands(f) :
             p # o => SlotLoaded(mem', base, f, p) = SlotLoaded(mem, base, f, p)
  BY <1>1, <1>2, <1>4, <1>5, <1>6, SlotStoredEffect
<1>8. /\ x = [fn |-> f, base |-> base, site |-> active[1].site,
              result |-> active[1].result, values |-> [active[1].values EXCEPT ![o] = v]]
      /\ DOMAIN active[1].values = Operands(f)
  BY <1>5 DEF Activation
<1>9. /\ x = [fn |-> x.fn, base |-> x.base, site |-> x.site,
              result |-> x.result, values |-> x.values]
      /\ x.fn = f /\ x.base = base /\ x.site = active[1].site
      /\ x.values = [active[1].values EXCEPT ![o] = v]
      /\ DOMAIN x.values = Operands(x.fn)
  <2> DEFINE w == [active[1].values EXCEPT ![o] = v]
  <2>1. DOMAIN w = Operands(f)
    BY <1>8
  <2> HIDE DEF w, f, base
  <2>2. x = [fn |-> f, base |-> base, site |-> active[1].site,
             result |-> active[1].result, values |-> w]
    BY <1>8 DEF w
  <2> HIDE DEF x
  <2> QED
    BY <2>1, <2>2 DEF w, f, base
<1> HIDE DEF x, f, base, v
<1>10. /\ Shape'
       /\ Depth' = Depth
       /\ active'[1] = x
       /\ \A i \in 2 .. Depth : active'[i] = active[i]
  BY <1>1, <1>2, <1>7, <1>9, TopReplaced DEF f
<1>11. Established' = 1 .. Depth /\ Established = 1 .. Depth
  BY <1>1, <1>2, <1>10, ActiveFacts DEF Established, Shape
<1>12. ASSUME NEW i \in 2 .. Depth PROVE Placed(i)' /\ InFrame(i)' /\ Linked(i)'
  <2>1. i \in Established /\ 1 < i
    BY <1>3, <1>11
  <2>2. Low(i) \in Nat /\ base + 16 <= Low(i)
    BY <1>2, <2>1, LowGrows DEF base
  <2>3. Same(mem, mem', Low(i), Top)
    BY <1>6, <1>7, <2>2 DEF Same, Bytes
  <2>4. i < Depth => active'[i + 1] = active[i + 1]
    BY <1>3, <1>10
  <2>5. i \in 1 .. Depth'
    BY <1>3, <1>10
  <2> QED
    BY <1>10, <2>1, <2>3, <2>4, <2>5, Carried
<1>13. Placed(1)'
  <2>1. 1 < Depth => active'[1 + 1] = active[1 + 1]
    BY <1>3, <1>10
  <2> QED
    BY <1>4, <1>9, <1>10, <2>1 DEF Placed, Low, f, base
<1>14. InFrame(1)'
  <2> SUFFICES ASSUME NEW p \in Operands(f), x.values[p] # Unset
               PROVE  SlotLoaded(mem', base, f, p) = x.values[p]
    BY <1>9, <1>10 DEF InFrame
  <2>1. CASE p = o
    <3>1. x.values[p] = v
      BY <1>8, <1>9, <2>1
    <3> QED
      BY <1>7, <2>1, <3>1
  <2>2. CASE p # o
    <3>1. x.values[p] = active[1].values[p]
      BY <1>8, <1>9, <2>2
    <3> QED
      BY <1>4, <1>7, <2>2, <3>1 DEF InFrame, f, base
  <2> QED
    BY <2>1, <2>2
<1>15. Linked(1)'
  <2>1. Same(mem, mem', base, base + 16)
    BY <1>6, <1>7 DEF Same, Bytes
  <2>2. /\ Loaded(mem', base, 8) = Loaded(mem, base, 8)
        /\ Loaded(mem', base + 8, 8) = Loaded(mem, base + 8, 8)
    BY <1>6, <2>1, LinksKept
  <2>3. 1 < Depth => active'[1 + 1] = active[1 + 1]
    BY <1>3, <1>10
  <2> QED
    BY <1>4, <1>9, <1>10, <2>2, <2>3 DEF Linked, base
<1>16. \A i \in 1 .. Depth : active'[i].base = active[i].base /\ Low(i)' = Low(i)
  <2> SUFFICES ASSUME NEW i \in 1 .. Depth
               PROVE  active'[i].base = active[i].base /\ active'[i].fn = active[i].fn
    BY DEF Low
  <2>1. i # 1 => i \in 2 .. Depth
    BY <1>3
  <2> QED
    BY <1>9, <1>10, <2>1 DEF base, f
<1>17. Ordered'
  BY <1>11, <1>16 DEF IInv, Ordered
<1>18. InCode' /\ InPrologue' /\ InReturned'
  BY <1>1, <1>3, <1>4, <1>16 DEF InCode, InPrologue, InReturned, base
<1>19. \A i \in Established' : Placed(i)' /\ InFrame(i)' /\ Linked(i)'
  <2> SUFFICES ASSUME NEW i \in 1 .. Depth PROVE Placed(i)' /\ InFrame(i)' /\ Linked(i)'
    BY <1>11
  <2>1. i # 1 => i \in 2 .. Depth
    BY <1>3
  <2> QED
    BY <1>12, <1>13, <1>14, <1>15, <2>1
<1> QED
  BY <1>10, <1>17, <1>18, <1>19 DEF IInv

(* The prologue links the new frame to the caller's and fills it.          *)
LEMMA PrologueIInv ==
    ASSUME IInv, Prologue
    PROVE  IInv'
<1> DEFINE f == active[1].fn
           base == rsp - 8
           N == ParamCount[f]
           m1 == Stored(mem, base, 8, Address(rbp))
           x == [active[1] EXCEPT !.base = base, !.values = Bound(f)]
           s == active[1].site
<1>1. /\ at = "prologue" /\ at' = "code"
      /\ base >= Frame(f)
      /\ mem' = Copied(m1, base, f)[N]
      /\ rbp' = base /\ rsp' = base - Frame(f)
      /\ active' = [active EXCEPT ![1].base = base, ![1].values = Bound(f)]
  BY DEF Prologue, Current
<1>2. Shape /\ Depth \in Nat /\ 1 \in 1 .. Depth /\ f \in Functions
  <2>1. Shape
    BY DEF IInv
  <2>2. Depth \in Nat /\ 1 \in 1 .. Depth
    BY <2>1, ActiveFacts
  <2> QED
    BY <2>1, <2>2, ActiveFacts
<1>3. Activation(1) /\ DOMAIN mem = Bytes
  BY <1>2 DEF Shape
<1>4. Established = 2 .. Depth
  BY <1>1, <1>2, ActiveFacts DEF Established
<1>5. /\ rsp \in Nat /\ rsp + 8 <= Top
      /\ Loaded(mem, rsp, 8) = ReturnAddress(Depth - 1)
      /\ Depth = 1 => rsp = Top - 8 /\ rbp = 0
      /\ Depth > 1 =>
             /\ rsp + 8 + Popped(s) = Low(2)
             /\ rbp = active[2].base
             /\ \A i \in 1 .. N : /\ active[2].values[s.args[i]] # Unset
                                  /\ Argument(i) = active[2].values[s.args[i]]
  BY <1>1 DEF IInv, InPrologue
<1>6. /\ Frame(f) \in Nat /\ Frame(f) % 16 = 0 /\ Top \in Nat /\ Top % 16 = 0
      /\ N \in Nat /\ \A i \in 1 .. N : i \in Operands(f) /\ Sizes[f][i] \in Widths
  BY <1>2, SlotFacts, OperandFacts, CallsAssumption
<1>7. /\ base \in Nat /\ Frame(f) <= base /\ base + 16 <= Top /\ base <= Top
  <2>1. rsp \in Nat /\ rsp + 8 <= Top
    BY <1>5
  <2>2. Frame(f) \in Nat /\ Top \in Nat
    BY <1>6
  <2> QED
    BY <1>1, <2>1, <2>2
<1>8. Depth = 1 => N = 0
  BY <1>3, CallsAssumption DEF Activation
(* What the caller pushed lies between its frame and this one.             *)
<1>9. Depth > 1 =>
          /\ 2 \in Established /\ Low(2) \in Nat /\ Low(2) <= Top
          /\ Popped(s) \in Nat /\ Popped(s) % 16 = 0
          /\ N > Registers => Popped(s) >= 8 * (N - Registers)
          /\ Low(2) % 16 = 0
  <2> SUFFICES ASSUME Depth > 1
               PROVE  /\ 2 \in Established /\ Low(2) \in Nat /\ Low(2) <= Top
                      /\ Popped(s) \in Nat /\ Popped(s) % 16 = 0
                      /\ N > Registers => Popped(s) >= 8 * (N - Registers)
                      /\ Low(2) % 16 = 0
    OBVIOUS
  <2>1. 2 \in Established
    BY <1>2, <1>4
  <2>2. Low(2) \in Nat /\ Low(2) <= active[2].base
    BY <2>1, LowGrows
  <2>3. /\ active[2].fn \in Functions /\ active[2].base <= Top
        /\ active[2].base \in Nat
        /\ Frame(active[2].fn) \in Nat /\ Frame(active[2].fn) % 16 = 0
    BY <2>1, FrameBounds
  <2>4. active[1 + 1] = active[2]
    OBVIOUS
  <2>5. s \in CallSites[active[2].fn] /\ s.callee = f
    BY <1>2, <2>4, ActiveFacts
  <2>6. Len(s.args) = N
    BY <2>3, <2>5, SiteFacts
  <2>7. /\ Popped(s) \in Nat /\ Popped(s) % 16 = 0
        /\ Popped(s) >= 8 * Len(StackArguments(s))
        /\ Len(StackArguments(s)) = IF N <= Registers THEN 0 ELSE N - Registers
    BY <2>3, <2>5, <2>6, StackArgumentFacts
  <2>8. N > Registers => Popped(s) >= 8 * (N - Registers)
    BY <1>6, <2>7 DEF Registers
  <2>9. active[2].base % 16 = 0
    BY <2>1 DEF IInv, Placed
  <2>10. Low(2) % 16 = 0
    BY <2>3, <2>9 DEF Low
  <2> QED
    BY <1>6, <2>1, <2>2, <2>3, <2>7, <2>8, <2>10
<1>10. base % 16 = 0
  <2>1. CASE Depth = 1
    BY <1>5, <1>6, <1>7, <2>1
  <2>2. CASE Depth > 1
    <3> DEFINE p == Popped(s)
               l == Low(2)
    <3>1. p \in Nat /\ l \in Nat /\ p % 16 = 0 /\ l % 16 = 0 /\ rsp + 8 + p = l
      BY <1>5, <1>9, <2>2
    <3> HIDE DEF p, l
    <3> QED
      BY <1>5, <1>7, <3>1
  <2> QED
    BY <1>2, <2>1, <2>2
<1>11. \A i \in 1 .. N :
           i > Registers => base + StackArgumentOffset(i) + 8 <= Top
  <2> SUFFICES ASSUME NEW i \in 1 .. N, i > Registers
               PROVE  base + StackArgumentOffset(i) + 8 <= Top
    OBVIOUS
  <2>1. Depth > 1 /\ N > Registers
    BY <1>2, <1>6, <1>8 DEF Registers
  <2> DEFINE p == Popped(s)
             l == Low(2)
  <2>2. p \in Nat /\ l \in Nat /\ p >= 8 * (N - 6) /\ l <= Top /\ rsp + 8 + p = l
    BY <1>5, <1>9, <2>1 DEF Registers
  <2> HIDE DEF p, l, N
  <2> QED
    BY <1>5, <1>6, <2>2 DEF StackArgumentOffset, Registers
<1>12. /\ DOMAIN m1 = Bytes
       /\ \A b \in Bytes : b \notin base .. (base + 8 - 1) => m1[b] = mem[b]
       /\ Loaded(m1, base, 8) = Address(rbp)
  <2>1. base .. (base + 8 - 1) \subseteq DOMAIN mem
    BY <1>3, <1>6, <1>7 DEF Bytes
  <2>2. 8 \in Widths /\ 8 \in Nat /\ base \in Int
    BY <1>7 DEF Widths
  <2> HIDE DEF base
  <2> QED
    BY <1>3, <2>1, <2>2, LoadedStored, StoredElsewhere
<1> HIDE DEF m1, base, s, f, N
<1>13. /\ DOMAIN mem' = Bytes
       /\ \A b \in Bytes : b >= base \/ b < base - Frame(f) => mem'[b] = m1[b]
       /\ \A i \in 1 .. N : SlotLoaded(mem', base, f, i) = Incoming(m1, base, f, i)
  BY <1>1, <1>2, <1>7, <1>11, <1>12, CopiedEffect DEF N
<1>14. Same(mem, m1, base + 8, Top) /\ Same(m1, mem', base, Top)
  BY <1>6, <1>7, <1>12, <1>13 DEF Same, Bytes
<1>15. Same(mem, mem', base + 8, Top)
  BY <1>6, <1>7, <1>14 DEF Same
<1>16. ASSUME NEW i \in 1 .. N PROVE Incoming(m1, base, f, i) = Argument(i)
  <2>1. CASE i <= Registers
    BY <2>1 DEF Incoming, Argument
  <2>2. CASE i > Registers
    <3> DEFINE a == base + StackArgumentOffset(i)
               w == Sizes[f][i]
    <3>1. w \in Widths /\ w \in Nat /\ w <= 8
      BY <1>6 DEF Widths
    <3>2. /\ a \in Int /\ a >= base + 8 /\ a + 8 <= Top
          /\ a = rsp + 8 + (i - Registers - 1) * 8
      BY <1>5, <1>6, <1>7, <1>11, <2>2 DEF StackArgumentOffset, Registers, base
    <3> HIDE DEF a, w
    <3>3. \A b \in a .. (a + w - 1) : m1[b] = mem[b]
      BY <1>6, <1>7, <1>14, <3>1, <3>2 DEF Same
    <3>4. Loaded(m1, a, w) = Loaded(mem, a, w)
      BY <3>1, <3>2, <3>3, LoadedSame
    <3>5. ~(i <= Registers)
      BY <1>6, <2>2 DEF Registers
    <3> QED
      BY <3>2, <3>4, <3>5 DEF Incoming, Argument, a, w, f
  <2> QED
    BY <1>6, <2>1, <2>2 DEF Registers
<1>17. /\ x = [fn |-> f, base |-> base, site |-> s,
               result |-> active[1].result, values |-> Bound(f)]
       /\ active' = [active EXCEPT ![1] = x]
  <2>1. 1 \in DOMAIN active
    BY <1>2, ActiveFacts
  <2>2. x = [fn |-> f, base |-> base, site |-> s,
             result |-> active[1].result, values |-> Bound(f)]
    <3> DEFINE y == active[1]
               w == Bound(f)
    <3>1. y = [fn |-> y.fn, base |-> y.base, site |-> y.site, result |-> y.result,
               values |-> y.values]
      BY <1>3 DEF Activation
    <3>2. x = [y EXCEPT !.base = base, !.values = w]
      OBVIOUS
    <3> HIDE DEF w, y, x
    <3>3. x = [fn |-> y.fn, base |-> base, site |-> y.site, result |-> y.result,
               values |-> w]
      BY <3>1, <3>2
    <3> QED
      BY <3>3 DEF y, w, f, s
  <2>3. active' = [active EXCEPT ![1] = x]
    BY <1>1, <2>1
  <2> QED
    BY <2>2, <2>3
<1>18. DOMAIN Bound(f) = Operands(f)
  BY DEF Bound
<1>19. /\ x = [fn |-> x.fn, base |-> x.base, site |-> x.site,
               result |-> x.result, values |-> x.values]
       /\ x.fn = f /\ x.base = base /\ x.site = s /\ x.values = Bound(f)
       /\ DOMAIN x.values = Operands(x.fn)
  <2> DEFINE w == Bound(f)
  <2>1. x = [fn |-> f, base |-> base, site |-> s, result |-> active[1].result, values |-> w]
    BY <1>17
  <2>2. DOMAIN w = Operands(f)
    BY <1>18
  <2> HIDE DEF w, x
  <2> QED
    BY <2>1, <2>2 DEF w
<1> HIDE DEF x
<1>20. /\ Shape'
       /\ Depth' = Depth
       /\ active'[1] = x
       /\ \A i \in 2 .. Depth : active'[i] = active[i]
  BY <1>1, <1>2, <1>13, <1>17, <1>19, TopReplaced DEF f, s
<1>21. Established' = 1 .. Depth
  BY <1>1, <1>2, <1>20, ActiveFacts DEF Established, Shape
<1>22. ASSUME NEW i \in 2 .. Depth
       PROVE  /\ i \in Established
              /\ Low(i) \in Nat /\ base + 16 <= Low(i)
              /\ Low(i)' = Low(i) /\ active'[i].base = active[i].base
  <2>1. i \in Established
    BY <1>4
  <2>2. Depth > 1 /\ 2 \in Established
    BY <1>2, <1>4
  <2>3. Low(i) \in Nat /\ Low(2) \in Nat /\ Low(2) <= Low(i)
    <3>1. i = 2 \/ 2 < i
      BY <1>2
    <3>2. Low(i) \in Nat /\ Low(2) \in Nat
      BY <2>1, <2>2, LowGrows
    <3>3. 2 < i => Low(2) <= Low(i)
      BY <2>1, <2>2, LowGrows
    <3> QED
      BY <3>1, <3>2, <3>3
  <2>4. base + 16 <= Low(2)
    <3> DEFINE p == Popped(s)
               l == Low(2)
    <3>1. p \in Nat /\ l \in Nat /\ rsp + 8 + p = l
      BY <1>5, <1>9, <2>2
    <3> HIDE DEF p, l
    <3>2. base + 16 <= l
      BY <1>5, <3>1 DEF base
    <3> QED
      BY <3>2 DEF l
  <2>5. active'[i] = active[i]
    BY <1>20
  <2> QED
    BY <1>7, <2>1, <2>3, <2>4, <2>5 DEF Low
<1>23. ASSUME NEW i \in 2 .. Depth PROVE Placed(i)' /\ InFrame(i)' /\ Linked(i)'
  <2>1. Same(mem, mem', Low(i), Top)
    BY <1>7, <1>15, <1>22 DEF Same
  <2>2. i < Depth => active'[i + 1] = active[i + 1]
    BY <1>2, <1>20
  <2>3. i \in 1 .. Depth'
    BY <1>2, <1>20
  <2> QED
    BY <1>20, <1>22, <2>1, <2>2, <2>3, Carried
<1>24. 1 < Depth => active'[1 + 1] = active[2]
  BY <1>2, <1>20
<1>25. Low(1)' = base - Frame(f)
  BY <1>19, <1>20 DEF Low
<1>26. Placed(1)'
  <2>1. active'[1].base = base /\ active'[1].site = s
    BY <1>19, <1>20
  <2>2. /\ base - Frame(f) >= 0
    BY <1>6, <1>7
  <2>3. 1 < Depth => base + 16 + Popped(s) = Low(2)
    <3> SUFFICES ASSUME 1 < Depth PROVE base + 16 + Popped(s) = Low(2)
      OBVIOUS
    <3> DEFINE p == Popped(s)
               l == Low(2)
    <3>1. p \in Nat /\ l \in Nat /\ rsp + 8 + p = l
      BY <1>2, <1>5, <1>9
    <3> HIDE DEF p, l
    <3>2. base + 16 + p = l
      BY <1>5, <3>1 DEF base
    <3> QED
      BY <3>2 DEF l, p
  <2>4. 1 < Depth => Low(1 + 1)' = Low(2)
    BY <1>24 DEF Low
  <2> QED
    BY <1>7, <1>10, <1>20, <1>25, <2>1, <2>2, <2>3, <2>4 DEF Placed
<1>27. InFrame(1)'
  <2> SUFFICES ASSUME NEW o \in Operands(f), Bound(f)[o] # Unset
               PROVE  SlotLoaded(mem', base, f, o) = Bound(f)[o]
    BY <1>19, <1>20 DEF InFrame
  <2>1. /\ o <= N
        /\ Bound(f)[o] = active[2].values[s.args[o]]
    BY DEF Bound, N, s, Current
  <2>2. o \in 1 .. N
    BY <1>2, <2>1, OperandFacts DEF N
  <2>3. Depth > 1
    BY <1>2, <1>8, <2>2
  <2>4. Argument(o) = active[2].values[s.args[o]]
    BY <1>5, <2>2, <2>3
  <2> QED
    BY <1>13, <1>16, <2>1, <2>2, <2>4
<1>28. Linked(1)'
  <2>1. Loaded(mem', base + 8, 8) = ReturnAddress(Depth - 1)
    <3>1. base + 8 = rsp /\ rsp \in Int
      BY <1>5 DEF base
    <3>2. \A b \in rsp .. (rsp + 8 - 1) : mem'[b] = mem[b]
      BY <1>5, <1>6, <1>15, <3>1 DEF Same
    <3>3. 8 \in Widths
      BY DEF Widths
    <3>4. Loaded(mem', rsp, 8) = Loaded(mem, rsp, 8)
      BY <3>1, <3>2, <3>3, LoadedSame
    <3> QED
      BY <1>5, <3>1, <3>4
  <2>2. Loaded(mem', base, 8) = Address(rbp)
    <3>1. base \in Int /\ 8 \in Widths
      BY <1>7 DEF Widths
    <3>2. \A b \in base .. (base + 8 - 1) : mem'[b] = m1[b]
      BY <1>6, <1>7, <1>14 DEF Same
    <3>3. Loaded(mem', base, 8) = Loaded(m1, base, 8)
      BY <3>1, <3>2, LoadedSame
    <3> QED
      BY <1>12, <3>3
  <2>3. rbp = IF 1 < Depth THEN active'[1 + 1].base ELSE 0
    BY <1>2, <1>5, <1>24
  <2>4. active'[1].base = base
    BY <1>19, <1>20
  <2> QED
    BY <1>20, <2>1, <2>2, <2>3, <2>4 DEF Linked
<1>29. Ordered'
  <2> SUFFICES ASSUME NEW i \in 1 .. Depth, NEW j \in 1 .. Depth, i < j
               PROVE  active'[i].base + 16 <= Low(j)'
    BY <1>21 DEF Ordered
  <2>1. j \in 2 .. Depth
    BY <1>2
  <2>2. CASE i = 1
    <3>1. active'[1].base = base
      BY <1>19, <1>20
    <3> QED
      BY <1>22, <2>1, <2>2, <3>1
  <2>3. CASE i # 1
    <3>1. i \in 2 .. Depth
      BY <1>2, <2>3
    <3>2. active[i].base + 16 <= Low(j)
      BY <1>4, <2>1, <3>1 DEF IInv, Ordered
    <3> QED
      BY <1>22, <2>1, <3>1, <3>2
  <2> QED
    BY <2>2, <2>3
<1>30. InCode' /\ InPrologue' /\ InReturned'
  BY <1>1, <1>19, <1>20, <1>25 DEF InCode, InPrologue, InReturned
<1>31. \A i \in Established' : Placed(i)' /\ InFrame(i)' /\ Linked(i)'
  <2> SUFFICES ASSUME NEW i \in 1 .. Depth PROVE Placed(i)' /\ InFrame(i)' /\ Linked(i)'
    BY <1>21
  <2>1. i # 1 => i \in 2 .. Depth
    BY <1>2
  <2> QED
    BY <1>23, <1>26, <1>27, <1>28, <2>1
<1> QED
  BY <1>20, <1>29, <1>30, <1>31 DEF IInv

-----------------------------------------------------------------------------
(* A function is called: it comes before those that are active.            *)
LEMMA FunctionAdded ==
    ASSUME Shape, NEW s \in CallSites[active[1].fn],
           active' = <<Started(s.callee, s)>> \o active,
           DOMAIN mem' = Bytes, at' \in {"code", "prologue", "returned"}
    PROVE  /\ Shape'
           /\ Depth' = Depth + 1
           /\ active'[1] = Started(s.callee, s)
           /\ \A i \in 1 .. Depth : active'[i + 1] = active[i]
<1> DEFINE X == {active[i] : i \in 1 .. Depth}
           a == active'
           d == Depth
           x == Started(s.callee, s)
<1>1. /\ d \in Nat /\ d >= 1 /\ active \in Seq(X)
      /\ \A i \in 1 .. d : Activation(i)
  BY ActiveFacts DEF Shape
<1>2. s.callee \in Functions
  <2>1. active[1].fn \in Functions
    BY <1>1, ActiveFacts
  <2> QED
    BY <2>1, SiteFacts
<1>3. active \in Seq(X \cup {x}) /\ <<x>> \in Seq(X \cup {x})
  <2> HIDE DEF X, x
  <2> QED
    BY <1>1
<1>4. Len(active) = d
  BY DEF Depth
<1>5. /\ a \in Seq(X \cup {x}) /\ Len(a) = d + 1 /\ a[1] = x
      /\ \A i \in 1 .. d : a[i + 1] = active[i]
  <2> DEFINE Y == X \cup {x}
  <2>1. a = <<x>> \o active
    OBVIOUS
  <2>2. active \in Seq(Y) /\ <<x>> \in Seq(Y)
    BY <1>3
  <2> HIDE DEF X, x, a, d, Y
  <2>3. Len(<<x>>) = 1 /\ <<x>>[1] = x
    OBVIOUS
  <2>4. a \in Seq(Y) /\ Len(a) = d + 1
    BY <1>1, <1>4, <2>1, <2>2, <2>3
  <2>5. \A i \in 1 .. Len(<<x>>) + Len(active) :
            a[i] = IF i <= Len(<<x>>) THEN <<x>>[i] ELSE active[i - Len(<<x>>)]
    BY <2>1, <2>2
  <2>6. a[1] = x
    BY <1>1, <1>4, <2>3, <2>5
  <2>7. ASSUME NEW i \in 1 .. d PROVE a[i + 1] = active[i]
    <3>1. /\ i + 1 \in 1 .. Len(<<x>>) + Len(active)
          /\ ~(i + 1 <= Len(<<x>>)) /\ (i + 1) - Len(<<x>>) = i
      BY <1>1, <1>4, <2>3
    <3>2. a[i + 1] = IF i + 1 <= Len(<<x>>) THEN <<x>>[i + 1]
                     ELSE active[(i + 1) - Len(<<x>>)]
      BY <2>5, <3>1
    <3> QED
      BY <3>1, <3>2
  <2> QED
    BY <2>4, <2>6, <2>7 DEF Y
<1>6. a \in Seq({a[i] : i \in DOMAIN a})
  <2> DEFINE Y == X \cup {x}
  <2>1. a \in Seq(Y)
    BY <1>5
  <2> HIDE DEF Y, a
  <2> QED
    BY <2>1, OwnElements
<1>7. a # <<>>
  <2> HIDE DEF a, d
  <2> QED
    BY <1>1, <1>5
<1>8. Depth' = d + 1
  BY <1>5 DEF Depth
<1>9. Activation(1)'
  <2> HIDE DEF d
  <2>1. x = [fn |-> s.callee, base |-> 0, site |-> s, result |-> Unset,
             values |-> [o \in Operands(s.callee) |-> Unset]]
    BY DEF Started
  <2>2. a[1] = [fn |-> a[1].fn, base |-> a[1].base, site |-> a[1].site,
                result |-> a[1].result, values |-> a[1].values]
    BY <1>5, <2>1
  <2>3. a[1].fn = s.callee /\ a[1].site = s /\ DOMAIN a[1].values = Operands(s.callee)
    BY <1>5, <2>1
  <2>4. 1 # Depth' /\ a[1 + 1] = active[1]
    BY <1>1, <1>5, <1>8
  <2> QED
    BY <1>2, <2>2, <2>3, <2>4 DEF Activation
<1>10. ASSUME NEW i \in 1 .. d PROVE Activation(i + 1)'
  <2>1. Activation(i) /\ a[i + 1] = active[i]
    BY <1>1, <1>5
  <2>2. i # d => a[i + 1 + 1] = active[i + 1]
    <3>1. i # d => i + 1 \in 1 .. d
      BY <1>1
    <3> QED
      BY <1>5, <3>1
  <2>3. (i + 1 = Depth') <=> (i = d)
    <3> HIDE DEF d
    <3> QED
      BY <1>1, <1>8
  <2> QED
    BY <2>1, <2>2, <2>3 DEF Activation
<1>11. ASSUME NEW i \in 1 .. d + 1 PROVE Activation(i)'
  <2>1. CASE i = 1
    BY <1>9, <2>1
  <2>2. CASE i # 1
    <3> DEFINE k == i - 1
    <3>1. k \in 1 .. d /\ i = k + 1
      BY <1>1, <2>2
    <3> HIDE DEF k
    <3> QED
      BY <1>10, <3>1
  <2> QED
    BY <2>1, <2>2
<1>12. Shape'
  BY <1>6, <1>7, <1>8, <1>11 DEF Shape
<1> QED
  BY <1>5, <1>8, <1>12

(* The first six arguments are passed in registers.                        *)
LEMMA RegisterArgumentFacts ==
    ASSUME NEW f \in Functions, NEW s \in CallSites[f],
           NEW i \in 1 .. Len(s.args), i <= Registers
    PROVE  i \in DOMAIN RegisterArguments(s) /\ RegisterArguments(s)[i] = s.args[i]
<1>1. s.args \in Seq(Operands(f)) /\ Len(s.args) \in Nat
  BY SiteFacts
<1>2. CASE Len(s.args) < Registers
  BY <1>1, <1>2 DEF RegisterArguments, Registers
<1>3. CASE ~(Len(s.args) < Registers)
  BY <1>1, <1>3 DEF RegisterArguments, Registers
<1> QED
  BY <1>2, <1>3

(* emit_call writes below the caller's frame, whatever it pushes there.    *)
LEMMA CallIInv ==
    ASSUME IInv, NEW s \in CallSites[Current.fn], Call(s)
    PROVE  IInv'
<1> DEFINE f == active[1].fn
           a == StackArguments(s)
           l == Len(a)
           sp == rsp - 8 * Padding(s)
           p == ArgumentsPushed(s, sp)[l]
           r == p.rsp
           pm == p.mem
           n == Len(s.args)
<1>1. /\ at = "code" /\ at' = "prologue"
      /\ r >= 8
      /\ \A i \in DOMAIN s.args : active[1].values[s.args[i]] # Unset
      /\ args' = [i \in DOMAIN RegisterArguments(s) |->
                     SlotLoaded(pm, rbp, f, RegisterArguments(s)[i])]
      /\ rsp' = r - 8 /\ rbp' = rbp
      /\ mem' = Stored(pm, r - 8, 8, ReturnAddress(Depth))
      /\ active' = <<Started(s.callee, s)>> \o active
  BY DEF Call, Pushed, Current
<1>2. Shape /\ 1 \in Established /\ Depth \in Nat /\ 1 \in 1 .. Depth
  <2>1. Shape
    BY DEF IInv
  <2> QED
    BY <1>1, <2>1, ActiveFacts, EstablishedFacts
<1>3. /\ f \in Functions /\ Frame(f) \in Nat
      /\ active[1].base \in Nat /\ Top \in Nat
      /\ Frame(f) <= active[1].base /\ active[1].base + 16 <= Top
  BY <1>2, FrameBounds
<1>4. rbp = active[1].base /\ rsp = rbp - Frame(f) /\ rsp = Low(1) /\ InFrame(1)
  BY <1>1, <1>2 DEF IInv, InCode, Low
<1>5. DOMAIN mem = Bytes
  BY <1>2 DEF Shape
<1>6. s \in CallSites[f] /\ f = Current.fn
  BY DEF Current
<1>7. /\ s.callee \in Functions /\ n = ParamCount[s.callee] /\ n \in Nat
      /\ DOMAIN s.args = 1 .. n
      /\ \A i \in 1 .. n : s.args[i] \in Operands(f)
      /\ \A i \in 1 .. n : Sizes[f][s.args[i]] = Sizes[s.callee][i]
  BY <1>3, <1>6, SiteFacts
<1>8. /\ l \in Nat /\ l = IF n <= Registers THEN 0 ELSE n - Registers
      /\ \A i \in 1 .. l : a[i] = s.args[i + Registers]
      /\ Padding(s) \in {0, 1}
      /\ Popped(s) = 8 * l + 8 * Padding(s)
      /\ Popped(s) \in Nat
  BY <1>3, <1>6, StackArgumentFacts
<1>9. sp \in Int /\ sp <= rsp
  BY <1>3, <1>4, <1>8
<1>10. /\ r = sp - 8 * l
       /\ r >= 0 =>
            /\ DOMAIN pm = Bytes
            /\ \A b \in Bytes : b >= sp => pm[b] = mem[b]
            /\ \A k \in 1 .. l, w \in Widths :
                   Loaded(pm, sp - 8 * k, w) = SlotLoaded(mem, rbp, f, a[l + 1 - k])
  <2>1. rbp \in Nat /\ rbp <= Top /\ sp <= rbp - Frame(f)
    BY <1>3, <1>4, <1>9
  <2> HIDE DEF sp
  <2> QED
    BY <1>3, <1>5, <1>6, <1>9, <2>1, ArgumentsPushedEffect
<1> HIDE DEF p, l, a, sp
<1>11. r \in Int /\ r >= 8 /\ r = sp - 8 * l /\ r <= sp
  BY <1>1, <1>8, <1>9, <1>10
<1> HIDE DEF r, pm
<1>12. /\ DOMAIN pm = Bytes
       /\ \A b \in Bytes : b >= sp => pm[b] = mem[b]
       /\ \A k \in 1 .. l, w \in Widths :
              Loaded(pm, sp - 8 * k, w) = SlotLoaded(mem, rbp, f, a[l + 1 - k])
  BY <1>10, <1>11
<1>13. sp <= Top
  BY <1>3, <1>4, <1>9
<1>14. /\ DOMAIN mem' = Bytes
       /\ \A b \in Bytes : b >= r => mem'[b] = pm[b]
       /\ Loaded(mem', r - 8, 8) = ReturnAddress(Depth)
  <2> DEFINE c == r - 8
  <2>1. c \in Int /\ c .. (c + 8 - 1) \subseteq DOMAIN pm /\ 8 \in Widths /\ 8 \in Nat
    BY <1>3, <1>9, <1>11, <1>12, <1>13 DEF Bytes, Widths
  <2>2. \A b \in Bytes : b >= r => b \notin c .. (c + 8 - 1)
    BY <1>11 DEF Bytes
  <2>3. mem' = Stored(pm, c, 8, ReturnAddress(Depth))
    BY <1>1
  <2> HIDE DEF c
  <2>4. Loaded(mem', c, 8) = ReturnAddress(Depth)
    BY <2>1, <2>3, LoadedStored
  <2>5. /\ DOMAIN mem' = DOMAIN pm
        /\ \A b \in DOMAIN pm : b \notin c .. (c + 8 - 1) => mem'[b] = pm[b]
    BY <2>3, StoredElsewhere
  <2> QED
    BY <1>12, <2>2, <2>4, <2>5 DEF c
<1>15. Same(mem, mem', sp, Top) /\ Same(mem, pm, sp, Top)
  BY <1>3, <1>9, <1>11, <1>12, <1>14 DEF Same, Bytes
<1>16. /\ Shape'
       /\ Depth' = Depth + 1
       /\ active'[1] = Started(s.callee, s)
       /\ \A i \in 1 .. Depth : active'[i + 1] = active[i]
  BY <1>1, <1>2, <1>6, <1>14, FunctionAdded
<1>17. Established' = 2 .. Depth + 1 /\ Established = 1 .. Depth
  <2>1. Established = 1 .. Depth
    BY <1>1, <1>2, ActiveFacts DEF Established
  <2>2. Established' = {i \in 1 .. Depth + 1 : i > 1}
    BY <1>1, <1>16, EstablishedNext
  <2> QED
    BY <1>2, <2>1, <2>2
<1>18. ASSUME NEW i \in 1 .. Depth
       PROVE  /\ Low(i + 1)' = Low(i) /\ active'[i + 1].base = active[i].base
              /\ Placed(i + 1)' /\ InFrame(i + 1)' /\ Linked(i + 1)'
  <2>1. active'[i + 1] = active[i]
    BY <1>16
  <2>2. i < Depth => active'[i + 1 + 1] = active[i + 1]
    <3>1. i < Depth => i + 1 \in 1 .. Depth
      BY <1>2
    <3> QED
      BY <1>16, <3>1
  <2>3. Low(i) \in Int /\ sp <= Low(i)
    <3>1. i = 1 \/ 1 < i
      BY <1>2
    <3>2. Low(i) \in Nat /\ Low(1) \in Nat
      BY <1>2, <1>17, LowGrows
    <3>3. 1 < i => Low(1) <= Low(i)
      BY <1>2, <1>17, LowGrows
    <3> QED
      BY <1>4, <1>9, <3>1, <3>2, <3>3
  <2>4. Same(mem, mem', Low(i), Top)
    BY <1>3, <1>9, <1>15, <2>3 DEF Same
  <2>5. i + 1 \in 1 .. Depth' /\ Depth' - (i + 1) = Depth - i
    BY <1>2, <1>16
  <2>6. i \in Established
    BY <1>17
  <2>7. Placed(i + 1)' /\ InFrame(i + 1)' /\ Linked(i + 1)'
    <3> DEFINE j == i + 1
    <3>1. active'[j] = active[i] /\ j \in 1 .. Depth' /\ Depth' - j = Depth - i
      BY <2>1, <2>5
    <3>2. i < Depth => active'[j + 1] = active[i + 1]
      BY <2>2
    <3> HIDE DEF j
    <3>3. Placed(j)' /\ InFrame(j)' /\ Linked(j)'
      BY <1>16, <2>4, <2>6, <3>1, <3>2, Carried
    <3> QED
      BY <3>3 DEF j
  <2> QED
    BY <2>1, <2>7 DEF Low
<1>19. /\ l \in Nat /\ n \in Nat /\ sp \in Int /\ r \in Int /\ Top \in Nat
       /\ r >= 8 /\ r = sp - 8 * l /\ sp <= Top /\ rsp' = r - 8
  BY <1>1, <1>3, <1>7, <1>8, <1>9, <1>11, <1>13
<1>20. ASSUME NEW i \in 2 .. Depth + 1
       PROVE  \E k \in 1 .. Depth : i = k + 1
  <2>1. i - 1 \in 1 .. Depth /\ i = (i - 1) + 1
    BY <1>2
  <2> QED
    BY <2>1
<1>21. Ordered'
  <2> SUFFICES ASSUME NEW i \in 2 .. Depth + 1, NEW j \in 2 .. Depth + 1, i < j
               PROVE  active'[i].base + 16 <= Low(j)'
    BY <1>17 DEF Ordered
  <2>1. PICK k \in 1 .. Depth : i = k + 1
    BY <1>20
  <2>2. PICK q \in 1 .. Depth : j = q + 1
    BY <1>20
  <2>3. k < q
    BY <1>2, <2>1, <2>2
  <2>4. active[k].base + 16 <= Low(q)
    BY <1>17, <2>3 DEF IInv, Ordered
  <2> QED
    BY <1>18, <2>1, <2>2, <2>4
<1>22. ASSUME NEW i \in 1 .. n
       PROVE  /\ active[1].values[s.args[i]] # Unset
              /\ Argument(i)' = active[1].values[s.args[i]]
  <2> DEFINE o == s.args[i]
  <2>1. o \in Operands(f) /\ active[1].values[o] # Unset
    BY <1>1, <1>7
  <2>2. SlotLoaded(mem, rbp, f, o) = active[1].values[o]
    BY <1>4, <2>1 DEF InFrame
  <2>3. active'[1].fn = s.callee
    BY <1>16 DEF Started
  <2>4. CASE i <= Registers
    <3>1. i \in DOMAIN RegisterArguments(s) /\ RegisterArguments(s)[i] = o
      BY <1>3, <1>6, <2>4, RegisterArgumentFacts
    <3>2. args'[i] = SlotLoaded(pm, rbp, f, o)
      BY <1>1, <3>1
    <3>3. Same(mem, pm, rbp - Frame(f), rbp) /\ rbp \in Nat
      BY <1>3, <1>4, <1>9, <1>15 DEF Same
    <3>4. SlotLoaded(pm, rbp, f, o) = SlotLoaded(mem, rbp, f, o)
      BY <1>3, <2>1, <3>3, SlotSame
    <3> QED
      BY <2>1, <2>2, <2>4, <3>2, <3>4 DEF Argument
  <2>5. CASE i > Registers
    <3> DEFINE k == n + 1 - i
               w == Sizes[s.callee][i]
               c == rsp' + 8 + (i - Registers - 1) * 8
    <3>1. l = n - 6
      BY <1>7, <1>8, <2>5 DEF Registers
    <3>2. /\ k \in 1 .. l /\ l + 1 - k = i - Registers
          /\ i - Registers \in 1 .. l /\ (i - Registers) + Registers = i
      BY <1>7, <2>5, <3>1 DEF Registers
    <3>3. c = sp - 8 * k
      <4> HIDE DEF n
      <4> QED
        BY <1>19, <3>1 DEF Registers
    <3>4. w \in Widths /\ w = Sizes[f][o] /\ w \in Nat /\ w <= 8
      <4>1. w = Sizes[f][o]
        BY <1>7
      <4>2. Sizes[f][o] \in Widths
        BY <1>3, <2>1, OperandFacts
      <4> HIDE DEF w, o
      <4> QED
        BY <4>1, <4>2 DEF Widths
    <3>5. a[l + 1 - k] = o
      <4>1. a[i - Registers] = s.args[(i - Registers) + Registers]
        BY <1>8, <3>2
      <4> QED
        BY <3>2, <4>1
    <3> HIDE DEF k, w, o
    <3>6. Loaded(pm, sp - 8 * k, w) = SlotLoaded(mem, rbp, f, o)
      BY <1>12, <3>2, <3>4, <3>5
    <3>7. c \in Int /\ c >= r /\ c + 8 <= Top
      <4>1. k \in Int /\ k >= 1 /\ k <= l
        BY <1>19, <3>2
      <4> HIDE DEF c
      <4> QED
        BY <1>19, <3>3, <4>1
    <3> HIDE DEF c
    <3>8. \A b \in c .. (c + w - 1) : mem'[b] = pm[b]
      <4>1. \A b \in c .. (c + w - 1) : b \in Bytes /\ b >= r
        BY <1>19, <3>4, <3>7 DEF Bytes
      <4> QED
        BY <1>14, <4>1
    <3>9. Loaded(mem', c, w) = Loaded(pm, c, w)
      BY <3>4, <3>7, <3>8, LoadedSame
    <3>10. Loaded(mem', c, w) = active[1].values[o]
      BY <2>2, <3>3, <3>6, <3>9
    <3>11. ~(i <= Registers)
      BY <1>7, <2>5 DEF Registers
    <3> QED
      BY <2>1, <2>3, <3>10, <3>11 DEF Argument, c, w, o
  <2> QED
    BY <1>7, <2>4, <2>5 DEF Registers
<1>23. InPrologue'
  <2>1. active'[1].fn = s.callee /\ active'[1].site = s
    BY <1>16 DEF Started
  <2>2. active'[2] = active[1] /\ Low(2)' = Low(1)
    <3>1. active'[1 + 1] = active[1]
      BY <1>2, <1>16
    <3> QED
      BY <3>1 DEF Low
  <2>3. rsp' \in Nat /\ rsp' + 8 <= Top /\ rsp' + 8 + Popped(s) = rsp
    <3> DEFINE pad == Padding(s)
               popped == Popped(s)
    <3>1. pad \in Nat /\ popped = 8 * l + 8 * pad /\ sp = rsp - 8 * pad
      BY <1>8 DEF sp
    <3>2. rsp \in Int /\ rsp' = r - 8
      BY <1>1, <1>3, <1>4
    <3> HIDE DEF pad, popped
    <3>3. rsp' \in Nat /\ rsp' + 8 <= Top /\ rsp' + 8 + popped = rsp
      BY <1>19, <3>1, <3>2
    <3> QED
      BY <3>3 DEF popped
  <2>4. Depth' - 1 = Depth /\ Depth' # 1 /\ Depth' > 1
    BY <1>2, <1>16
  <2>5. Loaded(mem', rsp', 8) = ReturnAddress(Depth' - 1)
    BY <1>1, <1>14, <2>4
  <2>6. \A i \in 1 .. ParamCount[active'[1].fn] :
            /\ active'[2].values[active'[1].site.args[i]] # Unset
            /\ Argument(i)' = active'[2].values[active'[1].site.args[i]]
    BY <1>7, <1>22, <2>1, <2>2
  <2>7. rsp' + 8 + Popped(active'[1].site) = Low(2)' /\ rbp' = active'[2].base
    BY <1>1, <1>4, <2>1, <2>2, <2>3
  <2> QED
    BY <2>3, <2>4, <2>5, <2>6, <2>7 DEF InPrologue
<1>24. InCode' /\ InReturned'
  BY <1>1 DEF InCode, InReturned
<1>25. \A i \in Established' : Placed(i)' /\ InFrame(i)' /\ Linked(i)'
  <2> SUFFICES ASSUME NEW i \in 2 .. Depth + 1 PROVE Placed(i)' /\ InFrame(i)' /\ Linked(i)'
    BY <1>17
  <2>1. PICK k \in 1 .. Depth : i = k + 1
    BY <1>20
  <2> QED
    BY <1>18, <2>1
<1> QED
  BY <1>16, <1>21, <1>23, <1>24, <1>25 DEF IInv

-----------------------------------------------------------------------------
(* emit_return finds the caller's rbp and leaves rsp above its own frame.  *)
LEMMA ReturnIInv ==
    ASSUME IInv, NEW o \in Operands(Current.fn), Return(o)
    PROVE  IInv'
<1> DEFINE f == active[1].fn
           base == active[1].base
           s == active[1].site
           v == active[1].values[o]
           saved == Loaded(mem, rbp, 8)
           x == [active[1] EXCEPT !.result = v]
<1>1. /\ at = "code" /\ at' = "returned" /\ Depth > 1
      /\ v # Unset
      /\ rax' = SlotLoaded(mem, rbp, f, o)
      /\ rbp' = IF saved[1] = "rbp" THEN saved[2] ELSE 0
      /\ rsp' = rbp + 16
      /\ active' = [active EXCEPT ![1] = x]
      /\ mem' = Forgotten(mem, rbp + 16)
  BY DEF Return, Current
<1>2. Shape /\ 1 \in Established /\ Depth \in Nat /\ 1 \in 1 .. Depth
  <2>1. Shape
    BY DEF IInv
  <2> QED
    BY <1>1, <2>1, ActiveFacts, EstablishedFacts
<1>3. /\ f \in Functions /\ base \in Nat /\ Top \in Nat /\ base + 16 <= Top
      /\ o \in Operands(f)
  BY <1>2, FrameBounds DEF Current
<1>4. /\ Placed(1) /\ InFrame(1) /\ Linked(1) /\ rbp = base
      /\ DOMAIN mem = Bytes /\ Activation(1)
  BY <1>1, <1>2 DEF IInv, InCode, Shape
<1>5. rax' = v
  BY <1>1, <1>3, <1>4 DEF InFrame
<1>6. rbp' = active[2].base
  <2>1. saved = Address(active[1 + 1].base)
    BY <1>1, <1>4 DEF Linked
  <2>2. saved = <<"rbp", active[2].base, 0>>
    BY <2>1 DEF Address, Value
  <2> QED
    BY <1>1, <2>2
<1>7. base + 16 + Popped(s) = Low(2)
  <2>1. base + 16 + Popped(s) = Low(1 + 1)
    BY <1>1, <1>4 DEF Placed
  <2> QED
    BY <2>1
<1>8. DOMAIN mem' = Bytes /\ Same(mem, mem', base + 16, Top)
  BY <1>1, <1>3, <1>4 DEF Forgotten, Same, Bytes
<1>9. /\ x = [fn |-> x.fn, base |-> x.base, site |-> x.site,
              result |-> x.result, values |-> x.values]
      /\ x.fn = f /\ x.base = base /\ x.site = s /\ x.result = v
      /\ DOMAIN x.values = Operands(x.fn)
  <2> DEFINE y == active[1]
  <2>1. /\ y = [fn |-> y.fn, base |-> y.base, site |-> y.site, result |-> y.result,
                values |-> y.values]
        /\ DOMAIN y.values = Operands(y.fn)
    BY <1>4 DEF Activation
  <2>2. x = [y EXCEPT !.result = v]
    OBVIOUS
  <2> HIDE DEF v, y, x
  <2>3. x = [fn |-> y.fn, base |-> y.base, site |-> y.site, result |-> v,
             values |-> y.values]
    BY <2>1, <2>2
  <2> QED
    BY <2>1, <2>3 DEF y
<1> HIDE DEF x, f, base, v, s
<1>10. /\ Shape'
       /\ Depth' = Depth
       /\ active'[1] = x
       /\ \A i \in 2 .. Depth : active'[i] = active[i]
  BY <1>1, <1>2, <1>8, <1>9, TopReplaced DEF f, s
<1>11. Established' = 2 .. Depth /\ Established = 1 .. Depth
  <2>1. Established = 1 .. Depth
    BY <1>1, <1>2, ActiveFacts DEF Established
  <2>2. Established' = {i \in 1 .. Depth : i > 1}
    BY <1>1, <1>10, EstablishedNext
  <2> QED
    BY <1>2, <2>1, <2>2
<1>12. ASSUME NEW i \in 2 .. Depth
       PROVE  /\ active'[i] = active[i] /\ Low(i)' = Low(i)
              /\ Placed(i)' /\ InFrame(i)' /\ Linked(i)'
  <2>1. i \in Established /\ 1 < i
    BY <1>2, <1>11
  <2>2. Low(i) \in Nat /\ base + 16 <= Low(i)
    BY <1>2, <2>1, LowGrows DEF base
  <2>3. Same(mem, mem', Low(i), Top)
    BY <1>3, <1>8, <2>2 DEF Same
  <2>4. i < Depth => active'[i + 1] = active[i + 1]
    BY <1>2, <1>10
  <2>5. i \in 1 .. Depth' /\ active'[i] = active[i]
    BY <1>2, <1>10
  <2> QED
    BY <1>10, <2>1, <2>3, <2>4, <2>5, Carried DEF Low
<1>13. Ordered'
  BY <1>11, <1>12 DEF IInv, Ordered
<1>14. InReturned'
  <2>1. /\ 2 \in 2 .. Depth /\ active'[2] = active[2] /\ Low(2)' = Low(2)
    BY <1>1, <1>2, <1>12
  <2>2. active'[1].site = s /\ active'[1].result = v
    BY <1>9, <1>10
  <2>3. rsp' + Popped(s) = Low(2)
    BY <1>1, <1>4, <1>7 DEF base
  <2> QED
    BY <1>1, <1>5, <1>6, <1>10, <2>1, <2>2, <2>3 DEF InReturned
<1>15. InCode' /\ InPrologue'
  BY <1>1 DEF InCode, InPrologue
<1> QED
  BY <1>10, <1>11, <1>12, <1>13, <1>14, <1>15 DEF IInv

-----------------------------------------------------------------------------
(* The function that has returned is gone.                                 *)
LEMMA FunctionRemoved ==
    ASSUME Shape, Depth > 1, NEW x,
           \/ active' = [Tail(active) EXCEPT ![1] = x]
           \/ x = active[2] /\ active' = Tail(active),
           x = [fn |-> x.fn, base |-> x.base, site |-> x.site,
                result |-> x.result, values |-> x.values],
           x.fn = active[2].fn, x.site = active[2].site,
           DOMAIN x.values = Operands(x.fn),
           DOMAIN mem' = Bytes, at' \in {"code", "prologue", "returned"}
    PROVE  /\ Shape'
           /\ Depth' = Depth - 1
           /\ active'[1] = x
           /\ \A i \in 2 .. Depth - 1 : active'[i] = active[i + 1]
<1> DEFINE X == {active[i] : i \in 1 .. Depth}
           Y == X \cup {x}
           a == active'
           d == Depth
           t == Tail(active)
<1>1. /\ d \in Nat /\ d > 1 /\ active \in Seq(X)
      /\ \A i \in 1 .. d : Activation(i)
  BY ActiveFacts DEF Shape
<1>2. Len(active) = d
  BY DEF Depth
<1>3. active \in Seq(Y)
  <2> HIDE DEF X
  <2> QED
    BY <1>1
<1>4. /\ t \in Seq(Y) /\ Len(t) = d - 1
      /\ \A i \in 1 .. d - 1 : t[i] = active[i + 1]
  <2> HIDE DEF Y, d
  <2>1. active # <<>>
    BY <1>1, <1>2
  <2> QED
    BY <1>1, <1>2, <1>3, <2>1
<1>5. 1 \in 1 .. d - 1 /\ active[1 + 1] = active[2]
  BY <1>1
<1>6. /\ a \in Seq(Y) /\ Len(a) = d - 1 /\ a[1] = x
      /\ \A i \in 1 .. d - 1 : i # 1 => a[i] = active[i + 1]
  <2>1. x \in Y
    OBVIOUS
  <2>2. CASE a = [t EXCEPT ![1] = x]
    <3> HIDE DEF Y, d, t, a
    <3>1. DOMAIN t = 1 .. d - 1
      BY <1>1, <1>4
    <3> QED
      BY <1>4, <1>5, <2>1, <2>2, <3>1
  <2>3. CASE x = active[2] /\ a = t
    <3> HIDE DEF Y, d, t, a
    <3> QED
      BY <1>4, <1>5, <2>3
  <2> QED
    BY <2>2, <2>3
<1>7. a \in Seq({a[i] : i \in DOMAIN a})
  <2>1. a \in Seq(Y)
    BY <1>6
  <2> HIDE DEF Y, a
  <2> QED
    BY <2>1, OwnElements
<1>8. a # <<>>
  <2> HIDE DEF a, d
  <2> QED
    BY <1>1, <1>6
<1>9. Depth' = d - 1
  BY <1>6 DEF Depth
<1>10. ASSUME NEW i \in 1 .. d - 1 PROVE Activation(i)'
  <2>1. i < d - 1 => i + 1 \in 1 .. d - 1 /\ a[i + 1] = active[i + 1 + 1]
    <3>1. i < d - 1 => i + 1 \in 1 .. d - 1 /\ i + 1 # 1
      <4> HIDE DEF d
      <4> QED
        BY <1>1
    <3>2. \A k \in 1 .. d - 1 : k # 1 => a[k] = active[k + 1]
      BY <1>6
    <3> HIDE DEF a, d
    <3> QED
      BY <3>1, <3>2
  <2>2. /\ i # d - 1 => i < d - 1
        /\ (i = Depth') <=> (i + 1 = d)
    <3> HIDE DEF d
    <3> QED
      BY <1>1, <1>9
  <2>3. Activation(i + 1)
    <3>1. i + 1 \in 1 .. d
      BY <1>1
    <3> QED
      BY <1>1, <3>1
  <2>4. /\ a[i] = [fn |-> a[i].fn, base |-> a[i].base, site |-> a[i].site,
                   result |-> a[i].result, values |-> a[i].values]
        /\ a[i].fn = active[i + 1].fn /\ a[i].site = active[i + 1].site
        /\ DOMAIN a[i].values = Operands(a[i].fn)
    <3>1. CASE i = 1
      <4>1. a[i] = x /\ active[i + 1] = active[2]
        BY <1>5, <1>6, <3>1
      <4> HIDE DEF a
      <4> QED
        BY <4>1
    <3>2. CASE i # 1
      <4>1. a[i] = active[i + 1]
        BY <1>6, <3>2
      <4> HIDE DEF a
      <4> QED
        BY <2>3, <4>1 DEF Activation
    <3> QED
      BY <3>1, <3>2
  <2>5. i # Depth' => a[i + 1] = active[i + 1 + 1]
    BY <1>9, <2>1, <2>2
  <2> QED
    BY <2>2, <2>3, <2>4, <2>5 DEF Activation
<1>11. Shape'
  BY <1>7, <1>8, <1>9, <1>10 DEF Shape
<1>12. \A i \in 2 .. d - 1 : i \in 1 .. d - 1 /\ i # 1
  BY <1>1
<1> QED
  BY <1>6, <1>9, <1>11, <1>12

(* The caller goes on with its stack as it was and stores the result.      *)
LEMMA ResumeIInv ==
    ASSUME IInv, Resume
    PROVE  IInv'
<1> DEFINE g == active[2].fn
           base == active[2].base
           s == active[1].site
           o == s.result
           v == active[1].result
           x == IF o = 0 THEN active[2] ELSE [active[2] EXCEPT !.values[o] = v]
<1>1. /\ at = "returned" /\ at' = "code"
      /\ rsp' = rsp + Popped(s) /\ rbp' = rbp
      /\ mem' = IF o = 0 THEN mem ELSE SlotStored(mem, rbp, g, o, rax)
      /\ active' = IF o = 0 THEN Tail(active)
                   ELSE [Tail(active) EXCEPT ![1].values[o] = v]
  BY DEF Resume, Current
<1>2. Shape /\ Depth \in Nat /\ Depth > 1 /\ 1 \in 1 .. Depth /\ 2 \in 1 .. Depth
  <2>1. Shape
    BY DEF IInv
  <2>2. Depth > 1
    BY <1>1 DEF IInv, InReturned
  <2> QED
    BY <2>1, <2>2, ActiveFacts
<1>3. Established = 2 .. Depth /\ 2 \in Established
  BY <1>1, <1>2, ActiveFacts DEF Established
<1>4. rsp + Popped(s) = Low(2) /\ rbp = base /\ rax = v
  BY <1>1 DEF IInv, InReturned
<1>5. /\ g \in Functions /\ Frame(g) \in Nat
      /\ base \in Nat /\ Top \in Nat
      /\ Frame(g) <= base /\ base <= Top /\ base + 16 <= Top
  BY <1>3, FrameBounds
<1>6. /\ Placed(2) /\ InFrame(2) /\ Linked(2) /\ Activation(2) /\ DOMAIN mem = Bytes
  BY <1>2, <1>3 DEF IInv, Shape
<1>7. o \in {0} \cup Operands(g)
  <2>1. s \in CallSites[active[1 + 1].fn]
    BY <1>2, ActiveFacts
  <2>2. active[1 + 1] = active[2]
    OBVIOUS
  <2> QED
    BY <1>5, <2>1, <2>2, SiteFacts
<1>8. o # 0 => o \in Operands(g)
  BY <1>7
<1>9. /\ DOMAIN mem' = Bytes
      /\ \A b \in Bytes : b >= base => mem'[b] = mem[b]
      /\ o # 0 => SlotLoaded(mem', base, g, o) = v
      /\ \A p \in Operands(g) :
             o = 0 \/ p # o => SlotLoaded(mem', base, g, p) = SlotLoaded(mem, base, g, p)
  <2>1. CASE o = 0
    BY <1>1, <1>6, <2>1
  <2>2. CASE o # 0
    <3>1. mem' = SlotStored(mem, base, g, o, v)
      BY <1>1, <1>4, <2>2
    <3> HIDE DEF g, base, o, v
    <3>2. /\ DOMAIN mem' = Bytes
          /\ \A b \in Bytes : b >= base \/ b < base - Frame(g) => mem'[b] = mem[b]
          /\ SlotLoaded(mem', base, g, o) = v
          /\ \A p \in Operands(g) :
                 p # o => SlotLoaded(mem', base, g, p) = SlotLoaded(mem, base, g, p)
      BY <1>5, <1>6, <1>8, <2>2, <3>1, SlotStoredEffect
    <3> QED
      BY <2>2, <3>2
  <2> QED
    BY <2>1, <2>2
<1>10. Same(mem, mem', base, Top)
  BY <1>5, <1>9 DEF Same, Bytes
<1>11. /\ x = [fn |-> x.fn, base |-> x.base, site |-> x.site,
               result |-> x.result, values |-> x.values]
       /\ x.fn = g /\ x.base = base /\ x.site = active[2].site
       /\ DOMAIN x.values = Operands(x.fn)
       /\ o # 0 => x.values[o] = v
       /\ \A p \in Operands(g) : o = 0 \/ p # o => x.values[p] = active[2].values[p]
  <2> DEFINE y == active[2]
             w == IF o = 0 THEN y.values ELSE [y.values EXCEPT ![o] = v]
  <2>1. /\ y = [fn |-> y.fn, base |-> y.base, site |-> y.site, result |-> y.result,
                values |-> y.values]
        /\ DOMAIN y.values = Operands(y.fn)
    BY <1>6 DEF Activation
  <2>2. x = IF o = 0 THEN y ELSE [y EXCEPT !.values = [y.values EXCEPT ![o] = v]]
    OBVIOUS
  <2>3. /\ DOMAIN w = Operands(y.fn)
        /\ o # 0 => w[o] = v
        /\ \A p \in Operands(g) : o = 0 \/ p # o => w[p] = y.values[p]
    <3> HIDE DEF o, v
    <3> QED
      BY <1>8, <2>1
  <2>4. x = [fn |-> y.fn, base |-> y.base, site |-> y.site, result |-> y.result,
             values |-> w]
    <3> DEFINE u == [y.values EXCEPT ![o] = v]
    <3>1. CASE o = 0
      BY <2>1, <2>2, <3>1
    <3>2. CASE o # 0
      <4>1. x = [y EXCEPT !.values = u] /\ w = u
        BY <2>2, <3>2
      <4> HIDE DEF u, y, x, w
      <4> QED
        BY <2>1, <4>1
    <3> QED
      BY <3>1, <3>2
  <2> HIDE DEF x, w
  <2> QED
    BY <2>3, <2>4
<1>12. \/ active' = [Tail(active) EXCEPT ![1] = x]
       \/ x = active[2] /\ active' = Tail(active)
  <2>1. CASE o = 0
    BY <1>1, <2>1
  <2>2. CASE o # 0
    <3> DEFINE t == Tail(active)
    <3>1. t[1] = active[2]
      <4> DEFINE X == {active[i] : i \in 1 .. Depth}
      <4>1. active \in Seq(X) /\ Len(active) \in Nat /\ Len(active) > 1
        BY <1>2, ActiveFacts DEF Depth
      <4> HIDE DEF X
      <4> QED
        BY <4>1
    <3>2. active' = [t EXCEPT ![1].values[o] = v]
      BY <1>1, <2>2
    <3>3. x = [t[1] EXCEPT !.values[o] = v]
      BY <2>2, <3>1
    <3> HIDE DEF x, o, v
    <3>4. active' = [t EXCEPT ![1] = x]
      BY <3>2, <3>3
    <3> QED
      BY <3>4
  <2> QED
    BY <2>1, <2>2
<1> HIDE DEF x, g, base, o, v, s
<1>13. /\ Shape'
       /\ Depth' = Depth - 1
       /\ active'[1] = x
       /\ \A i \in 2 .. Depth - 1 : active'[i] = active[i + 1]
  BY <1>1, <1>2, <1>9, <1>11, <1>12, FunctionRemoved DEF g
<1>14. Established' = 1 .. Depth - 1
  BY <1>1, <1>2, <1>13, EstablishedNext
<1>15. ASSUME NEW i \in 2 .. Depth - 1
       PROVE  /\ i + 1 \in Established /\ active'[i].base = active[i + 1].base
              /\ Low(i)' = Low(i + 1)
              /\ Placed(i)' /\ InFrame(i)' /\ Linked(i)'
  <2> DEFINE k == i + 1
  <2>1. k \in Established /\ 2 < k /\ k \in 3 .. Depth
    BY <1>2, <1>3
  <2>2. Low(k) \in Nat /\ base + 16 <= Low(k)
    <3> HIDE DEF k
    <3> QED
      BY <1>3, <2>1, LowGrows DEF base
  <2>3. Same(mem, mem', Low(k), Top)
    <3> HIDE DEF k
    <3> QED
      BY <1>5, <1>10, <2>2 DEF Same
  <2>4. k < Depth => active'[i + 1] = active[k + 1]
    <3>1. k < Depth => i + 1 \in 2 .. Depth - 1
      BY <1>2
    <3> QED
      BY <1>13, <3>1
  <2>5. i \in 1 .. Depth' /\ active'[i] = active[k] /\ Depth' - i = Depth - k
    BY <1>2, <1>13
  <2> HIDE DEF k
  <2>6. Placed(i)' /\ InFrame(i)' /\ Linked(i)'
    BY <1>13, <2>1, <2>3, <2>4, <2>5, Carried
  <2>7. active'[i].base = active[k].base /\ Low(i)' = Low(k)
    BY <2>5 DEF Low
  <2> QED
    BY <2>1, <2>6, <2>7 DEF k
<1>16. active'[1].fn = g /\ active'[1].base = base /\ active'[1].site = active[2].site
  BY <1>11, <1>13
<1>17. Low(1)' = Low(2)
  BY <1>16 DEF Low, g, base
<1>18. /\ (1 < Depth') <=> (2 < Depth)
       /\ 2 < Depth => active'[1 + 1] = active[2 + 1]
       /\ Depth' - 1 = Depth - 2
  <2>1. ((1 < Depth') <=> (2 < Depth)) /\ Depth' - 1 = Depth - 2
    BY <1>2, <1>13
  <2>2. 2 < Depth => 2 \in 2 .. Depth - 1
    BY <1>2
  <2> QED
    BY <1>13, <2>1, <2>2
<1>19. Placed(1)'
  <2>1. 2 < Depth => Low(1 + 1)' = Low(2 + 1)
    BY <1>18 DEF Low
  <2> QED
    BY <1>6, <1>16, <1>17, <1>18, <2>1 DEF Placed, base
<1>20. InFrame(1)'
  <2> SUFFICES ASSUME NEW p \in Operands(g), x.values[p] # Unset
               PROVE  SlotLoaded(mem', base, g, p) = x.values[p]
    BY <1>13, <1>16 DEF InFrame
  <2>1. CASE o # 0 /\ p = o
    BY <1>9, <1>11, <2>1
  <2>2. CASE o = 0 \/ p # o
    <3>1. x.values[p] = active[2].values[p]
      BY <1>11, <2>2
    <3>2. SlotLoaded(mem, base, g, p) = active[2].values[p]
      BY <1>6, <3>1 DEF InFrame, g, base
    <3> QED
      BY <1>9, <2>2, <3>1, <3>2
  <2> QED
    BY <2>1, <2>2
<1>21. Linked(1)'
  <2>1. Same(mem, mem', base, base + 16)
    BY <1>5, <1>10 DEF Same
  <2>2. /\ Loaded(mem', base, 8) = Loaded(mem, base, 8)
        /\ Loaded(mem', base + 8, 8) = Loaded(mem, base + 8, 8)
    BY <1>5, <2>1, LinksKept
  <2> QED
    BY <1>6, <1>16, <1>18, <2>2 DEF Linked, base
<1>22. Ordered'
  <2> SUFFICES ASSUME NEW i \in 1 .. Depth - 1, NEW j \in 1 .. Depth - 1, i < j
               PROVE  active'[i].base + 16 <= Low(j)'
    BY <1>14 DEF Ordered
  <2>1. j \in 2 .. Depth - 1
    BY <1>2
  <2>2. CASE i = 1
    <3>1. j + 1 \in Established /\ 2 < j + 1
      BY <1>2, <1>15, <2>1
    <3>2. base + 16 <= Low(j + 1)
      BY <1>3, <3>1 DEF IInv, Ordered, base
    <3> QED
      BY <1>15, <1>16, <2>1, <2>2, <3>2
  <2>3. CASE i # 1
    <3>1. i \in 2 .. Depth - 1
      BY <1>2, <2>3
    <3>2. i + 1 \in Established /\ j + 1 \in Established /\ i + 1 < j + 1
      BY <1>2, <1>15, <2>1, <3>1
    <3>3. active[i + 1].base + 16 <= Low(j + 1)
      BY <3>2 DEF IInv, Ordered
    <3> QED
      BY <1>15, <2>1, <3>1, <3>3
  <2> QED
    BY <2>2, <2>3
<1>23. InCode' /\ InPrologue' /\ InReturned'
  BY <1>1, <1>4, <1>16, <1>17 DEF InCode, InPrologue, InReturned
<1>24. \A i \in Established' : Placed(i)' /\ InFrame(i)' /\ Linked(i)'
  <2> SUFFICES ASSUME NEW i \in 1 .. Depth - 1 PROVE Placed(i)' /\ InFrame(i)' /\ Linked(i)'
    BY <1>14
  <2>1. i # 1 => i \in 2 .. Depth - 1
    BY <1>2
  <2> QED
    BY <1>15, <1>19, <1>20, <1>21, <2>1
<1> QED
  BY <1>13, <1>22, <1>23, <1>24 DEF IInv

-----------------------------------------------------------------------------
(* _start has called the main function.                                    *)
LEMMA InitIInv == Init => IInv
<1> SUFFICES ASSUME Init PROVE IInv
  OBVIOUS
<1> DEFINE x == Started(Main, 0)
           m == [b \in Bytes |-> Byte(Junk, 0)]
<1>1. /\ mem = Stored(m, Top - 8, 8, ReturnAddress(0))
      /\ rsp = Top - 8 /\ rbp = 0 /\ at = "prologue" /\ active = <<x>>
  BY DEF Init, Bytes
<1>2. /\ Top \in Nat /\ Top >= 16 /\ Main \in Functions /\ ParamCount[Main] = 0
  <2>1. Top \in Nat \ {0} /\ Top % 16 = 0
    BY CallsAssumption
  <2>2. Top >= 16
    BY <2>1
  <2> QED
    BY <2>1, <2>2, CallsAssumption
<1>3. x = [fn |-> Main, base |-> 0, site |-> 0, result |-> Unset,
           values |-> [o \in Operands(Main) |-> Unset]]
  BY DEF Started
<1>4. /\ active \in Seq({active[i] : i \in DOMAIN active}) /\ active # <<>>
      /\ Depth = 1 /\ active[1] = x
  <2> HIDE DEF x
  <2>1. active \in Seq({x}) /\ active # <<>> /\ Len(active) = 1 /\ active[1] = x
    BY <1>1
  <2> QED
    BY <2>1, OwnElements DEF Depth
<1>5. /\ x.fn = Main
      /\ x = [fn |-> x.fn, base |-> x.base, site |-> x.site,
              result |-> x.result, values |-> x.values]
      /\ DOMAIN x.values = Operands(x.fn)
  BY <1>3
<1>6. DOMAIN mem = Bytes /\ Loaded(mem, rsp, 8) = ReturnAddress(0)
  <2> DEFINE c == Top - 8
  <2>1. /\ DOMAIN m = Bytes /\ c \in Int /\ c .. (c + 8 - 1) \subseteq Bytes
        /\ 8 \in Widths /\ 8 \in Nat
    BY <1>2 DEF Bytes, Widths
  <2> HIDE DEF m, c
  <2> QED
    BY <1>1, <2>1, LoadedStored, StoredElsewhere DEF c
<1> HIDE DEF x
<1>7. Activation(1)
  BY <1>2, <1>4, <1>5 DEF Activation
<1>8. Shape
  <2>1. \A i \in 1 .. Depth : Activation(i)
    BY <1>4, <1>7
  <2> QED
    BY <1>1, <1>4, <1>6, <2>1 DEF Shape
<1>9. Established = {}
  BY <1>1, <1>4, <1>8, EstablishedFacts
<1>10. InPrologue
  BY <1>1, <1>2, <1>4, <1>6 DEF InPrologue
<1>11. Ordered /\ InCode /\ InReturned
  BY <1>1, <1>9 DEF Ordered, InCode, InReturned
<1> QED
  BY <1>8, <1>9, <1>10, <1>11 DEF IInv

-----------------------------------------------------------------------------
(* Every step keeps the invariant.                                         *)
LEMMA NextIInv == IInv /\ [Next]_vars => IInv'
<1> SUFFICES ASSUME IInv, [Next]_vars PROVE IInv'
  OBVIOUS
<1>1. CASE Prologue
  BY <1>1, PrologueIInv
<1>2. CASE at = "code" /\ \E o \in Assigned[Current.fn] : Compute(o)
  BY <1>2, ComputeIInv
<1>3. CASE at = "code" /\ \E s \in CallSites[Current.fn] : Call(s)
  BY <1>3, CallIInv
<1>4. CASE at = "code" /\ \E o \in Operands(Current.fn) : Return(o)
  BY <1>4, ReturnIInv
<1>5. CASE Resume
  BY <1>5, ResumeIInv
<1>6. CASE UNCHANGED vars
  <2>1. /\ mem' = mem /\ rsp' = rsp /\ rbp' = rbp /\ args' = args /\ rax' = rax
        /\ at' = at /\ active' = active
    BY <1>6 DEF vars
  <2>2. Depth' = Depth /\ Established' = Established
    BY <2>1 DEF Depth, Established
  <2>3. Shape'
    <3>1. \A i \in 1 .. Depth : Activation(i)' = Activation(i)
      BY <2>1, <2>2 DEF Activation
    <3> QED
      BY <2>1, <2>2, <3>1 DEF IInv, Shape
  <2>4. \A i \in Established : Placed(i)' /\ InFrame(i)' /\ Linked(i)'
    BY <2>1, <2>2 DEF IInv, Placed, InFrame, Linked, Low
  <2>5. Ordered' /\ InCode'
    BY <2>1, <2>2 DEF IInv, Ordered, InCode, Low
  <2>6. InPrologue' /\ InReturned'
    BY <2>1, <2>2 DEF IInv, InPrologue, InReturned, Argument, Low
  <2> QED
    BY <2>2, <2>3, <2>4, <2>5, <2>6 DEF IInv
<1> QED
  BY <1>1, <1>2, <1>3, <1>4, <1>5, <1>6 DEF Next

(* The inductive invariant of the generated code: frames lie above one     *)
(* another, each with its operands and its links, and rsp and rbp are      *)
(* those of the function that runs.                                        *)
THEOREM SpecIInv == Spec => []IInv
BY InitIInv, NextIInv, PTL DEF Spec

(* emit_call, emit_return and the prologue: arguments arrive, results      *)
(* return and no function writes another one's frame, for every number and *)
(* size of parameters and operands and every depth of calls.               *)
THEOREM FramesStayIntact == Spec => []FramesIntact
<1>1. IInv => FramesIntact
  <2> SUFFICES ASSUME IInv PROVE FramesIntact
    OBVIOUS
  <2>1. at = "code" => rbp = Current.base
    BY DEF IInv, InCode, Current
  <2>2. \A i \in Established : InFrame(i)
    BY DEF IInv
  <2> QED
    BY <2>1, <2>2 DEF FramesIntact, InFrame
<1> QED
  BY <1>1, SpecIInv, PTL

(* Every function finds its caller's rbp and the address behind the call   *)
(* where emit_return takes them from.                                      *)
THEOREM LinksStayIntact == Spec => []LinksIntact
<1>1. IInv => LinksIntact
  BY DEF IInv, LinksIntact, Linked
<1> QED
  BY <1>1, SpecIInv, PTL

(* Before each call the stack is a multiple of sixteen, whatever number of *)
(* arguments was pushed and however large the frame is.                    *)
THEOREM StackStaysAligned == Spec => []StackAligned
<1>1. IInv => StackAligned
  <2> SUFFICES ASSUME IInv PROVE StackAligned
    OBVIOUS
  <2>1. Shape /\ Depth \in Nat /\ Depth >= 1
    BY ActiveFacts DEF IInv
  <2>2. ASSUME NEW i \in Established PROVE Low(i) \in Nat /\ Low(i) % 16 = 0
    <3> DEFINE b == active[i].base
               d == Frame(active[i].fn)
    <3>1. b \in Nat /\ d \in Nat /\ b % 16 = 0 /\ d % 16 = 0 /\ d <= b
      BY <2>2, FrameBounds DEF IInv, Placed
    <3>2. Low(i) = b - d
      BY DEF Low
    <3> HIDE DEF b, d
    <3> QED
      BY <3>1, <3>2
  <2>3. ASSUME at = "code" PROVE rsp % 16 = 0
    <3>1. 1 \in Established /\ rsp = Low(1)
      BY <2>1, <2>3, EstablishedFacts DEF IInv, InCode
    <3> QED
      BY <2>2, <3>1
  <2>4. ASSUME at = "prologue" PROVE (rsp + 8) % 16 = 0
    <3>1. /\ rsp \in Nat
          /\ Depth = 1 => rsp = Top - 8
          /\ Depth > 1 => rsp + 8 + Popped(active[1].site) = Low(2)
      BY <2>4 DEF IInv, InPrologue
    <3>2. CASE Depth = 1
      BY <3>1, <3>2, CallsAssumption
    <3>3. CASE Depth > 1
      <4> DEFINE p == Popped(active[1].site)
                 l == Low(2)
      <4>1. 1 \in 1 .. Depth /\ 2 \in 1 .. Depth /\ active[1 + 1] = active[2]
        BY <2>1, <3>3
      <4>2. /\ active[2].fn \in Functions
            /\ active[1].site \in CallSites[active[2].fn]
        BY <2>1, <3>3, <4>1, ActiveFacts
      <4>3. p \in Nat /\ p % 16 = 0
        BY <4>2, StackArgumentFacts
      <4>4. l \in Nat /\ l % 16 = 0
        BY <2>1, <2>2, <4>1, EstablishedFacts
      <4>5. rsp + 8 + p = l
        BY <3>1, <3>3
      <4> HIDE DEF p, l
      <4> QED
        BY <3>1, <4>3, <4>4, <4>5
    <3> QED
      BY <2>1, <3>2, <3>3
  <2> QED
    BY <2>3, <2>4 DEF StackAligned
<1> QED
  BY <1>1, SpecIInv, PTL
=============================================================================
