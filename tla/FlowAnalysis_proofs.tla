-------------------------- MODULE FlowAnalysis_proofs --------------------------
(***************************************************************************)
(* Proofs about FlowAnalysis, for any finite set of names, any number of   *)
(* statements and any depth of nesting:                                    *)
(*   - a variable in scope when a construct begins stays in scope until    *)
(*     the construct has ended, also when pushes fail, and where none      *)
(*     failed for it or around it no other is left                         *)
(*     (ScopesKeepTheirVariables);                                         *)
(*   - no function with a return type is left without one                  *)
(*     (ValuedFunctionsReturn);                                            *)
(*   - no accepted program reads a variable that has no value, unless      *)
(*     functions are nested or a save of the flow state fails              *)
(*     (AcceptedReadsAreSound).                                            *)
(***************************************************************************)
EXTENDS FlowAnalysis, FiniteSetTheorems, SequenceTheorems, TLAPS

USE DEF InFunction

-----------------------------------------------------------------------------
(* The invariants.                                                         *)

ScopeStack == [symbols : Seq(Symbol), bases : Seq(Nat), failed : Nat]

Depth(s) == Len(s.bases) + s.failed

(* Scopes lie inside one another, and no scope begins past the last symbol. *)
Nested(s) ==
    /\ \A i, j \in DOMAIN s.bases : i <= j => s.bases[i] <= s.bases[j]
    /\ \A i \in DOMAIN s.bases : s.bases[i] <= Len(s.symbols)

FunctionsIn(constructs) ==
    Cardinality({i \in DOMAIN constructs : constructs[i].kind = "function"})

(* As many pops are left as there were pushes; which scopes they will take *)
(* is the matter of ScopesInPlace.                                         *)
PushesAreCounted == Depth(Scopes) = 1 + Len(open) + FunctionsIn(open)

WellFormed ==
    /\ TypeOK
    /\ Nested(Scopes)
    /\ PushesAreCounted

(***************************************************************************)
(* Which scopes those are.  d[i + 1] is the depth at which construct i     *)
(* began.  A scope deeper than that was pushed while i was open, so it     *)
(* begins no earlier than the variables i found; and where no push failed  *)
(* for i or around it, its own scope is the next one and still there.      *)
(***************************************************************************)
Own(c) == IF c.kind = "function" THEN 2 ELSE 1

NoneLost(constructs, i) == \A j \in i .. Len(constructs) : ~constructs[j].lost

DepthsOf(d, b, f, o) ==
    /\ d \in [1 .. Len(o) + 1 -> Nat]
    /\ d[1] = Len(b) + f
    /\ d[Len(o) + 1] = 1
    /\ \A i \in 1 .. Len(o) : d[i] = d[i + 1] + Own(o[i])
    /\ \A i, j \in 1 .. Len(o) + 1 : i <= j => d[j] <= d[i]

ConstructInPlace(d, b, n, o, i) ==
    /\ o[i].outer <= n
    /\ \A p \in 1 .. Len(b) : p > d[i + 1] => o[i].outer <= b[p]
    /\ NoneLost(o, i) => d[i] <= Len(b) /\ b[d[i + 1] + 1] = o[i].outer

InPlace(d, b, f, n, o) ==
    /\ DepthsOf(d, b, f, o)
    /\ Len(b) >= 1
    /\ \A i \in 1 .. Len(o) : ConstructInPlace(d, b, n, o, i)

ScopesInPlace == \E d : InPlace(d, bases, failed, Len(symbols), open)

NoFunction(constructs, first, last) ==
    \A k \in first .. last : constructs[k].kind # "function"

(***************************************************************************)
(* Once a construct certainly returns, the execution of the function it is *)
(* in is over: control is not here, and it waits outside no construct      *)
(* between here and there.                                                 *)
(***************************************************************************)
EndsTheRun(constructs, i, here) ==
    constructs[i].returns =>
        /\ NoFunction(constructs, 1, i - 1) => ~here
        /\ \A j \in 1 .. i - 1 :
               NoFunction(constructs, j + 1, i - 1) => ~constructs[j].otherRuns

ThenEnded(c) == c.kind = "else" /\ c.thenReturns => ~c.otherRuns

ReturnsEndTheRun ==
    /\ \A i \in DOMAIN open : EndsTheRun(open, i, running)
    /\ \A i \in DOMAIN open : ThenEnded(open[i])

Saving == {"then", "else", "while"}

(* One function is open, the outermost construct, and no push has failed:   *)
(* it has two scopes, every other construct one.                            *)
OneFunction ==
    /\ failed = 0
    /\ Len(bases) = IF open = <<>> THEN 1 ELSE 2 + Len(open)
    /\ \A i \in DOMAIN open : open[i].kind = "function" <=> i = Len(open)
    /\ open = <<>> => symbols = <<>> /\ ~running
    /\ open # <<>> => bases[2] = 0
    /\ \A i \in DOMAIN open : open[i].kind = "function" => ~open[i].otherRuns

(* A saved flow state has one flag for each symbol outside the construct.   *)
SavesFit ==
    \A i \in DOMAIN open :
        /\ open[i].kind \in Saving => Len(open[i].before) = bases[Len(bases) + 1 - i]
        /\ open[i].kind = "else" => Len(open[i].afterThen) = bases[Len(bases) + 1 - i]

(* What the flags call initialized has a value.                             *)
Covered(syms, values, flags) ==
    \A p \in DOMAIN flags : flags[p] => syms[p].id \in values

(* The flow state that a construct will restore is true of the execution    *)
(* whenever control is in the construct or waits outside a part of it.      *)
SavesAreSound ==
    \A i \in DOMAIN open :
        /\ open[i].kind \in {"then", "while"}
           /\ (running \/ \E j \in 1 .. i : open[j].otherRuns)
           => Covered(symbols, assigned, open[i].before)
        /\ open[i].kind = "else" /\ open[i].otherRuns
           => Covered(symbols, assigned, open[i].afterThen)

Flow ==
    /\ OneFunction
    /\ SavesFit
    /\ running => Covered(symbols, assigned, Flags(symbols))
    /\ SavesAreSound

FlowInv == errors = {} => Flow

-----------------------------------------------------------------------------
(* Sequences of constructs.                                                *)

(* What a construct put in front of the others does to their positions.    *)
LEMMA ConsProperties ==
    ASSUME NEW S, NEW c \in S, NEW s \in Seq(S)
    PROVE  /\ <<c>> \o s \in Seq(S)
           /\ Len(<<c>> \o s) = Len(s) + 1
           /\ DOMAIN (<<c>> \o s) = 1 .. Len(s) + 1
           /\ (<<c>> \o s)[1] = c
           /\ \A i \in 2 .. Len(s) + 1 : (<<c>> \o s)[i] = s[i - 1]
<1>1. <<c>> \in Seq(S) /\ Len(<<c>>) = 1 /\ <<c>>[1] = c
  OBVIOUS
<1>2. /\ <<c>> \o s \in Seq(S)
      /\ Len(<<c>> \o s) = Len(s) + 1
      /\ \A i \in 1 .. 1 + Len(s) :
             (<<c>> \o s)[i] = IF i <= 1 THEN <<c>>[i] ELSE s[i - 1]
  BY <1>1, ConcatProperties
<1>3. Len(s) \in Nat
  OBVIOUS
<1> QED
  BY <1>1, <1>2, <1>3, LenProperties

(* Tail and Head, by position.                                             *)
LEMMA TailProperties ==
    ASSUME NEW S, NEW s \in Seq(S), s # <<>>
    PROVE  /\ Head(s) = s[1] /\ Head(s) \in S
           /\ Tail(s) \in Seq(S)
           /\ Len(s) \in Nat \ {0}
           /\ Len(Tail(s)) = Len(s) - 1
           /\ DOMAIN Tail(s) = 1 .. Len(s) - 1
           /\ \A i \in 1 .. Len(s) - 1 : Tail(s)[i] = s[i + 1]
BY HeadTailProperties, LenProperties

(* A return statement marks the innermost construct and nothing else.      *)
LEMMA ReturningProperties ==
    ASSUME NEW s \in Seq(Construct)
    PROVE  /\ Returning(s) \in Seq(Construct)
           /\ Len(Returning(s)) = Len(s)
           /\ DOMAIN Returning(s) = 1 .. Len(s)
           /\ \A i \in 1 .. Len(s) :
                  Returning(s)[i] = IF i = 1 THEN [s[i] EXCEPT !.returns = TRUE] ELSE s[i]
<1>1. CASE s = <<>>
  BY <1>1 DEF Returning
<1>2. CASE s # <<>>
  <2> DEFINE c == [s[1] EXCEPT !.returns = TRUE]
  <2>1. Len(s) \in Nat /\ 1 \in 1 .. Len(s) /\ s[1] \in Construct
    BY <1>2, TailProperties
  <2>2. c \in Construct
    BY <2>1 DEF Construct
  <2>3. Returning(s) = [s EXCEPT ![1] = c]
    BY <1>2 DEF Returning
  <2> HIDE DEF c
  <2>4. /\ Returning(s) \in Seq(Construct) /\ Len(Returning(s)) = Len(s)
        /\ \A j \in 1 .. Len(s) : Returning(s)[j] = IF j = 1 THEN c ELSE s[j]
    BY <2>1, <2>2, <2>3, ExceptSeq
  <2>5. DOMAIN Returning(s) = 1 .. Len(s)
    BY <2>4, LenProperties
  <2> QED
    BY <2>4, <2>5 DEF c
<1> QED
  BY <1>1, <1>2

(* The sequences agree on everything but `returns'.                        *)
LEMMA MaybeReturning ==
    ASSUME NEW s \in Seq(Construct), NEW t, t = s \/ t = Returning(s)
    PROVE  /\ t \in Seq(Construct)
           /\ Len(t) = Len(s) /\ DOMAIN t = 1 .. Len(s)
           /\ \A i \in 1 .. Len(s) :
                  /\ t[i].returns => s[i].returns \/ (i = 1 /\ t # s)
                  /\ t[i].kind = s[i].kind /\ t[i].otherRuns = s[i].otherRuns
                  /\ t[i].before = s[i].before /\ t[i].afterThen = s[i].afterThen
                  /\ t[i].thenReturns = s[i].thenReturns
                  /\ t[i].outerAssigned = s[i].outerAssigned
                  /\ t[i].outer = s[i].outer /\ t[i].lost = s[i].lost
<1>1. /\ t \in Seq(Construct)
      /\ Len(t) = Len(s) /\ DOMAIN t = 1 .. Len(s)
      /\ \A i \in 1 .. Len(s) :
            t[i] = s[i] \/ (i = 1 /\ t # s /\ t[i] = [s[i] EXCEPT !.returns = TRUE])
  BY ReturningProperties, LenProperties
<1>2. ASSUME NEW i \in 1 .. Len(s) PROVE s[i] \in Construct
  BY <1>2, ElementOfSeq
<1>3. ASSUME NEW c \in Construct
      PROVE  LET d == [c EXCEPT !.returns = TRUE]
             IN  /\ d.kind = c.kind /\ d.otherRuns = c.otherRuns
                 /\ d.before = c.before /\ d.afterThen = c.afterThen
                 /\ d.thenReturns = c.thenReturns
                 /\ d.outerAssigned = c.outerAssigned
                 /\ d.outer = c.outer /\ d.lost = c.lost
  BY <1>3 DEF Construct
<1>4. ASSUME NEW i \in 1 .. Len(s)
      PROVE  /\ t[i].returns => s[i].returns \/ (i = 1 /\ t # s)
             /\ t[i].kind = s[i].kind /\ t[i].otherRuns = s[i].otherRuns
             /\ t[i].before = s[i].before /\ t[i].afterThen = s[i].afterThen
             /\ t[i].thenReturns = s[i].thenReturns
             /\ t[i].outerAssigned = s[i].outerAssigned
             /\ t[i].outer = s[i].outer /\ t[i].lost = s[i].lost
  <2>1. CASE t[i] = s[i]
    BY <2>1
  <2>2. CASE i = 1 /\ t # s /\ t[i] = [s[i] EXCEPT !.returns = TRUE]
    BY <1>2, <1>3, <2>2
  <2> QED
    BY <1>1, <2>1, <2>2
<1> QED
  BY <1>1, <1>4

(* How many of the constructs are functions.                               *)
LEMMA FunctionsAreCounted ==
    ASSUME NEW s \in Seq(Construct)
    PROVE  /\ IsFiniteSet({i \in DOMAIN s : s[i].kind = "function"})
           /\ FunctionsIn(s) \in Nat
<1>1. IsFiniteSet(1 .. Len(s)) /\ DOMAIN s = 1 .. Len(s)
  BY FS_Interval
<1>2. {i \in DOMAIN s : s[i].kind = "function"} \in SUBSET (1 .. Len(s))
  BY <1>1
<1> QED
  BY <1>1, <1>2, FS_Subset, FS_CardinalityType DEF FunctionsIn

LEMMA FunctionsOfCons ==
    ASSUME NEW c \in Construct, NEW s \in Seq(Construct)
    PROVE  FunctionsIn(<<c>> \o s) =
               FunctionsIn(s) + (IF c.kind = "function" THEN 1 ELSE 0)
<1> DEFINE t == <<c>> \o s
           A == {i \in DOMAIN s : s[i].kind = "function"}
           B == {i \in DOMAIN t : t[i].kind = "function"}
           C == B \ {1}
           shift == [i \in A |-> i + 1]
<1>1. /\ DOMAIN s = 1 .. Len(s) /\ Len(s) \in Nat
      /\ DOMAIN t = 1 .. Len(s) + 1 /\ t[1] = c
      /\ \A i \in 2 .. Len(s) + 1 : t[i] = s[i - 1]
  BY ConsProperties
<1>2. IsFiniteSet(A) /\ Cardinality(A) \in Nat /\ FunctionsIn(s) = Cardinality(A)
  BY FunctionsAreCounted DEF FunctionsIn
<1>3. FunctionsIn(t) = Cardinality(B)
  BY DEF FunctionsIn
<1> HIDE DEF t
<1>4. shift \in Bijection(A, C)
  <2>1. \A i \in A : i + 1 \in C
    BY <1>1
  <2>2. ASSUME NEW j \in C PROVE j - 1 \in A /\ j = (j - 1) + 1
    BY <1>1
  <2>3. shift \in [A -> C]
    BY <2>1
  <2>4. IsInjective(shift)
    BY <1>1 DEF IsInjective
  <2>5. \A j \in C : \E i \in A : shift[i] = j
    BY <2>2
  <2> QED
    BY <2>3, <2>4, <2>5 DEF Bijection, Injection, Surjection
<1>5. IsFiniteSet(C) /\ Cardinality(C) = Cardinality(A)
  BY <1>2, <1>4, FS_Bijection DEF ExistsBijection
<1>6. B = IF c.kind = "function" THEN C \cup {1} ELSE C
  BY <1>1
<1>7. 1 \notin C
  OBVIOUS
<1> HIDE DEF C, B, A
<1>8. CASE c.kind = "function"
  BY <1>2, <1>3, <1>5, <1>6, <1>7, <1>8, FS_AddElement DEF t
<1>9. CASE c.kind # "function"
  BY <1>2, <1>3, <1>5, <1>6, <1>9 DEF t
<1> QED
  BY <1>8, <1>9

LEMMA FunctionsOfTail ==
    ASSUME NEW s \in Seq(Construct), s # <<>>
    PROVE  FunctionsIn(s) =
               FunctionsIn(Tail(s)) + (IF Head(s).kind = "function" THEN 1 ELSE 0)
<1>1. Head(s) \in Construct /\ Tail(s) \in Seq(Construct)
  BY TailProperties
<1>2. <<Head(s)>> \o Tail(s) = s
  <2> DEFINE t == <<Head(s)>> \o Tail(s)
  <2>1. /\ t \in Seq(Construct) /\ Len(t) = Len(Tail(s)) + 1
        /\ t[1] = Head(s)
        /\ \A i \in 2 .. Len(Tail(s)) + 1 : t[i] = Tail(s)[i - 1]
    BY <1>1, ConsProperties
  <2> HIDE DEF t
  <2>2. /\ Len(t) = Len(s) /\ Len(s) \in Nat
        /\ \A i \in 1 .. Len(t) : t[i] = s[i]
    BY <2>1, TailProperties
  <2> QED
    BY <2>1, <2>2, SeqEqual DEF t
<1> QED
  BY <1>1, <1>2, FunctionsOfCons

LEMMA FunctionsOfAlike ==
    ASSUME NEW s \in Seq(Construct), NEW t \in Seq(Construct), Len(t) = Len(s),
           \A i \in 1 .. Len(s) : t[i].kind = s[i].kind
    PROVE  FunctionsIn(t) = FunctionsIn(s)
<1>1. {i \in DOMAIN t : t[i].kind = "function"} = {i \in DOMAIN s : s[i].kind = "function"}
  BY LenProperties
<1> QED
  BY <1>1 DEF FunctionsIn

-----------------------------------------------------------------------------
(* Scopes.                                                                 *)

(* scope_pop undoes one scope_push, failed or not.                         *)
LEMMA PoppedProperties ==
    ASSUME NEW s \in ScopeStack, Nested(s), Depth(s) >= 1
    PROVE  LET t == Popped(s)
           IN  /\ t \in ScopeStack
               /\ Nested(t)
               /\ Depth(t) = Depth(s) - 1
               /\ \A i \in DOMAIN t.symbols :
                      i \in DOMAIN s.symbols /\ t.symbols[i] = s.symbols[i]
<1>1. /\ s.symbols \in Seq(Symbol) /\ s.bases \in Seq(Nat) /\ s.failed \in Nat
      /\ Len(s.symbols) \in Nat /\ Len(s.bases) \in Nat
      /\ DOMAIN s.symbols = 1 .. Len(s.symbols)
      /\ DOMAIN s.bases = 1 .. Len(s.bases)
  BY DEF ScopeStack
<1>2. CASE s.failed > 0
  <2> DEFINE t == [s EXCEPT !.failed = s.failed - 1]
  <2>1. Popped(s) = t
    BY <1>2 DEF Popped
  <2>2. t = [symbols |-> s.symbols, bases |-> s.bases, failed |-> s.failed - 1]
    BY DEF ScopeStack
  <2> HIDE DEF t
  <2>3. t \in ScopeStack
    <3>1. s.failed - 1 \in Nat
      BY <1>1, <1>2
    <3> QED
      BY <1>1, <2>2, <3>1 DEF ScopeStack
  <2>4. Nested(t)
    BY <2>2 DEF Nested
  <2>5. Depth(t) = Depth(s) - 1
    <3>1. Depth(t) = Len(s.bases) + (s.failed - 1)
      BY <2>2 DEF Depth
    <3> QED
      BY <1>1, <3>1 DEF Depth
  <2> QED
    BY <2>1, <2>2, <2>3, <2>4, <2>5
<1>3. CASE ~(s.failed > 0)
  <2> DEFINE b == s.bases
             n == Len(b)
             t == [s EXCEPT !.bases = SubSeq(b, 1, n - 1),
                            !.symbols = SubSeq(s.symbols, 1, b[n])]
  <2>1. b # <<>> /\ n \in Nat \ {0} /\ n \in DOMAIN b
    BY <1>1, <1>3 DEF Depth
  <2>2. Popped(s) = t
    BY <1>3, <2>1 DEF Popped, Outside
  <2>3. b[n] \in Nat /\ b[n] <= Len(s.symbols)
    BY <1>1, <2>1 DEF Nested
  <2>4. /\ SubSeq(b, 1, n - 1) \in Seq(Nat)
        /\ Len(SubSeq(b, 1, n - 1)) = n - 1
        /\ \A i \in 1 .. n - 1 : SubSeq(b, 1, n - 1)[i] = b[i]
    <3>1. \A i \in 1 .. n - 1 : b[i] \in Nat
      BY <1>1, <2>1
    <3>2. 1 \in Int /\ n - 1 \in Int
      BY <2>1
    <3> HIDE DEF b, n
    <3> QED
      BY <2>1, <3>1, <3>2, SubSeqProperties
  <2>5. /\ SubSeq(s.symbols, 1, b[n]) \in Seq(Symbol)
        /\ Len(SubSeq(s.symbols, 1, b[n])) = b[n]
        /\ \A i \in 1 .. b[n] : SubSeq(s.symbols, 1, b[n])[i] = s.symbols[i]
    <3> DEFINE m == b[n]
    <3>1. \A i \in 1 .. m : s.symbols[i] \in Symbol
      BY <1>1, <2>3
    <3>2. 1 \in Int /\ m \in Int /\ m \in Nat
      BY <2>3
    <3> HIDE DEF m
    <3>3. /\ SubSeq(s.symbols, 1, m) \in Seq(Symbol)
          /\ Len(SubSeq(s.symbols, 1, m)) = m
          /\ \A i \in 1 .. m : SubSeq(s.symbols, 1, m)[i] = s.symbols[i]
      BY <3>1, <3>2, SubSeqProperties
    <3> QED
      BY <3>3 DEF m
  <2>6. /\ t.symbols = SubSeq(s.symbols, 1, b[n]) /\ t.bases = SubSeq(b, 1, n - 1)
        /\ t.failed = s.failed
    BY DEF ScopeStack
  <2>7. t \in ScopeStack
    <3> HIDE DEF b, n
    <3> QED
      BY <1>1, <2>4, <2>5 DEF ScopeStack
  <2> HIDE DEF t
  <2>8. \A i \in 1 .. n - 1 : b[i] <= b[n] /\ i \in DOMAIN b
    <3>1. DOMAIN b = 1 .. n
      BY <1>1, LenProperties
    <3>2. \A i, j \in DOMAIN b : i <= j => b[i] <= b[j]
      BY <1>1 DEF Nested
    <3> HIDE DEF b, n
    <3>3. \A i \in 1 .. n - 1 : i \in DOMAIN b /\ i <= n
      BY <2>1, <3>1
    <3> QED
      BY <2>1, <3>2, <3>3
  <2>9. DOMAIN t.bases = 1 .. n - 1 /\ Len(t.symbols) = b[n]
    BY <2>1, <2>4, <2>5, <2>6, LenProperties
  <2>10. Nested(t)
    BY <2>4, <2>6, <2>8, <2>9 DEF Nested
  <2>11. Depth(t) = Depth(s) - 1
    <3>1. Len(t.bases) = Len(s.bases) - 1 /\ t.failed = s.failed
      BY <2>4, <2>6
    <3> QED
      BY <1>1, <3>1 DEF Depth
  <2>12. \A i \in DOMAIN t.symbols :
             i \in DOMAIN s.symbols /\ t.symbols[i] = s.symbols[i]
    <3>1. DOMAIN t.symbols = 1 .. b[n]
      BY <2>5, <2>6, LenProperties
    <3> QED
      BY <1>1, <2>3, <2>5, <2>6, <3>1
  <2> QED
    BY <2>2, <2>7, <2>10, <2>11, <2>12
<1> QED
  BY <1>2, <1>3

(* The case that no push has failed: the innermost scope goes.             *)
LEMMA PoppedScope ==
    ASSUME NEW s \in ScopeStack, Nested(s), s.failed = 0, Len(s.bases) >= 1
    PROVE  LET t == Popped(s)
           IN  /\ t.failed = 0
               /\ Len(t.bases) = Len(s.bases) - 1
               /\ \A i \in 1 .. Len(s.bases) - 1 : t.bases[i] = s.bases[i]
               /\ Len(t.symbols) = s.bases[Len(s.bases)]
<1> DEFINE n == Len(s.bases)
           m == s.bases[n]
<1>1. /\ s.symbols \in Seq(Symbol) /\ s.bases \in Seq(Nat)
      /\ n \in Nat \ {0} /\ s.bases # <<>>
      /\ \A i \in 1 .. n : s.bases[i] \in Nat
      /\ \A i \in 1 .. Len(s.symbols) : s.symbols[i] \in Symbol
      /\ Len(s.symbols) \in Nat
  BY DEF ScopeStack
<1>2. m \in Nat /\ m <= Len(s.symbols)
  BY <1>1 DEF Nested
<1>3. Popped(s) = [s EXCEPT !.bases = SubSeq(s.bases, 1, n - 1),
                            !.symbols = SubSeq(s.symbols, 1, m)]
  BY <1>1 DEF Popped, Outside
<1>4. /\ Popped(s).failed = 0
      /\ Popped(s).bases = SubSeq(s.bases, 1, n - 1)
      /\ Popped(s).symbols = SubSeq(s.symbols, 1, m)
  BY <1>3 DEF ScopeStack
<1> HIDE DEF m, n
<1>5. /\ Len(SubSeq(s.bases, 1, n - 1)) = n - 1
      /\ \A i \in 1 .. n - 1 : SubSeq(s.bases, 1, n - 1)[i] = s.bases[i]
  BY <1>1, SubSeqProperties
<1>6. Len(SubSeq(s.symbols, 1, m)) = m
  BY <1>1, <1>2, SubSeqProperties
<1> QED
  BY <1>4, <1>5, <1>6 DEF m, n

(* A state that differs only in which symbols are initialized is as nested. *)
LEMMA NestedAlike ==
    ASSUME NEW s \in ScopeStack, Nested(s), NEW t \in ScopeStack,
           t.bases = s.bases, Len(t.symbols) >= Len(s.symbols)
    PROVE  Nested(t)
<1>1. /\ Len(s.symbols) \in Nat /\ Len(t.symbols) \in Nat
      /\ \A i \in DOMAIN s.bases : s.bases[i] \in Nat
  BY DEF ScopeStack
<1> QED
  BY <1>1 DEF Nested

(* scope_push records where the new scope begins.                          *)
LEMMA PushedProperties ==
    ASSUME NEW s \in ScopeStack, Nested(s), NEW t \in ScopeStack, NEW ok \in BOOLEAN,
           t.symbols = s.symbols,
           t.bases = IF ok THEN Append(s.bases, Len(s.symbols)) ELSE s.bases,
           t.failed = IF ok THEN s.failed ELSE s.failed + 1
    PROVE  Nested(t) /\ Depth(t) = Depth(s) + 1
<1>1. /\ s.bases \in Seq(Nat) /\ s.failed \in Nat
      /\ Len(s.symbols) \in Nat /\ Len(s.bases) \in Nat
      /\ DOMAIN s.bases = 1 .. Len(s.bases)
      /\ \A i \in DOMAIN s.bases : s.bases[i] \in Nat
  BY DEF ScopeStack
<1>2. CASE ok
  <2>1. /\ Len(t.bases) = Len(s.bases) + 1
        /\ DOMAIN t.bases = 1 .. Len(s.bases) + 1
        /\ \A i \in 1 .. Len(s.bases) : t.bases[i] = s.bases[i]
        /\ t.bases[Len(s.bases) + 1] = Len(s.symbols)
    BY <1>1, <1>2, AppendProperties, LenProperties
  <2>2. Depth(t) = Depth(s) + 1
    BY <1>1, <1>2, <2>1 DEF Depth
  <2>3. \A i, j \in DOMAIN s.bases : i <= j => s.bases[i] <= s.bases[j]
    BY DEF Nested
  <2>4. \A i \in DOMAIN s.bases : s.bases[i] <= Len(s.symbols)
    BY DEF Nested
  <2>5. ASSUME NEW i \in DOMAIN t.bases PROVE t.bases[i] <= Len(t.symbols)
    BY <1>1, <2>1, <2>4
  <2>6. ASSUME NEW i \in DOMAIN t.bases, NEW j \in DOMAIN t.bases, i <= j
        PROVE  t.bases[i] <= t.bases[j]
    BY <1>1, <2>1, <2>3, <2>4, <2>6
  <2>7. Nested(t)
    BY <2>5, <2>6 DEF Nested
  <2> QED
    BY <2>2, <2>7
<1>3. CASE ~ok
  <2>1. t.bases = s.bases /\ t.failed = s.failed + 1
    BY <1>3
  <2>2. Nested(t)
    BY <2>1 DEF Nested
  <2>3. Depth(t) = Depth(s) + 1
    <3>1. Depth(s) = Len(s.bases) + s.failed /\ Depth(t) = Len(s.bases) + (s.failed + 1)
      BY <2>1 DEF Depth
    <3>2. Len(s.bases) \in Nat /\ s.failed \in Nat
      BY <1>1
    <3> QED
      BY <3>1, <3>2
  <2> QED
    BY <2>2, <2>3
<1> QED
  BY <1>2, <1>3

(* scope_flow_restore changes no symbol but in `initialized'.              *)
LEMMA RestoredProperties ==
    ASSUME NEW syms \in Seq(Symbol), NEW flags \in Seq(BOOLEAN)
    PROVE  LET r == Restored(syms, flags)
           IN  /\ r \in Seq(Symbol)
               /\ Len(r) = Len(syms) /\ DOMAIN r = 1 .. Len(syms)
               /\ \A p \in 1 .. Len(syms) :
                      /\ r[p].id = syms[p].id
                      /\ r[p].initialized =
                             IF p \in 1 .. Len(flags) THEN flags[p] ELSE syms[p].initialized
<1> DEFINE r == Restored(syms, flags)
<1>1. /\ Len(syms) \in Nat /\ DOMAIN syms = 1 .. Len(syms)
      /\ \A p \in 1 .. Len(syms) : syms[p] \in Symbol
      /\ DOMAIN flags = 1 .. Len(flags)
      /\ \A p \in DOMAIN flags : flags[p] \in BOOLEAN
  OBVIOUS
<1>2. ASSUME NEW p \in 1 .. Len(syms)
      PROVE  /\ r[p] \in Symbol
             /\ r[p].id = syms[p].id
             /\ r[p].initialized =
                    IF p \in 1 .. Len(flags) THEN flags[p] ELSE syms[p].initialized
  <2>1. CASE p \in DOMAIN flags
    <3>1. r[p] = [syms[p] EXCEPT !.initialized = flags[p]]
      BY <1>1, <2>1 DEF Restored
    <3>2. flags[p] \in BOOLEAN /\ syms[p] \in Symbol
      BY <1>1, <2>1
    <3> QED
      BY <1>1, <2>1, <3>1, <3>2 DEF Symbol
  <2>2. CASE p \notin DOMAIN flags
    BY <1>1, <2>2 DEF Restored
  <2> QED
    BY <2>1, <2>2
<1>3. r = [p \in 1 .. Len(syms) |-> r[p]] /\ DOMAIN r = 1 .. Len(syms)
  BY <1>1 DEF Restored
<1> HIDE DEF r
<1>4. r \in [1 .. Len(syms) -> Symbol]
  BY <1>2, <1>3
<1>5. r \in Seq(Symbol) /\ Len(r) = Len(syms)
  BY <1>1, <1>3, <1>4, SeqDef
<1> QED
  BY <1>2, <1>3, <1>5 DEF r

(* Saved, filled and merged flow states are as long as what they describe. *)
LEMMA FlagsProperties ==
    ASSUME NEW syms \in Seq(Symbol)
    PROVE  /\ Flags(syms) \in Seq(BOOLEAN)
           /\ Len(Flags(syms)) = Len(syms) /\ DOMAIN Flags(syms) = 1 .. Len(syms)
           /\ \A p \in 1 .. Len(syms) : Flags(syms)[p] = syms[p].initialized
<1>1. /\ Len(syms) \in Nat /\ DOMAIN syms = 1 .. Len(syms)
      /\ \A p \in 1 .. Len(syms) : syms[p].initialized \in BOOLEAN
  <2>1. \A p \in 1 .. Len(syms) : syms[p] \in Symbol
    OBVIOUS
  <2>2. \A c \in Symbol : c.initialized \in BOOLEAN
    BY DEF Symbol
  <2> QED
    BY <2>1, <2>2
<1>2. Flags(syms) \in [1 .. Len(syms) -> BOOLEAN]
  BY <1>1 DEF Flags
<1>3. Flags(syms) \in Seq(BOOLEAN) /\ Len(Flags(syms)) = Len(syms)
  BY <1>1, <1>2, SeqDef
<1> QED
  BY <1>1, <1>3 DEF Flags

LEMMA SavesType ==
    ASSUME NEW syms \in Seq(Symbol)
    PROVE  \A f \in Saves(syms) : f \in Seq(BOOLEAN)
<1>1. <<>> \in Seq(BOOLEAN)
  OBVIOUS
<1>2. \A f \in Saves(syms) : f = Flags(syms) \/ f = <<>>
  BY DEF Saves
<1> QED
  BY <1>1, <1>2, FlagsProperties

LEMMA BranchEndsType ==
    ASSUME NEW syms \in Seq(Symbol), NEW returns \in BOOLEAN
    PROVE  \A f \in BranchEnds(syms, returns) : f \in Seq(BOOLEAN)
<1>1. ASSUME NEW f \in Seq(BOOLEAN) PROVE Filled(f) \in Seq(BOOLEAN)
  <2>1. Filled(f) \in [1 .. Len(f) -> BOOLEAN] /\ Len(f) \in Nat
    BY DEF Filled
  <2> QED
    BY <2>1, SeqDef
<1> QED
  BY <1>1, SavesType DEF BranchEnds

LEMMA MergedType ==
    ASSUME NEW f \in Seq(BOOLEAN), NEW g \in Seq(BOOLEAN)
    PROVE  /\ Merged(f, g) \in Seq(BOOLEAN)
           /\ Len(Merged(f, g)) = Len(f) /\ DOMAIN Merged(f, g) = 1 .. Len(f)
<1>1. /\ Len(f) \in Nat /\ DOMAIN f = 1 .. Len(f)
      /\ \A p \in DOMAIN f : f[p] \in BOOLEAN
      /\ \A p \in DOMAIN g : g[p] \in BOOLEAN
  OBVIOUS
<1>2. Merged(f, g) \in [1 .. Len(f) -> BOOLEAN]
  BY <1>1 DEF Merged
<1>3. Merged(f, g) \in Seq(BOOLEAN) /\ Len(Merged(f, g)) = Len(f)
  BY <1>1, <1>2, SeqDef
<1> QED
  BY <1>1, <1>2, <1>3

-----------------------------------------------------------------------------
(* Names.                                                                  *)

LEMMA HighestIndex ==
    ASSUME NEW n \in Nat, NEW S \in SUBSET (1 .. n), S # {}
    PROVE  \E m \in S : \A k \in S : k <= m
<1> DEFINE T == {n - k : k \in S}
<1>1. \A k \in S : n - k \in Nat /\ n - k \in T
  OBVIOUS
<1>2. T \subseteq Nat /\ T # {}
  BY <1>1
<1> DEFINE R == OpToRel(<, Nat)
<1>3. IsWellFoundedOn(R, Nat)
  BY NatLessThanWellFounded
<1>4. \A i, j \in Nat : i < j => <<i, j>> \in R
  BY DEF OpToRel
<1> HIDE DEF R, T
<1>5. \E x \in T : \A y \in T : ~(<<y, x>> \in R)
  BY <1>2, <1>3, WFMin
<1>6. PICK x \in T : \A y \in T : ~(y < x)
  BY <1>2, <1>4, <1>5
<1>7. PICK m \in S : x = n - m
  BY DEF T
<1> QED
  BY <1>1, <1>6, <1>7

(* scope_lookup finds a symbol if there is one of the name.                *)
LEMMA LookupProperties ==
    ASSUME symbols \in Seq(Symbol), NEW n, Declared(n)
    PROVE  /\ Lookup(n) \in 1 .. Len(symbols)
           /\ symbols[Lookup(n)] \in Symbol
<1>1. Len(symbols) \in Nat /\ Named(n) \in SUBSET (1 .. Len(symbols))
  BY DEF Named
<1>2. Named(n) # {}
  BY DEF Declared
<1>3. \E m \in Named(n) : \A k \in Named(n) : k <= m
  BY <1>1, <1>2, HighestIndex
<1>4. Lookup(n) \in Named(n)
  BY <1>3 DEF Lookup
<1> QED
  BY <1>1, <1>4, ElementOfSeq

LEMMA ReadErrorsType ==
    ASSUME NEW e
    PROVE  ReadErrors(e) \subseteq ErrorKind
BY DEF ReadErrors, ErrorKind

(* The parameters of a function can be put in an order.                    *)
LEMMA OrderExists ==
    ASSUME NEW S, IsFiniteSet(S), NEW a \in Nat
    PROVE  LET ids == a .. a + Cardinality(S) - 1
               order == CHOOSE f \in [ids -> S] : {f[i] : i \in ids} = S
           IN  order \in [ids -> S]
<1> DEFINE n == Cardinality(S)
           ids == a .. a + n - 1
<1>1. n \in Nat /\ ExistsBijection(1 .. n, S)
  BY FS_CardinalityType
<1>2. PICK g : g \in Bijection(1 .. n, S)
  BY <1>1 DEF ExistsBijection
<1>3. g \in [1 .. n -> S] /\ \A t \in S : \E i \in 1 .. n : g[i] = t
  BY <1>2 DEF Bijection, Injection, Surjection
<1> DEFINE f == [i \in ids |-> g[i - a + 1]]
<1> HIDE DEF n
<1>4. \A i \in ids : i - a + 1 \in 1 .. n
  BY <1>1
<1>5. f \in [ids -> S]
  BY <1>3, <1>4
<1>6. ASSUME NEW t \in S PROVE \E i \in ids : f[i] = t
  <2>1. PICK i \in 1 .. n : g[i] = t
    BY <1>3
  <2>2. i + a - 1 \in ids /\ (i + a - 1) - a + 1 = i
    BY <1>1
  <2>3. f[i + a - 1] = t
    BY <2>1, <2>2
  <2> QED
    BY <2>2, <2>3
<1>7. {f[i] : i \in ids} = S
  BY <1>5, <1>6
<1>8. \E h \in [ids -> S] : {h[i] : i \in ids} = S
  BY <1>5, <1>7
<1> HIDE DEF f, ids
<1>9. (CHOOSE h \in [ids -> S] : {h[i] : i \in ids} = S) \in [ids -> S]
  BY <1>8
<1> QED
  BY <1>9 DEF ids, n

(* The symbols that a function's parameters become.                        *)
LEMMA ParametersType ==
    ASSUME NEW new \in SUBSET Names, NEW a \in Nat, NEW syms \in Seq(Symbol)
    PROVE  LET ids == a .. a + Cardinality(new) - 1
               order == CHOOSE f \in [ids -> new] : {f[i] : i \in ids} = new
               added == [i \in 1 .. Cardinality(new) |->
                            [name |-> order[a + i - 1], id |-> a + i - 1,
                             mutable |-> TRUE, initialized |-> TRUE]]
           IN  /\ Cardinality(new) \in Nat
               /\ ids \subseteq Nat
               /\ syms \o added \in Seq(Symbol)
               /\ Len(syms \o added) = Len(syms) + Cardinality(new)
               /\ \A p \in 1 .. Len(syms) : (syms \o added)[p] = syms[p]
               /\ syms = <<>> => \A p \in 1 .. Cardinality(new) : (syms \o added)[p].id \in ids
<1> DEFINE n == Cardinality(new)
           ids == a .. a + n - 1
           order == CHOOSE f \in [ids -> new] : {f[i] : i \in ids} = new
           added == [i \in 1 .. n |-> [name |-> order[a + i - 1], id |-> a + i - 1,
                                       mutable |-> TRUE, initialized |-> TRUE]]
<1>1. IsFiniteSet(new)
  BY FlowAssumption, FS_Subset
<1>2. n \in Nat
  BY <1>1, FS_CardinalityType
<1>3. order \in [ids -> new]
  BY <1>1, OrderExists
<1> HIDE DEF order, n
<1>4. ASSUME NEW i \in 1 .. n
      PROVE  /\ a + i - 1 \in ids
             /\ added[i] \in Symbol
             /\ added[i].id \in ids
  <2>1. a + i - 1 \in ids /\ a + i - 1 \in Nat
    BY <1>2
  <2>2. order[a + i - 1] \in Names
    BY <1>3, <2>1
  <2>3. added[i] = [name |-> order[a + i - 1], id |-> a + i - 1,
                    mutable |-> TRUE, initialized |-> TRUE]
    OBVIOUS
  <2> HIDE DEF ids, added
  <2> QED
    BY <2>1, <2>2, <2>3 DEF Symbol
<1>5. ids \subseteq Nat
  BY <1>2
<1>6. added \in [1 .. n -> Symbol] /\ DOMAIN added = 1 .. n
  BY <1>4
<1> HIDE DEF added, ids
<1>7. added \in Seq(Symbol) /\ Len(added) = n
  BY <1>2, <1>6, SeqDef
<1>8. /\ syms \o added \in Seq(Symbol)
      /\ Len(syms \o added) = Len(syms) + n
      /\ \A p \in 1 .. Len(syms) : (syms \o added)[p] = syms[p]
  <2>1. /\ syms \o added \in Seq(Symbol)
        /\ Len(syms \o added) = Len(syms) + n
        /\ \A p \in 1 .. Len(syms) + n :
               (syms \o added)[p] = IF p <= Len(syms) THEN syms[p] ELSE added[p - Len(syms)]
    BY <1>7, ConcatProperties
  <2>2. Len(syms) \in Nat
    OBVIOUS
  <2> QED
    BY <1>2, <2>1, <2>2
<1>9. syms = <<>> => \A p \in 1 .. n : (syms \o added)[p].id \in ids
  BY <1>4, <1>7, ConcatEmptySeq
<1> QED
  BY <1>2, <1>5, <1>8, <1>9 DEF added, ids, order, n

-----------------------------------------------------------------------------
(* Pushes and pops are counted.                                            *)

LEMMA ScopesType ==
    ASSUME TypeOK
    PROVE  /\ Scopes \in ScopeStack
           /\ Scopes.symbols = symbols /\ Scopes.bases = bases /\ Scopes.failed = failed
           /\ Len(symbols) \in Nat /\ Len(bases) \in Nat /\ failed \in Nat
           /\ Len(open) \in Nat /\ FunctionsIn(open) \in Nat
           /\ Depth(Scopes) = Len(bases) + failed
<1>1. /\ symbols \in Seq(Symbol) /\ bases \in Seq(Nat) /\ failed \in Nat
      /\ open \in Seq(Construct)
  BY DEF TypeOK
<1>2. Scopes.symbols = symbols /\ Scopes.bases = bases /\ Scopes.failed = failed
  BY DEF Scopes
<1>3. Scopes \in ScopeStack
  BY <1>1 DEF Scopes, ScopeStack
<1>4. Depth(Scopes) = Len(bases) + failed
  BY <1>2 DEF Depth
<1>5. Len(open) \in Nat
  BY <1>1
<1>6. FunctionsIn(open) \in Nat
  BY <1>1, FunctionsAreCounted, Zenon
<1> QED
  BY <1>1, <1>2, <1>3, <1>4, <1>5, <1>6

LEMMA ScopesBecomeThem ==
    ASSUME NEW t \in ScopeStack, ScopesBecome(t)
    PROVE  /\ Scopes' = t
           /\ symbols' = t.symbols /\ bases' = t.bases /\ failed' = t.failed
           /\ symbols' \in Seq(Symbol) /\ bases' \in Seq(Nat) /\ failed' \in Nat
           /\ nextId' = nextId
BY DEF ScopesBecome, Scopes, ScopeStack

LEMMA DepthHere ==
    ASSUME WellFormed
    PROVE  /\ Depth(Scopes) = 1 + Len(open) + FunctionsIn(open)
           /\ open # <<>> => Depth(Scopes) >= 2
           /\ open # <<>> /\ Head(open).kind = "function" => Depth(Scopes) >= 3
<1>1. /\ Depth(Scopes) = 1 + Len(open) + FunctionsIn(open)
      /\ open \in Seq(Construct) /\ Len(open) \in Nat /\ FunctionsIn(open) \in Nat
  BY ScopesType DEF WellFormed, PushesAreCounted, FunctionsIn, TypeOK
<1>2. open # <<>> => Len(open) >= 1
  BY <1>1
<1>3. ASSUME open # <<>>, Head(open).kind = "function" PROVE FunctionsIn(open) >= 1
  <2>1. FunctionsIn(open) = FunctionsIn(Tail(open)) + 1
    BY <1>1, <1>3, FunctionsOfTail
  <2>2. FunctionsIn(Tail(open)) \in Nat
    BY <1>1, <1>3, FunctionsAreCounted, TailProperties
  <2> QED
    BY <2>1, <2>2
<1> QED
  BY <1>1, <1>2, <1>3

LEMMA WellFormedThen ==
    ASSUME TypeOK', Nested(Scopes'),
           Depth(Scopes') = 1 + Len(open') + FunctionsIn(open')
    PROVE  WellFormed'
<1>1. Nested(Scopes)'
  OBVIOUS
<1>2. Depth(Scopes') = Len(bases') + failed'
  BY DEF Depth, Scopes
<1>3. PushesAreCounted'
  BY <1>2 DEF PushesAreCounted, FunctionsIn
<1> QED
  BY <1>1, <1>3 DEF WellFormed

(* A statement that leaves the constructs, but for a return in the         *)
(* innermost one, and the depth of the scopes alone.                       *)
LEMMA WellFormedInPlace ==
    ASSUME WellFormed, TypeOK', Nested(Scopes'),
           bases' = bases, failed' = failed, open' = open \/ open' = Returning(open)
    PROVE  WellFormed'
<1>1. /\ open \in Seq(Construct) /\ open' \in Seq(Construct)
      /\ Depth(Scopes) = Len(bases) + failed
  BY ScopesType DEF WellFormed, TypeOK
<1>2. Depth(Scopes') = Depth(Scopes)
  BY <1>1 DEF Depth, Scopes
<1>3. /\ Len(open') = Len(open)
      /\ \A i \in 1 .. Len(open) : open'[i].kind = open[i].kind
  BY <1>1, MaybeReturning
<1>4. FunctionsIn(open') = FunctionsIn(open)
  BY <1>1, <1>3, FunctionsOfAlike
<1> QED
  BY <1>2, <1>3, <1>4, DepthHere, WellFormedThen

(* A construct with one scope is opened.                                   *)
ScopePushed == \E ok \in Pushes : PushScope(ok)

LEMMA WellFormedOpening ==
    ASSUME WellFormed, ScopePushed, UNCHANGED <<symbols, nextId>>,
           NEW c \in Construct, c.kind # "function", open' = <<c>> \o open,
           running' \in BOOLEAN, assigned' \subseteq Nat, size' \in 0 .. MaxSize
    PROVE  WellFormed'
<1>1. PICK ok \in Pushes :
          /\ bases' = IF ok THEN Append(bases, Len(symbols)) ELSE bases
          /\ failed' = IF ok THEN failed ELSE failed + 1
          /\ errors' = errors \cup OutOfMemory(ok)
  BY DEF ScopePushed, PushScope
<1>2. ok \in BOOLEAN
  BY <1>1 DEF Pushes
<1>3. /\ TypeOK /\ Nested(Scopes) /\ Scopes \in ScopeStack
      /\ Len(symbols) \in Nat /\ failed \in Nat
      /\ Len(open) \in Nat /\ FunctionsIn(open) \in Nat
  BY ScopesType DEF WellFormed
<1>4. bases' \in Seq(Nat) /\ failed' \in Nat
  BY <1>1, <1>2, <1>3, AppendProperties DEF TypeOK
<1>5. open' \in Seq(Construct) /\ Len(open') = Len(open) + 1
  BY <1>3, ConsProperties DEF TypeOK
<1>6. FunctionsIn(open') = FunctionsIn(open)
  BY <1>3, FunctionsOfCons DEF TypeOK
<1>7. errors' \subseteq ErrorKind
  BY <1>1, <1>3 DEF TypeOK, OutOfMemory, ErrorKind
<1>8. TypeOK'
  BY <1>3, <1>4, <1>5, <1>7 DEF TypeOK
<1>9. /\ Scopes' \in ScopeStack /\ Scopes'.symbols = Scopes.symbols
      /\ Scopes'.bases = IF ok THEN Append(Scopes.bases, Len(Scopes.symbols))
                         ELSE Scopes.bases
      /\ Scopes'.failed = IF ok THEN Scopes.failed ELSE Scopes.failed + 1
  BY <1>1, <1>3, <1>4 DEF Scopes, ScopeStack, TypeOK
<1>10. Nested(Scopes') /\ Depth(Scopes') = Depth(Scopes) + 1
  <2> DEFINE t == Scopes'
             s == Scopes
  <2>1. s \in ScopeStack /\ Nested(s) /\ t \in ScopeStack
    BY <1>3, <1>9
  <2>2. /\ t.symbols = s.symbols
        /\ t.bases = IF ok THEN Append(s.bases, Len(s.symbols)) ELSE s.bases
        /\ t.failed = IF ok THEN s.failed ELSE s.failed + 1
    BY <1>9
  <2> HIDE DEF s, t
  <2>3. Nested(t) /\ Depth(t) = Depth(s) + 1
    BY <1>2, <2>1, <2>2, PushedProperties
  <2> QED
    BY <2>3 DEF s, t
<1> QED
  BY <1>3, <1>5, <1>6, <1>8, <1>10, DepthHere, WellFormedThen

(* The innermost construct, which has one scope, is closed.                *)
LEMMA WellFormedClosing ==
    ASSUME WellFormed, open # <<>>, Head(open).kind # "function",
           NEW t \in ScopeStack, Nested(t), Depth(t) = Depth(Scopes) - 1,
           ScopesBecome(t),
           open' = Returning(Tail(open)) \/ open' = Tail(open),
           running' \in BOOLEAN, UNCHANGED <<errors, assigned, size>>
    PROVE  WellFormed'
<1>1. TypeOK /\ Len(open) \in Nat /\ FunctionsIn(open) \in Nat
  BY ScopesType DEF WellFormed
<1>2. /\ Tail(open) \in Seq(Construct) /\ Len(Tail(open)) = Len(open) - 1
      /\ FunctionsIn(open) = FunctionsIn(Tail(open)) + 0
  <2>1. open \in Seq(Construct)
    BY <1>1 DEF TypeOK
  <2> QED
    BY <2>1, TailProperties, FunctionsOfTail
<1>3. /\ open' \in Seq(Construct) /\ Len(open') = Len(Tail(open))
      /\ \A i \in 1 .. Len(Tail(open)) : open'[i].kind = Tail(open)[i].kind
  <2> DEFINE s == Tail(open)
             u == open'
  <2>1. s \in Seq(Construct) /\ (u = s \/ u = Returning(s))
    BY <1>2
  <2> HIDE DEF s, u
  <2>2. /\ u \in Seq(Construct) /\ Len(u) = Len(s)
        /\ \A i \in 1 .. Len(s) : u[i].kind = s[i].kind
    BY <2>1, MaybeReturning
  <2> QED
    BY <2>2 DEF s, u
<1>4. FunctionsIn(open') = FunctionsIn(Tail(open)) /\ FunctionsIn(open') \in Nat
  BY <1>2, <1>3, FunctionsOfAlike, FunctionsAreCounted
<1>5. /\ Scopes' = t
      /\ symbols' \in Seq(Symbol) /\ bases' \in Seq(Nat) /\ failed' \in Nat
      /\ nextId' = nextId
  BY ScopesBecomeThem
<1>6. TypeOK'
  BY <1>1, <1>3, <1>5 DEF TypeOK
<1> QED
  BY <1>1, <1>2, <1>3, <1>4, <1>5, <1>6, DepthHere, WellFormedThen

LEMMA SizeGrows ==
    ASSUME TypeOK, size < MaxSize, size' = size + 1
    PROVE  size' \in 0 .. MaxSize
BY FlowAssumption DEF TypeOK

(* analyze_var_decl adds at most one symbol and one error.                 *)
LEMMA DeclareEffect ==
    ASSUME TypeOK, NEW n \in Names, NEW mutable \in BOOLEAN, NEW e,
           Declare(n, mutable, e)
    PROVE  /\ size' \in 0 .. MaxSize
           /\ errors \subseteq errors' /\ errors' \subseteq ErrorKind
           /\ UNCHANGED <<bases, failed, open, running>>
           /\ \/ UNCHANGED <<symbols, nextId, assigned>>
              \/ \E new \in Symbol :
                     /\ symbols' = Append(symbols, new)
                     /\ new.id = nextId /\ nextId' = nextId + 1
                     /\ assigned' = IF running /\ new.initialized
                                    THEN assigned \cup {nextId} ELSE assigned
<1> DEFINE wrong == IF n \in CurrentFunction.params THEN {"redeclared"}
                    ELSE IF ReadErrors(e) # {} THEN ReadErrors(e)
                    ELSE IF Redeclared(n) THEN {"redeclared"}
                    ELSE {}
           new == [name |-> n, id |-> nextId, mutable |-> mutable,
                   initialized |-> e # NoValue]
<1>1. /\ errors' = errors \cup wrong
      /\ \/ UNCHANGED <<symbols, nextId, assigned>>
         \/ /\ symbols' = Append(symbols, new)
            /\ nextId' = nextId + 1
            /\ assigned' = IF running /\ e # NoValue THEN assigned \cup {nextId}
                           ELSE assigned
  BY DEF Declare
<1>2. wrong \subseteq ErrorKind
  BY ReadErrorsType DEF ErrorKind
<1>3. new \in Symbol
  BY DEF TypeOK, Symbol
<1>4. new.id = nextId /\ new.initialized = (e # NoValue)
  OBVIOUS
<1>5. size' \in 0 .. MaxSize
  BY SizeGrows DEF Declare, Statement
<1>6. UNCHANGED <<bases, failed, open, running>>
  BY DEF Declare
<1> HIDE DEF wrong, new
<1>7. errors \subseteq errors' /\ errors' \subseteq ErrorKind
  BY <1>1, <1>2 DEF TypeOK
<1>8. \/ UNCHANGED <<symbols, nextId, assigned>>
      \/ /\ symbols' = Append(symbols, new)
         /\ new.id = nextId /\ nextId' = nextId + 1
         /\ assigned' = IF running /\ new.initialized
                        THEN assigned \cup {nextId} ELSE assigned
  BY <1>1, <1>4
<1> QED
  BY <1>3, <1>5, <1>6, <1>7, <1>8

(* analyze_var_assign changes one symbol, and that in `initialized' only.  *)
LEMMA AssignEffect ==
    ASSUME TypeOK, NEW n \in Names, NEW e, Assign(n, e)
    PROVE  /\ size' \in 0 .. MaxSize
           /\ errors \subseteq errors' /\ errors' \subseteq ErrorKind
           /\ UNCHANGED <<bases, failed, nextId, open, running>>
           /\ symbols' \in Seq(Symbol) /\ Len(symbols') = Len(symbols)
           /\ assigned \subseteq assigned' /\ assigned' \subseteq Nat
           /\ \A p \in 1 .. Len(symbols) :
                  /\ symbols'[p].id = symbols[p].id
                  /\ symbols'[p].initialized /\ ~symbols[p].initialized
                     => (running => symbols[p].id \in assigned')
<1>1. /\ symbols \in Seq(Symbol) /\ errors \subseteq ErrorKind /\ assigned \subseteq Nat
      /\ Len(symbols) \in Nat
  BY DEF TypeOK
<1>2. size' \in 0 .. MaxSize /\ UNCHANGED <<bases, failed, nextId, open, running>>
  BY SizeGrows DEF Assign, Statement
<1> DEFINE wrong == IF ~Declared(n) THEN {"undeclared"} ELSE ReadErrors(e)
<1>3. CASE wrong # {}
  <2>1. /\ errors' = errors \cup wrong
        /\ symbols' = symbols /\ assigned' = assigned
    BY <1>3 DEF Assign
  <2>2. wrong \subseteq ErrorKind
    BY ReadErrorsType DEF ErrorKind
  <2> HIDE DEF wrong
  <2> QED
    BY <1>1, <1>2, <2>1, <2>2
<1>4. CASE wrong = {}
  <2> DEFINE i == Lookup(n)
             c == [symbols[i] EXCEPT !.initialized = TRUE]
  <2>1. Declared(n)
    BY <1>4
  <2>2. i \in 1 .. Len(symbols) /\ symbols[i] \in Symbol
    BY <1>1, <2>1, LookupProperties
  <2>3. /\ errors' = errors \/ errors' = errors \cup {"immutable"}
        /\ symbols' = [symbols EXCEPT ![i] = c]
        /\ assigned' = IF running THEN assigned \cup {symbols[i].id} ELSE assigned
    BY <1>4 DEF Assign
  <2>4. c \in Symbol /\ c.id = symbols[i].id /\ symbols[i].id \in Nat
    BY <2>2 DEF Symbol
  <2> HIDE DEF c, i
  <2>5. /\ symbols' \in Seq(Symbol) /\ Len(symbols') = Len(symbols)
        /\ \A p \in 1 .. Len(symbols) : symbols'[p] = IF p = i THEN c ELSE symbols[p]
    BY <1>1, <2>2, <2>3, <2>4, ExceptSeq
  <2>6. errors \subseteq errors' /\ errors' \subseteq ErrorKind
    BY <1>1, <2>3 DEF ErrorKind
  <2>7. assigned \subseteq assigned' /\ assigned' \subseteq Nat
    BY <1>1, <2>3, <2>4
  <2>8. ASSUME NEW p \in 1 .. Len(symbols)
        PROVE  /\ symbols'[p].id = symbols[p].id
               /\ symbols'[p].initialized /\ ~symbols[p].initialized
                  => (running => symbols[p].id \in assigned')
    BY <2>3, <2>4, <2>5
  <2> QED
    BY <1>2, <2>5, <2>6, <2>7, <2>8
<1> QED
  BY <1>3, <1>4

LEMMA ReturnEffect ==
    ASSUME TypeOK, NEW e, Return(e)
    PROVE  /\ size' \in 0 .. MaxSize
           /\ errors \subseteq errors' /\ errors' \subseteq ErrorKind
           /\ running' = FALSE /\ open' = Returning(open)
           /\ UNCHANGED <<symbols, bases, failed, nextId, assigned>>
<1> DEFINE wrong == IF e = NoValue THEN IF CurrentFunction.valued THEN {"return"} ELSE {}
                    ELSE IF ReadErrors(e) # {} THEN ReadErrors(e)
                    ELSE IF CurrentFunction.valued THEN {} ELSE {"return"}
<1>1. errors' = errors \cup wrong
  BY DEF Return
<1>2. wrong \subseteq ErrorKind
  BY ReadErrorsType DEF ErrorKind
<1>3. size' \in 0 .. MaxSize
  BY SizeGrows DEF Return, Statement
<1>4. /\ running' = FALSE /\ open' = Returning(open)
      /\ UNCHANGED <<symbols, bases, failed, nextId, assigned>>
  BY DEF Return, scopeVars
<1> HIDE DEF wrong
<1> QED
  BY <1>1, <1>2, <1>3, <1>4 DEF TypeOK

(* A construct as each of the openings makes it.                           *)
LEMMA PlainType == Plain \in Construct
BY EmptySeq DEF Plain, Construct, Kind

LEMMA BegunType ==
    ASSUME TypeOK, NEW c \in Construct, NEW ok \in BOOLEAN
    PROVE  LET d == Begun(c, ok)
           IN  /\ d \in Construct /\ d.outer = Len(symbols) /\ d.lost = ~ok
               /\ d.kind = c.kind /\ d.before = c.before /\ d.otherRuns = c.otherRuns
               /\ d.returns = c.returns /\ d.thenReturns = c.thenReturns
               /\ d.outerAssigned = c.outerAssigned
<1>1. Len(symbols) \in Nat
  BY DEF TypeOK
<1> QED
  BY <1>1 DEF Begun, Construct

(* analyze_block begins. *)
LEMMA OpenBlockEffect ==
    ASSUME TypeOK, OpenBlock
    PROVE  \E ok \in Pushes, c \in Construct :
               /\ PushScope(ok) /\ open' = <<c>> \o open
               /\ c.kind = "block" /\ ~c.otherRuns /\ ~c.returns
               /\ c.outer = Len(symbols) /\ c.lost = ~ok
<1>1. PICK ok \in Pushes : PushScope(ok) /\ open' = <<Begun(Plain, ok)>> \o open
  BY DEF OpenBlock
<1>2. ok \in BOOLEAN
  BY <1>1 DEF Pushes
<1>3. Plain.kind = "block" /\ ~Plain.otherRuns /\ ~Plain.returns
  BY DEF Plain
<1> QED
  BY <1>1, <1>2, <1>3, PlainType, BegunType

(* What analyze_if and analyze_while do to begin a block, and to give up   *)
(* when the condition cannot be read.                                      *)
OpensSaving(kind, into) ==
    /\ \E ok \in Pushes, before \in Saves(symbols) :
           /\ PushScope(ok)
           /\ open' = <<Begun([Plain EXCEPT !.kind = kind, !.before = before,
                                            !.otherRuns = running /\ ~into], ok)>> \o open
    /\ running' = (running /\ into)
    /\ UNCHANGED <<symbols, nextId, assigned>>

LEMMA OpensSavingEffect ==
    ASSUME TypeOK, NEW kind \in {"then", "while"}, NEW into \in BOOLEAN,
           OpensSaving(kind, into)
    PROVE  \E ok \in Pushes, c \in Construct :
               /\ PushScope(ok) /\ open' = <<c>> \o open
               /\ c.kind = kind /\ c.before \in Saves(symbols)
               /\ c.otherRuns = (running /\ ~into)
               /\ c.returns = FALSE /\ c.thenReturns = FALSE
               /\ c.outer = Len(symbols) /\ c.lost = ~ok
<1>1. PICK ok \in Pushes, before \in Saves(symbols) :
          /\ PushScope(ok)
          /\ open' = <<Begun([Plain EXCEPT !.kind = kind, !.before = before,
                                           !.otherRuns = running /\ ~into], ok)>> \o open
  BY DEF OpensSaving
<1>2. symbols \in Seq(Symbol) /\ running \in BOOLEAN
  BY DEF TypeOK
<1>3. before \in Seq(BOOLEAN) /\ kind \in Kind
  BY <1>1, <1>2, SavesType DEF Kind
<1>4. PICK outside \in BOOLEAN : outside = (running /\ ~into)
  BY <1>2
<1> DEFINE c == [Plain EXCEPT !.kind = kind, !.before = before, !.otherRuns = outside]
<1>5. open' = <<Begun(c, ok)>> \o open
  BY <1>1, <1>4
<1>6. Plain \in Construct /\ Plain.returns = FALSE /\ Plain.thenReturns = FALSE
  BY PlainType DEF Plain
<1>7. /\ c \in Construct
      /\ c.kind = kind /\ c.before = before /\ c.otherRuns = outside
      /\ c.returns = FALSE /\ c.thenReturns = FALSE
  BY <1>3, <1>4, <1>6 DEF Construct
<1>8. ok \in BOOLEAN
  BY <1>1 DEF Pushes
<1> DEFINE d == Begun(c, ok)
<1> HIDE DEF c
<1>9. /\ d \in Construct /\ d.kind = kind /\ d.before = before
      /\ d.otherRuns = (running /\ ~into)
      /\ d.returns = FALSE /\ d.thenReturns = FALSE
      /\ d.outer = Len(symbols) /\ d.lost = ~ok
  BY <1>4, <1>7, <1>8, BegunType
<1>10. open' = <<d>> \o open
  BY <1>5
<1> HIDE DEF d
<1> QED
  BY <1>1, <1>9, <1>10

GivenUp ==
    /\ errors \subseteq errors' /\ errors' \subseteq ErrorKind /\ errors' # {}
    /\ UNCHANGED <<symbols, bases, failed, nextId, open, running, assigned>>

LEMMA ConditionFailsEffect ==
    ASSUME TypeOK, NEW e, ConditionFails(e)
    PROVE  GivenUp
<1>1. /\ ReadErrors(e) # {} /\ ReadErrors(e) \subseteq ErrorKind
      /\ errors' = errors \cup ReadErrors(e)
  BY ReadErrorsType DEF ConditionFails
<1>2. UNCHANGED <<symbols, bases, failed, nextId, open, running, assigned>>
  BY DEF ConditionFails, scopeVars, execution
<1> QED
  BY <1>1, <1>2 DEF GivenUp, TypeOK

LEMMA OpenIfEffect ==
    ASSUME TypeOK, NEW e, NEW taken, OpenIf(e, taken)
    PROVE  size' \in 0 .. MaxSize /\ (GivenUp \/ OpensSaving("then", taken))
<1>1. size' \in 0 .. MaxSize
  BY SizeGrows DEF OpenIf, Statement
<1>2. ConditionFails(e) \/ OpensSaving("then", taken)
  BY DEF OpenIf, OpensSaving
<1> QED
  BY <1>1, <1>2, ConditionFailsEffect

LEMMA OpenWhileEffect ==
    ASSUME TypeOK, NEW e, NEW entered, OpenWhile(e, entered)
    PROVE  size' \in 0 .. MaxSize /\ (GivenUp \/ OpensSaving("while", entered))
<1>1. size' \in 0 .. MaxSize
  BY SizeGrows DEF OpenWhile, Statement
<1>2. ConditionFails(e) \/ OpensSaving("while", entered)
  BY DEF OpenWhile, OpensSaving
<1> QED
  BY <1>1, <1>2, ConditionFailsEffect

LEMMA RestoredStack ==
    ASSUME NEW s \in ScopeStack, Nested(s), NEW flags \in Seq(BOOLEAN)
    PROVE  LET t == [s EXCEPT !.symbols = Restored(s.symbols, flags)]
           IN  /\ t \in ScopeStack /\ Nested(t) /\ Depth(t) = Depth(s)
               /\ t.symbols = Restored(s.symbols, flags)
               /\ t.bases = s.bases /\ t.failed = s.failed
<1> DEFINE r == Restored(s.symbols, flags)
           t == [s EXCEPT !.symbols = r]
<1>1. s.symbols \in Seq(Symbol) /\ r \in Seq(Symbol) /\ Len(r) = Len(s.symbols)
  BY RestoredProperties DEF ScopeStack
<1> HIDE DEF r
<1>2. t \in ScopeStack /\ t.symbols = r /\ t.bases = s.bases /\ t.failed = s.failed
  BY <1>1 DEF ScopeStack
<1> HIDE DEF t
<1>3. Nested(t)
  BY <1>1, <1>2 DEF Nested
<1>4. Depth(t) = Depth(s)
  BY <1>2 DEF Depth
<1> QED
  BY <1>2, <1>3, <1>4 DEF t, r

(* The innermost construct and the scopes outside it.                      *)
LEMMA InnermostProperties ==
    ASSUME WellFormed, open # <<>>
    PROVE  /\ Head(open) \in Construct /\ Head(open) = open[1]
           /\ Head(open).before \in Seq(BOOLEAN) /\ Head(open).afterThen \in Seq(BOOLEAN)
           /\ Head(open).returns \in BOOLEAN /\ Head(open).otherRuns \in BOOLEAN
           /\ Head(open).thenReturns \in BOOLEAN
           /\ Head(open).outerAssigned \subseteq Nat
           /\ Popped(Scopes) \in ScopeStack /\ Nested(Popped(Scopes))
           /\ Depth(Popped(Scopes)) = Depth(Scopes) - 1
           /\ Popped(Scopes).symbols \in Seq(Symbol)
<1>1. /\ TypeOK /\ open \in Seq(Construct)
      /\ Scopes \in ScopeStack /\ Nested(Scopes) /\ Depth(Scopes) >= 1
  <2>1. Depth(Scopes) >= 2 /\ Depth(Scopes) \in Nat
    BY DepthHere, ScopesType DEF WellFormed
  <2> QED
    BY <2>1, ScopesType DEF WellFormed, TypeOK
<1>2. Head(open) \in Construct /\ Head(open) = open[1]
  BY <1>1, TailProperties
<1>3. /\ Popped(Scopes) \in ScopeStack /\ Nested(Popped(Scopes))
      /\ Depth(Popped(Scopes)) = Depth(Scopes) - 1
  BY <1>1, PoppedProperties
<1>4. \A c \in Construct : /\ c.before \in Seq(BOOLEAN) /\ c.afterThen \in Seq(BOOLEAN)
                           /\ c.returns \in BOOLEAN /\ c.otherRuns \in BOOLEAN
                           /\ c.thenReturns \in BOOLEAN
                           /\ c.outerAssigned \subseteq Nat
  BY DEF Construct
<1>5. Popped(Scopes).symbols \in Seq(Symbol)
  BY <1>3 DEF ScopeStack
<1> QED
  BY <1>2, <1>3, <1>4, <1>5

(* The then branch ends and the else branch begins.                        *)
LEMMA ElseEffect ==
    ASSUME WellFormed, Else
    PROVE  LET c == Head(open)
               s == Popped(Scopes)
               t == [s EXCEPT !.symbols = Restored(s.symbols, c.before)]
           IN  /\ open # <<>> /\ c.kind = "then"
               /\ UNCHANGED <<nextId, assigned, size>>
               /\ running' = c.otherRuns
               /\ t \in ScopeStack /\ Nested(t) /\ Depth(t) = Depth(Scopes) - 1
               /\ symbols' = t.symbols
               /\ \E ok \in Pushes, afterThen \in BranchEnds(s.symbols, c.returns),
                     d \in Construct :
                      /\ ok \in BOOLEAN
                      /\ bases' = IF ok THEN Append(t.bases, Len(t.symbols)) ELSE t.bases
                      /\ failed' = IF ok THEN t.failed ELSE t.failed + 1
                      /\ errors' = errors \cup OutOfMemory(ok)
                      /\ afterThen \in Seq(BOOLEAN)
                      /\ open' = <<d>> \o Tail(open)
                      /\ d.kind = "else" /\ d.afterThen = afterThen
                      /\ d.returns = FALSE /\ d.thenReturns = c.returns
                      /\ d.otherRuns = running /\ d.before = c.before
                      /\ d.outer = Len(t.symbols) /\ d.lost = ~ok
<1> DEFINE c == Head(open)
           s == Popped(Scopes)
           syms == Restored(s.symbols, c.before)
           t == [s EXCEPT !.symbols = syms]
           D(afterThen, ok) ==
               [c EXCEPT !.kind = "else", !.afterThen = afterThen,
                         !.returns = FALSE, !.thenReturns = c.returns,
                         !.otherRuns = running, !.outer = Len(syms), !.lost = ~ok]
<1>1. /\ open # <<>> /\ c.kind = "then"
      /\ UNCHANGED <<nextId, assigned, size>>
      /\ symbols' = syms
      /\ running' = c.otherRuns
      /\ \E afterThen \in BranchEnds(s.symbols, c.returns), ok \in Pushes :
             /\ bases' = IF ok THEN Append(s.bases, Len(syms)) ELSE s.bases
             /\ failed' = IF ok THEN s.failed ELSE s.failed + 1
             /\ errors' = errors \cup OutOfMemory(ok)
             /\ open' = <<D(afterThen, ok)>> \o Tail(open)
  BY DEF Else
<1>2. PICK afterThen \in BranchEnds(s.symbols, c.returns), ok \in Pushes :
          /\ bases' = IF ok THEN Append(s.bases, Len(syms)) ELSE s.bases
          /\ failed' = IF ok THEN s.failed ELSE s.failed + 1
          /\ errors' = errors \cup OutOfMemory(ok)
          /\ open' = <<D(afterThen, ok)>> \o Tail(open)
  BY <1>1
<1>3. /\ c \in Construct /\ c.before \in Seq(BOOLEAN) /\ c.returns \in BOOLEAN
      /\ s \in ScopeStack /\ Nested(s) /\ Depth(s) = Depth(Scopes) - 1
      /\ s.symbols \in Seq(Symbol)
  BY <1>1, InnermostProperties
<1>4. running \in BOOLEAN
  BY DEF WellFormed, TypeOK
<1>5. ok \in BOOLEAN
  BY <1>2 DEF Pushes
<1> HIDE DEF c, s
<1>6. afterThen \in Seq(BOOLEAN)
  BY <1>2, <1>3, BranchEndsType
<1>7. syms \in Seq(Symbol) /\ Len(syms) \in Nat
  BY <1>3, RestoredProperties, LenProperties
<1> HIDE DEF syms
<1>8. LET d == D(afterThen, ok)
      IN  /\ d \in Construct
          /\ d.kind = "else" /\ d.afterThen = afterThen
          /\ d.returns = FALSE /\ d.thenReturns = c.returns
          /\ d.otherRuns = running /\ d.before = c.before
          /\ d.outer = Len(syms) /\ d.lost = ~ok
  <2>1. /\ c.returns \in BOOLEAN /\ running \in BOOLEAN /\ afterThen \in Seq(BOOLEAN)
        /\ (~ok) \in BOOLEAN /\ Len(syms) \in Nat /\ "else" \in Kind
    BY <1>3, <1>4, <1>5, <1>6, <1>7 DEF Kind
  <2> DEFINE d == D(afterThen, ok)
  <2>2. d \in Construct
    BY <1>3, <2>1 DEF Construct
  <2>3. /\ d.kind = "else" /\ d.afterThen = afterThen
        /\ d.returns = FALSE /\ d.thenReturns = c.returns
        /\ d.otherRuns = running /\ d.before = c.before
        /\ d.outer = Len(syms) /\ d.lost = ~ok
    BY <1>3 DEF Construct
  <2> QED
    BY <2>2, <2>3
<1>9. /\ t \in ScopeStack /\ Nested(t) /\ Depth(t) = Depth(s)
      /\ t.symbols = syms /\ t.bases = s.bases /\ t.failed = s.failed
  BY <1>3, RestoredStack DEF syms
<1> HIDE DEF t, D
<1>10. /\ bases' = IF ok THEN Append(t.bases, Len(t.symbols)) ELSE t.bases
       /\ failed' = IF ok THEN t.failed ELSE t.failed + 1
       /\ errors' = errors \cup OutOfMemory(ok)
  BY <1>2, <1>9
<1>11. symbols' = t.symbols /\ Depth(t) = Depth(Scopes) - 1
  BY <1>1, <1>3, <1>9
<1>12. \E o \in Pushes, f \in BranchEnds(s.symbols, c.returns), d \in Construct :
           /\ o \in BOOLEAN
           /\ bases' = IF o THEN Append(t.bases, Len(t.symbols)) ELSE t.bases
           /\ failed' = IF o THEN t.failed ELSE t.failed + 1
           /\ errors' = errors \cup OutOfMemory(o)
           /\ f \in Seq(BOOLEAN)
           /\ open' = <<d>> \o Tail(open)
           /\ d.kind = "else" /\ d.afterThen = f
           /\ d.returns = FALSE /\ d.thenReturns = c.returns
           /\ d.otherRuns = running /\ d.before = c.before
           /\ d.outer = Len(t.symbols) /\ d.lost = ~o
  BY <1>2, <1>5, <1>6, <1>8, <1>9, <1>10
<1> QED
  BY <1>1, <1>9, <1>11, <1>12, Zenon DEF c, s, syms, t

(* A construct with one scope is closed: the scopes become t, and that     *)
(* is as deep as before the construct.                                     *)
Closes(t) ==
    /\ t \in ScopeStack /\ Nested(t) /\ Depth(t) = Depth(Scopes) - 1
    /\ ScopesBecome(t)
    /\ t.bases = Popped(Scopes).bases /\ t.failed = Popped(Scopes).failed
    /\ UNCHANGED <<errors, assigned, size>>

LEMMA CloseBlockEffect ==
    ASSUME WellFormed, CloseBlock
    PROVE  /\ open # <<>> /\ Head(open).kind = "block"
           /\ Closes(Popped(Scopes))
           /\ running' = running
           /\ open' = IF Head(open).returns THEN Returning(Tail(open)) ELSE Tail(open)
BY InnermostProperties DEF CloseBlock, Closes, execution

LEMMA CloseThenEffect ==
    ASSUME WellFormed, CloseThen
    PROVE  /\ open # <<>> /\ Head(open).kind = "then"
           /\ open' = Tail(open)
           /\ running' = (running \/ Head(open).otherRuns)
           /\ LET syms == Restored(Popped(Scopes).symbols, Head(open).before)
              IN  \E t : \E afterThen \in Seq(BOOLEAN), afterElse \in Saves(syms) :
                      /\ syms \in Seq(Symbol) /\ afterElse \in Seq(BOOLEAN)
                      /\ Closes(t)
                      /\ afterThen \in BranchEnds(Popped(Scopes).symbols, Head(open).returns)
                      /\ t.symbols = Restored(syms, Merged(afterThen, afterElse))
<1> DEFINE c == Head(open)
           s == Popped(Scopes)
           r == [s EXCEPT !.symbols = Restored(s.symbols, c.before)]
<1>1. PICK afterThen \in BranchEnds(s.symbols, c.returns), afterElse \in Saves(r.symbols) :
          EndIf(r, afterThen, afterElse, FALSE)
  BY DEF CloseThen
<1>2. open # <<>> /\ c.kind = "then"
  BY DEF CloseThen
<1>3. /\ c.before \in Seq(BOOLEAN) /\ c.returns \in BOOLEAN
      /\ s \in ScopeStack /\ Nested(s) /\ Depth(s) = Depth(Scopes) - 1
      /\ s.symbols \in Seq(Symbol)
  BY <1>2, InnermostProperties
<1> DEFINE t == [r EXCEPT !.symbols = Restored(r.symbols, Merged(afterThen, afterElse))]
<1>4. /\ ScopesBecome(t) /\ open' = Tail(open)
      /\ running' = (running \/ c.otherRuns)
      /\ UNCHANGED <<errors, assigned, size>>
  BY <1>1 DEF EndIf
<1> HIDE DEF c, s
<1>5. /\ r \in ScopeStack /\ Nested(r) /\ Depth(r) = Depth(s)
      /\ r.symbols = Restored(s.symbols, c.before)
      /\ r.bases = s.bases /\ r.failed = s.failed
  BY <1>3, RestoredStack
<1> HIDE DEF r
<1>6. r.symbols \in Seq(Symbol)
  BY <1>5 DEF ScopeStack
<1>7. afterThen \in Seq(BOOLEAN) /\ afterElse \in Seq(BOOLEAN)
  BY <1>1, <1>3, <1>6, BranchEndsType, SavesType
<1>8. Merged(afterThen, afterElse) \in Seq(BOOLEAN)
  BY <1>7, MergedType
<1>9. /\ t \in ScopeStack /\ Nested(t) /\ Depth(t) = Depth(r)
      /\ t.symbols = Restored(r.symbols, Merged(afterThen, afterElse))
      /\ t.bases = r.bases /\ t.failed = r.failed
  BY <1>5, <1>8, RestoredStack
<1> HIDE DEF t
<1>10. Closes(t)
  BY <1>3, <1>4, <1>5, <1>9 DEF Closes, s
<1> QED
  BY <1>1, <1>2, <1>4, <1>5, <1>6, <1>7, <1>9, <1>10 DEF c, s

LEMMA CloseElseEffect ==
    ASSUME WellFormed, CloseElse
    PROVE  /\ open # <<>> /\ Head(open).kind = "else"
           /\ open' = IF BothReturn(Head(open)) THEN Returning(Tail(open)) ELSE Tail(open)
           /\ running' = (running \/ Head(open).otherRuns)
           /\ LET syms == Popped(Scopes).symbols
              IN  \E t : \E afterElse \in BranchEnds(syms, Head(open).returns) :
                      /\ afterElse \in Seq(BOOLEAN)
                      /\ Closes(t)
                      /\ t.symbols = Restored(syms, Merged(Head(open).afterThen, afterElse))
<1> DEFINE c == Head(open)
           s == Popped(Scopes)
<1>1. PICK afterElse \in BranchEnds(s.symbols, c.returns) :
          EndIf(s, c.afterThen, afterElse, BothReturn(c))
  BY DEF CloseElse
<1>2. open # <<>> /\ c.kind = "else"
  BY DEF CloseElse
<1>3. /\ c.afterThen \in Seq(BOOLEAN) /\ c.returns \in BOOLEAN
      /\ s \in ScopeStack /\ Nested(s) /\ Depth(s) = Depth(Scopes) - 1
      /\ s.symbols \in Seq(Symbol)
  BY <1>2, InnermostProperties
<1> DEFINE t == [s EXCEPT !.symbols = Restored(s.symbols, Merged(c.afterThen, afterElse))]
<1>4. /\ ScopesBecome(t)
      /\ open' = IF BothReturn(c) THEN Returning(Tail(open)) ELSE Tail(open)
      /\ running' = (running \/ c.otherRuns)
      /\ UNCHANGED <<errors, assigned, size>>
  BY <1>1 DEF EndIf
<1> HIDE DEF c, s
<1>5. afterElse \in Seq(BOOLEAN)
  BY <1>1, <1>3, BranchEndsType
<1>6. Merged(c.afterThen, afterElse) \in Seq(BOOLEAN)
  BY <1>3, <1>5, MergedType
<1>7. /\ t \in ScopeStack /\ Nested(t) /\ Depth(t) = Depth(s)
      /\ t.symbols = Restored(s.symbols, Merged(c.afterThen, afterElse))
      /\ t.bases = s.bases /\ t.failed = s.failed
  BY <1>3, <1>6, RestoredStack
<1> HIDE DEF t
<1>8. Closes(t)
  BY <1>3, <1>4, <1>7 DEF Closes, s
<1> QED
  BY <1>1, <1>2, <1>4, <1>5, <1>7, <1>8 DEF c, s

LEMMA CloseWhileEffect ==
    ASSUME WellFormed, CloseWhile
    PROVE  /\ open # <<>> /\ Head(open).kind = "while"
           /\ open' = Tail(open)
           /\ running' = (running \/ Head(open).otherRuns)
           /\ \E t : /\ Closes(t)
                     /\ t.symbols = Restored(Popped(Scopes).symbols, Head(open).before)
<1> DEFINE c == Head(open)
           s == Popped(Scopes)
           t == [s EXCEPT !.symbols = Restored(s.symbols, c.before)]
<1>1. /\ open # <<>> /\ c.kind = "while"
      /\ ScopesBecome(t) /\ open' = Tail(open)
      /\ running' = (running \/ c.otherRuns)
      /\ UNCHANGED <<errors, assigned, size>>
  BY DEF CloseWhile, AfterLoop
<1>2. /\ c.before \in Seq(BOOLEAN)
      /\ s \in ScopeStack /\ Nested(s) /\ Depth(s) = Depth(Scopes) - 1
  BY <1>1, InnermostProperties
<1> HIDE DEF c, s
<1>3. /\ t \in ScopeStack /\ Nested(t) /\ Depth(t) = Depth(s)
      /\ t.symbols = Restored(s.symbols, c.before)
      /\ t.bases = s.bases /\ t.failed = s.failed
  BY <1>2, RestoredStack
<1> HIDE DEF t
<1>4. Closes(t)
  BY <1>1, <1>2, <1>3 DEF Closes, s
<1> QED
  BY <1>1, <1>3, <1>4 DEF c, s

FunctionConstruct(params, valued, ok) ==
    Begun([Plain EXCEPT !.kind = "function", !.valued = valued, !.params = params,
                        !.otherRuns = running, !.outerAssigned = assigned], ok)

LEMMA FunctionConstructType ==
    ASSUME TypeOK, NEW params \in SUBSET Names, NEW valued \in BOOLEAN,
           NEW ok \in BOOLEAN
    PROVE  LET c == FunctionConstruct(params, valued, ok)
           IN  /\ c \in Construct /\ c.kind = "function"
               /\ c.returns = FALSE /\ c.thenReturns = FALSE
               /\ c.otherRuns = running /\ c.outerAssigned = assigned
               /\ c.outer = Len(symbols) /\ c.lost = ~ok
<1> DEFINE p == [Plain EXCEPT !.kind = "function", !.valued = valued, !.params = params,
                              !.otherRuns = running, !.outerAssigned = assigned]
<1>1. /\ Plain \in Construct
      /\ Plain.returns = FALSE /\ Plain.thenReturns = FALSE
  BY PlainType DEF Plain
<1>2. running \in BOOLEAN /\ assigned \subseteq Nat
  BY DEF TypeOK
<1>3. /\ p \in Construct /\ p.kind = "function"
      /\ p.returns = FALSE /\ p.thenReturns = FALSE
      /\ p.otherRuns = running /\ p.outerAssigned = assigned
  BY <1>1, <1>2 DEF Construct, Kind
<1>4. FunctionConstruct(params, valued, ok) = Begun(p, ok)
  BY DEF FunctionConstruct
<1> HIDE DEF p
<1> QED
  BY <1>3, <1>4, BegunType

(* A push that may fail.                                                   *)
LEMMA MaybeAppended ==
    ASSUME NEW b \in Seq(Nat), NEW x \in Nat, NEW ok \in BOOLEAN
    PROVE  LET a == IF ok THEN Append(b, x) ELSE b
           IN  /\ a \in Seq(Nat)
               /\ Len(a) = Len(b) + (IF ok THEN 1 ELSE 0)
               /\ \A p \in 1 .. Len(b) : a[p] = b[p]
               /\ ok => a[Len(b) + 1] = x
<1>1. Len(b) \in Nat
  OBVIOUS
<1>2. CASE ok
  BY <1>1, <1>2, AppendProperties
<1>3. CASE ~ok
  BY <1>1, <1>3
<1> QED
  BY <1>2, <1>3

(* The scopes of a construct that begins: they follow those that were      *)
(* there and begin behind the variables that were in scope.                *)
ScopesAdded(ok) ==
    /\ Len(symbols) <= Len(symbols')
    /\ \A p \in 1 .. Len(symbols) : symbols'[p] = symbols[p]
    /\ Len(bases) <= Len(bases')
    /\ \A p \in 1 .. Len(bases) : bases'[p] = bases[p]
    /\ \A p \in Len(bases) + 1 .. Len(bases') : Len(symbols) <= bases'[p]
    /\ ok => failed' = failed /\ bases'[Len(bases) + 1] = Len(symbols)

(* Two scopes are pushed, and the parameters go into whichever is there.   *)
LEMMA OpenFunctionEffect ==
    ASSUME WellFormed, NEW params \in SUBSET Names, NEW valued \in BOOLEAN,
           OpenFunction(params, valued)
    PROVE  /\ size' \in 0 .. MaxSize
           /\ open # <<>> => NestedFunctions
           /\ running' = TRUE
           /\ \E ok \in BOOLEAN :
                  /\ open' = <<FunctionConstruct(params, valued, ok)>> \o open
                  /\ ScopesAdded(ok)
           /\ nextId' \in Nat /\ assigned' \subseteq Nat
           /\ errors \subseteq errors' /\ errors' \subseteq ErrorKind
           /\ Scopes' \in ScopeStack /\ Nested(Scopes')
           /\ Depth(Scopes') = Depth(Scopes) + 2
           /\ errors' = {} /\ symbols = <<>> =>
                  /\ failed' = failed
                  /\ Len(bases') = Len(bases) + 2
                  /\ bases'[Len(bases) + 1] = 0
                  /\ \A p \in 1 .. Len(symbols') : symbols'[p].id \in assigned'
<1>1. /\ TypeOK /\ Scopes \in ScopeStack /\ Nested(Scopes)
      /\ symbols \in Seq(Symbol) /\ bases \in Seq(Nat)
      /\ failed \in Nat /\ nextId \in Nat
      /\ Len(symbols) \in Nat /\ Len(bases) \in Nat
  BY ScopesType DEF WellFormed, TypeOK
<1>2. size' \in 0 .. MaxSize
  BY <1>1, SizeGrows DEF OpenFunction
<1>3. /\ open # <<>> => NestedFunctions
      /\ running' = TRUE
  BY DEF OpenFunction
<1>4. PICK ok1 \in Pushes, ok2 \in Pushes :
         LET new == IF ok1 THEN params ELSE {n \in params : ~Redeclared(n)}
             ids == nextId .. nextId + Cardinality(new) - 1
             order == CHOOSE f \in [ids -> new] : {f[i] : i \in ids} = new
             syms == symbols \o
                 [i \in 1 .. Cardinality(new) |->
                     [name |-> order[nextId + i - 1], id |-> nextId + i - 1,
                      mutable |-> TRUE, initialized |-> TRUE]]
         IN  /\ symbols' = syms
             /\ nextId' = nextId + Cardinality(new)
             /\ assigned' = ids
             /\ bases' = bases \o (IF ok1 THEN <<Len(symbols)>> ELSE <<>>)
                              \o (IF ok2 THEN <<Len(syms)>> ELSE <<>>)
             /\ failed' = failed + Cardinality({k \in {1, 2} : ~(<<ok1, ok2>>[k])})
             /\ errors' = errors \cup OutOfMemory(ok1 /\ ok2)
             /\ open' = <<FunctionConstruct(params, valued, ok1 /\ ok2)>> \o open
  BY DEF OpenFunction, FunctionConstruct
<1>5. ok1 \in BOOLEAN /\ ok2 \in BOOLEAN
  BY <1>4 DEF Pushes
<1> DEFINE new == IF ok1 THEN params ELSE {n \in params : ~Redeclared(n)}
<1>6. new \in SUBSET Names
  BY <1>5
<1> DEFINE ids == nextId .. nextId + Cardinality(new) - 1
           order == CHOOSE f \in [ids -> new] : {f[i] : i \in ids} = new
           syms == symbols \o
                 [i \in 1 .. Cardinality(new) |->
                     [name |-> order[nextId + i - 1], id |-> nextId + i - 1,
                      mutable |-> TRUE, initialized |-> TRUE]]
           faults == {k \in {1, 2} : ~(<<ok1, ok2>>[k])}
<1>7. /\ symbols' = syms
      /\ nextId' = nextId + Cardinality(new)
      /\ assigned' = ids
      /\ bases' = (bases \o (IF ok1 THEN <<Len(symbols)>> ELSE <<>>))
                       \o (IF ok2 THEN <<Len(syms)>> ELSE <<>>)
      /\ failed' = failed + Cardinality(faults)
      /\ errors' = errors \cup OutOfMemory(ok1 /\ ok2)
      /\ open' = <<FunctionConstruct(params, valued, ok1 /\ ok2)>> \o open
  BY <1>4
<1> HIDE DEF new
<1>8. /\ Cardinality(new) \in Nat /\ ids \subseteq Nat
      /\ syms \in Seq(Symbol) /\ Len(syms) = Len(symbols) + Cardinality(new)
      /\ symbols = <<>> => \A p \in 1 .. Cardinality(new) : syms[p].id \in ids
      /\ \A p \in 1 .. Len(symbols) : syms[p] = symbols[p]
  BY <1>1, <1>6, ParametersType
<1> HIDE DEF ids, order, syms, faults
<1>9. nextId' \in Nat /\ assigned' \subseteq Nat
  BY <1>1, <1>7, <1>8
<1>10. errors \subseteq errors' /\ errors' \subseteq ErrorKind
  BY <1>1, <1>7 DEF TypeOK, OutOfMemory, ErrorKind
<1>11. Cardinality(faults) = (IF ok1 THEN 0 ELSE 1) + (IF ok2 THEN 0 ELSE 1)
  <2>1. faults = (IF ok1 THEN {} ELSE {1}) \cup (IF ok2 THEN {} ELSE {2})
    BY <1>5 DEF faults
  <2>2. Cardinality({}) = 0 /\ Cardinality({1}) = 1 /\ Cardinality({2}) = 1
    BY FS_EmptySet, FS_Singleton
  <2>3. Cardinality({1} \cup {2}) = 2
    <3> DEFINE one == {1}
    <3>1. IsFiniteSet(one) /\ Cardinality(one) = 1
      BY FS_Singleton, Zenon
    <3>2. 2 \notin one
      OBVIOUS
    <3> HIDE DEF one
    <3>3. Cardinality(one \cup {2}) = Cardinality(one) + 1
      BY <3>1, <3>2, FS_AddElement
    <3> QED
      BY <3>1, <3>3 DEF one
  <2>4. CASE ok1 /\ ok2
    BY <2>1, <2>2, <2>4
  <2>5. CASE ok1 /\ ~ok2
    BY <2>1, <2>2, <2>5
  <2>6. CASE ~ok1 /\ ok2
    BY <2>1, <2>2, <2>6
  <2>7. CASE ~ok1 /\ ~ok2
    BY <2>1, <2>3, <2>7
  <2> QED
    BY <1>5, <2>4, <2>5, <2>6, <2>7
<1> DEFINE u == [symbols |-> symbols,
                 bases |-> IF ok1 THEN Append(bases, Len(symbols)) ELSE bases,
                 failed |-> IF ok1 THEN failed ELSE failed + 1]
           v == [symbols |-> syms, bases |-> u.bases, failed |-> u.failed]
           w == [symbols |-> syms,
                 bases |-> IF ok2 THEN Append(u.bases, Len(syms)) ELSE u.bases,
                 failed |-> IF ok2 THEN u.failed ELSE u.failed + 1]
<1>12. u \in ScopeStack /\ u.bases \in Seq(Nat) /\ u.failed \in Nat
  BY <1>1, <1>5, AppendProperties DEF ScopeStack
<1>13. v \in ScopeStack
  BY <1>8, <1>12 DEF ScopeStack
<1>14. w \in ScopeStack
  <2> HIDE DEF u
  <2>1. Len(syms) \in Nat
    BY <1>8
  <2> QED
    BY <1>5, <1>8, <1>12, <2>1, AppendProperties DEF ScopeStack
<1>15. Nested(u) /\ Depth(u) = Depth(Scopes) + 1
  <2>1. /\ u.symbols = Scopes.symbols
        /\ u.bases = IF ok1 THEN Append(Scopes.bases, Len(Scopes.symbols)) ELSE Scopes.bases
        /\ u.failed = IF ok1 THEN Scopes.failed ELSE Scopes.failed + 1
    BY DEF Scopes
  <2> HIDE DEF u
  <2> QED
    BY <1>1, <1>5, <1>12, <2>1, PushedProperties
<1>16. Nested(v) /\ Depth(v) = Depth(u)
  <2>1. v.bases = u.bases /\ Len(v.symbols) >= Len(u.symbols) /\ v.failed = u.failed
    BY <1>1, <1>8
  <2> HIDE DEF u, v
  <2> QED
    BY <1>12, <1>13, <1>15, <2>1, NestedAlike DEF Depth
<1>17. Nested(w) /\ Depth(w) = Depth(v) + 1
  <2>1. /\ w.symbols = v.symbols
        /\ w.bases = IF ok2 THEN Append(v.bases, Len(v.symbols)) ELSE v.bases
        /\ w.failed = IF ok2 THEN v.failed ELSE v.failed + 1
    OBVIOUS
  <2> HIDE DEF u, v, w
  <2> QED
    BY <1>5, <1>13, <1>14, <1>16, <2>1, PushedProperties
<1>18. bases' = w.bases
  <2> DEFINE b == u.bases
  <2>1. bases \o (IF ok1 THEN <<Len(symbols)>> ELSE <<>>) = b
    BY <1>1, <1>5, AppendIsConcat, ConcatEmptySeq
  <2>2. b \in Seq(Nat) /\ Len(syms) \in Nat
    BY <1>8, <1>12
  <2>3. w.bases = IF ok2 THEN Append(b, Len(syms)) ELSE b
    OBVIOUS
  <2> HIDE DEF b, w, u
  <2>4. b \o (IF ok2 THEN <<Len(syms)>> ELSE <<>>) = w.bases
    BY <1>5, <2>2, <2>3, AppendIsConcat, ConcatEmptySeq
  <2> QED
    BY <1>7, <2>1, <2>4
<1>19. failed' = w.failed
  BY <1>1, <1>5, <1>7, <1>11
<1>20. Scopes' = w
  <2>1. w = [symbols |-> syms, bases |-> w.bases, failed |-> w.failed]
    OBVIOUS
  <2> HIDE DEF w
  <2> QED
    BY <1>7, <1>18, <1>19, <2>1 DEF Scopes
<1>21. Depth(w) = Depth(Scopes) + 2
  <2>1. Depth(Scopes) \in Nat
    BY <1>1, ScopesType
  <2> HIDE DEF u, v, w
  <2> QED
    BY <1>15, <1>16, <1>17, <2>1
<1>22. ASSUME errors' = {}, symbols = <<>>
       PROVE  /\ failed' = failed
              /\ Len(bases') = Len(bases) + 2
              /\ bases'[Len(bases) + 1] = 0
              /\ \A p \in 1 .. Len(symbols') : symbols'[p].id \in assigned'
  <2>1. ok1 /\ ok2
    BY <1>5, <1>7, <1>22 DEF OutOfMemory
  <2>2. failed' = failed
    BY <1>1, <1>19, <2>1
  <2>3. bases' = Append(Append(bases, 0), Len(syms))
    BY <1>18, <1>22, <2>1
  <2>4. /\ Append(bases, 0) \in Seq(Nat) /\ Len(Append(bases, 0)) = Len(bases) + 1
        /\ Append(bases, 0)[Len(bases) + 1] = 0
    BY <1>1, AppendProperties
  <2> DEFINE b == Append(bases, 0)
  <2> HIDE DEF b
  <2>5. Len(syms) \in Nat /\ Len(bases) + 1 \in 1 .. Len(b)
    BY <1>1, <1>8, <2>4 DEF b
  <2>6. Len(Append(b, Len(syms))) = Len(b) + 1
        /\ Append(b, Len(syms))[Len(bases) + 1] = b[Len(bases) + 1]
    BY <2>4, <2>5, AppendProperties DEF b
  <2>7. Len(bases') = Len(bases) + 2 /\ bases'[Len(bases) + 1] = 0
    BY <1>1, <2>3, <2>4, <2>6 DEF b
  <2>8. \A p \in 1 .. Len(symbols') : symbols'[p].id \in assigned'
    BY <1>7, <1>8, <1>22
  <2> QED
    BY <2>2, <2>7, <2>8
<1>23. ScopesAdded(ok1 /\ ok2)
  <2> DEFINE b == u.bases
  <2>1. /\ Len(b) = Len(bases) + (IF ok1 THEN 1 ELSE 0)
        /\ \A p \in 1 .. Len(bases) : b[p] = bases[p]
        /\ ok1 => b[Len(bases) + 1] = Len(symbols)
    BY <1>1, <1>5, MaybeAppended
  <2>2. b \in Seq(Nat) /\ Len(syms) \in Nat /\ Len(b) \in Nat
    BY <1>8, <1>12
  <2>3. bases' = IF ok2 THEN Append(b, Len(syms)) ELSE b
    BY <1>18
  <2> HIDE DEF b, u, v, w
  <2>4. /\ Len(bases') = Len(b) + (IF ok2 THEN 1 ELSE 0)
        /\ \A p \in 1 .. Len(b) : bases'[p] = b[p]
        /\ ok2 => bases'[Len(b) + 1] = Len(syms)
    BY <1>5, <2>2, <2>3, MaybeAppended
  <2>5. /\ Len(symbols) <= Len(symbols')
        /\ \A p \in 1 .. Len(symbols) : symbols'[p] = symbols[p]
    BY <1>1, <1>7, <1>8
  <2>6. Len(symbols) <= Len(syms)
    BY <1>1, <1>8
  <2> DEFINE n == Len(bases)
             m == Len(b)
             o == Len(bases')
  <2>7. /\ n \in Nat /\ m \in Nat /\ o \in Nat
        /\ m = n \/ (m = n + 1 /\ ok1)
        /\ o = m \/ (o = m + 1 /\ ok2)
    <3>1. n \in Nat
      BY <1>1
    <3>2. m = n \/ (m = n + 1 /\ ok1)
      BY <2>1, <2>2, <3>1
    <3>3. o = m \/ (o = m + 1 /\ ok2)
      BY <2>2, <2>4
    <3> QED
      BY <2>2, <3>1, <3>2, <3>3
  <2> HIDE DEF n, m, o
  <2>8. /\ n <= o
        /\ \A p \in 1 .. n : bases'[p] = bases[p]
        /\ \A p \in n + 1 .. o : Len(symbols) <= bases'[p]
    <3>1. n <= o /\ \A p \in 1 .. n : p \in 1 .. m
      BY <2>7
    <3>2. ASSUME NEW p \in 1 .. n PROVE bases'[p] = bases[p]
      <4>1. bases'[p] = b[p] /\ b[p] = bases[p]
        BY <2>1, <2>4, <3>1 DEF n, m
      <4> QED
        BY <4>1
    <3>3. ASSUME NEW p \in n + 1 .. o PROVE Len(symbols) <= bases'[p]
      <4>1. (p = n + 1 /\ p \in 1 .. m /\ ok1) \/ (p = m + 1 /\ ok2)
        BY <2>7
      <4>2. CASE p = n + 1 /\ p \in 1 .. m /\ ok1
        <5>1. bases'[p] = b[p] /\ b[p] = Len(symbols)
          BY <2>1, <2>4, <4>2 DEF n, m
        <5> QED
          BY <1>1, <5>1
      <4>3. CASE p = m + 1 /\ ok2
        BY <2>4, <2>6, <4>3 DEF m
      <4> QED
        BY <4>1, <4>2, <4>3
    <3> QED
      BY <3>1, <3>2, <3>3
  <2>9. ASSUME ok1 /\ ok2
        PROVE  failed' = failed /\ bases'[Len(bases) + 1] = Len(symbols)
    <3>1. failed' = failed
      BY <1>1, <1>7, <1>11, <2>9
    <3>2. n + 1 \in 1 .. m
      BY <2>1, <2>7, <2>9 DEF m, n
    <3>3. bases'[n + 1] = b[n + 1] /\ b[n + 1] = Len(symbols)
      BY <2>1, <2>4, <2>9, <3>2 DEF m, n
    <3> QED
      BY <3>1, <3>3 DEF n
  <2> QED
    BY <2>5, <2>8, <2>9 DEF ScopesAdded, n, o
<1>24. \E ok \in BOOLEAN :
           /\ open' = <<FunctionConstruct(params, valued, ok)>> \o open
           /\ ScopesAdded(ok)
  BY <1>5, <1>7, <1>23
<1> HIDE DEF w
<1> QED
  BY <1>2, <1>3, <1>9, <1>10, <1>14, <1>17, <1>20, <1>21, <1>22, <1>24

(* Both scopes of the function go.                                         *)
LEMMA CloseFunctionEffect ==
    ASSUME WellFormed, CloseFunction
    PROVE  LET c == Head(open)
               t == Popped(Popped(Scopes))
           IN  /\ open # <<>> /\ c.kind = "function"
               /\ t \in ScopeStack /\ Nested(t) /\ Depth(t) = Depth(Scopes) - 2
               /\ ScopesBecome(t)
               /\ errors' = IF c.valued /\ ~c.returns THEN errors \cup {"missing return"}
                            ELSE errors
               /\ open' = Tail(open)
               /\ running' = c.otherRuns /\ running' \in BOOLEAN
               /\ assigned' = c.outerAssigned /\ assigned' \subseteq Nat
               /\ UNCHANGED size
<1> DEFINE c == Head(open)
           s == Popped(Scopes)
<1>1. /\ open # <<>> /\ c.kind = "function"
      /\ ScopesBecome(Popped(s))
      /\ errors' = IF c.valued /\ ~c.returns THEN errors \cup {"missing return"} ELSE errors
      /\ open' = Tail(open)
      /\ running' = c.otherRuns /\ assigned' = c.outerAssigned
      /\ UNCHANGED size
  BY DEF CloseFunction
<1>2. /\ c.otherRuns \in BOOLEAN /\ c.outerAssigned \subseteq Nat
      /\ s \in ScopeStack /\ Nested(s) /\ Depth(s) = Depth(Scopes) - 1
  BY <1>1, InnermostProperties
<1>3. Depth(Scopes) >= 3 /\ Depth(Scopes) \in Nat
  <2>1. Depth(Scopes) >= 3
    BY <1>1, DepthHere
  <2>2. Depth(Scopes) \in Nat
    BY ScopesType DEF WellFormed
  <2> QED
    BY <2>1, <2>2
<1> HIDE DEF c, s
<1>4. /\ Popped(s) \in ScopeStack /\ Nested(Popped(s))
      /\ Depth(Popped(s)) = Depth(s) - 1
  BY <1>2, <1>3, PoppedProperties
<1>5. Depth(Popped(s)) = Depth(Scopes) - 2
  BY <1>2, <1>3, <1>4
<1> QED
  BY <1>1, <1>2, <1>4, <1>5 DEF c, s

(* Statements that push and pop no scope.                                  *)
LEMMA WellFormedStatement ==
    ASSUME WellFormed, symbols' \in Seq(Symbol), Len(symbols') >= Len(symbols),
           bases' = bases, failed' = failed, nextId' \in Nat,
           open' = open \/ open' = Returning(open),
           errors' \subseteq ErrorKind, running' \in BOOLEAN, assigned' \subseteq Nat,
           size' \in 0 .. MaxSize
    PROVE  WellFormed'
<1>1. TypeOK /\ Nested(Scopes) /\ Scopes \in ScopeStack
  BY ScopesType DEF WellFormed
<1>2. open' \in Seq(Construct)
  BY <1>1, ReturningProperties DEF TypeOK
<1>3. TypeOK'
  BY <1>1, <1>2 DEF TypeOK
<1>4. Nested(Scopes')
  <2>1. /\ Scopes' \in ScopeStack /\ Scopes'.bases = Scopes.bases
        /\ Len(Scopes'.symbols) >= Len(Scopes.symbols)
    BY <1>1 DEF Scopes, ScopeStack, TypeOK
  <2> DEFINE s == Scopes
             t == Scopes'
  <2>2. /\ s \in ScopeStack /\ Nested(s) /\ t \in ScopeStack
        /\ t.bases = s.bases /\ Len(t.symbols) >= Len(s.symbols)
    BY <1>1, <2>1
  <2> HIDE DEF s, t
  <2>3. Nested(t)
    BY <2>2, NestedAlike
  <2> QED
    BY <2>3 DEF t
<1> QED
  BY <1>3, <1>4, WellFormedInPlace

LEMMA WellFormedGivenUp ==
    ASSUME WellFormed, GivenUp, size' \in 0 .. MaxSize
    PROVE  WellFormed'
BY WellFormedStatement, ScopesType DEF WellFormed, TypeOK, GivenUp

LEMMA WellFormedOpensSaving ==
    ASSUME WellFormed, NEW kind \in {"then", "while"}, NEW into \in BOOLEAN,
           OpensSaving(kind, into), size' \in 0 .. MaxSize
    PROVE  WellFormed'
<1>1. PICK c \in Construct : open' = <<c>> \o open /\ c.kind = kind
  BY OpensSavingEffect DEF WellFormed
<1>2. c.kind # "function"
  BY <1>1
<1>3. /\ ScopePushed /\ UNCHANGED <<symbols, nextId>>
      /\ running' \in BOOLEAN /\ assigned' \subseteq Nat
  BY DEF OpensSaving, ScopePushed, WellFormed, TypeOK
<1> QED
  BY <1>1, <1>2, <1>3, WellFormedOpening

LEMMA WellFormedElse ==
    ASSUME WellFormed, Else
    PROVE  WellFormed'
<1> DEFINE c == Head(open)
           s == Popped(Scopes)
           t == [s EXCEPT !.symbols = Restored(s.symbols, c.before)]
<1>1. /\ open # <<>> /\ c.kind = "then"
      /\ UNCHANGED <<nextId, assigned, size>>
      /\ running' = c.otherRuns
      /\ t \in ScopeStack /\ Nested(t) /\ Depth(t) = Depth(Scopes) - 1
      /\ symbols' = t.symbols
  BY ElseEffect
<1>2. PICK ok \in BOOLEAN :
          /\ bases' = IF ok THEN Append(t.bases, Len(t.symbols)) ELSE t.bases
          /\ failed' = IF ok THEN t.failed ELSE t.failed + 1
          /\ errors' = errors \cup OutOfMemory(ok)
  BY ElseEffect
<1>3. PICK d \in Construct : open' = <<d>> \o Tail(open) /\ d.kind = "else"
  BY ElseEffect
<1>4. c.otherRuns \in BOOLEAN
  BY <1>1, InnermostProperties
<1>5. /\ TypeOK /\ open \in Seq(Construct)
      /\ Len(open) \in Nat /\ FunctionsIn(open) \in Nat /\ Depth(Scopes) \in Nat
  BY ScopesType DEF WellFormed, TypeOK
<1>6. /\ Tail(open) \in Seq(Construct) /\ Len(Tail(open)) = Len(open) - 1
      /\ FunctionsIn(open) = FunctionsIn(Tail(open)) + 0
  <2>1. Head(open).kind # "function"
    BY <1>1
  <2> QED
    BY <1>1, <1>5, <2>1, TailProperties, FunctionsOfTail
<1>7. /\ open' \in Seq(Construct) /\ Len(open') = Len(Tail(open)) + 1
      /\ FunctionsIn(open') = FunctionsIn(Tail(open)) + 0
  <2> DEFINE rest == Tail(open)
  <2>1. rest \in Seq(Construct) /\ d.kind # "function"
    BY <1>3, <1>6
  <2> HIDE DEF rest
  <2>2. <<d>> \o rest \in Seq(Construct) /\ Len(<<d>> \o rest) = Len(rest) + 1
    BY <2>1, ConsProperties
  <2>3. FunctionsIn(<<d>> \o rest) = FunctionsIn(rest) + 0
    BY <2>1, FunctionsOfCons
  <2> QED
    BY <1>3, <2>2, <2>3 DEF rest
<1>8. FunctionsIn(Tail(open)) \in Nat
  BY <1>6, FunctionsAreCounted, Zenon
<1> HIDE DEF t, c
<1>9. /\ t.symbols \in Seq(Symbol) /\ t.bases \in Seq(Nat) /\ t.failed \in Nat
      /\ Len(t.symbols) \in Nat
  BY <1>1 DEF ScopeStack
<1>10. symbols' \in Seq(Symbol) /\ bases' \in Seq(Nat) /\ failed' \in Nat
  BY <1>1, <1>2, <1>9, AppendProperties
<1>11. errors' \subseteq ErrorKind
  BY <1>2, <1>5 DEF TypeOK, OutOfMemory, ErrorKind
<1>12. TypeOK'
  BY <1>1, <1>4, <1>5, <1>7, <1>10, <1>11 DEF TypeOK
<1> DEFINE u == Scopes'
<1>13. /\ u \in ScopeStack /\ u.symbols = t.symbols
       /\ u.bases = IF ok THEN Append(t.bases, Len(t.symbols)) ELSE t.bases
       /\ u.failed = IF ok THEN t.failed ELSE t.failed + 1
  BY <1>1, <1>2, <1>10 DEF Scopes, ScopeStack
<1> HIDE DEF u
<1>14. Nested(u) /\ Depth(u) = Depth(t) + 1
  BY <1>1, <1>2, <1>13, PushedProperties
<1>15. Depth(u) = Depth(Scopes)
  BY <1>1, <1>5, <1>14
<1>16. Depth(u) = 1 + Len(open') + FunctionsIn(open')
  BY <1>5, <1>6, <1>7, <1>8, <1>15, DepthHere
<1> QED
  BY <1>12, <1>14, <1>16, WellFormedThen DEF u

LEMMA WellFormedOpenFunction ==
    ASSUME WellFormed, NEW params \in SUBSET Names, NEW valued \in BOOLEAN,
           OpenFunction(params, valued)
    PROVE  WellFormed'
<1>0. PICK ok \in BOOLEAN : open' = <<FunctionConstruct(params, valued, ok)>> \o open
  BY OpenFunctionEffect
<1> DEFINE c == FunctionConstruct(params, valued, ok)
<1>1. /\ size' \in 0 .. MaxSize
      /\ running' = TRUE
      /\ open' = <<c>> \o open
      /\ nextId' \in Nat /\ assigned' \subseteq Nat
      /\ errors' \subseteq ErrorKind
      /\ Scopes' \in ScopeStack /\ Nested(Scopes')
      /\ Depth(Scopes') = Depth(Scopes) + 2
  BY <1>0, OpenFunctionEffect
<1>2. TypeOK /\ open \in Seq(Construct) /\ Len(open) \in Nat
  BY ScopesType DEF WellFormed, TypeOK
<1>3. c \in Construct /\ c.kind = "function"
  BY <1>2, FunctionConstructType
<1> HIDE DEF c
<1>4. /\ open' \in Seq(Construct) /\ Len(open') = Len(open) + 1
      /\ FunctionsIn(open') = FunctionsIn(open) + 1
  BY <1>1, <1>2, <1>3, ConsProperties, FunctionsOfCons
<1>5. symbols' \in Seq(Symbol) /\ bases' \in Seq(Nat) /\ failed' \in Nat
  BY <1>1 DEF Scopes, ScopeStack
<1>6. TypeOK'
  BY <1>1, <1>4, <1>5 DEF TypeOK
<1>7. FunctionsIn(open) \in Nat
  BY <1>2, FunctionsAreCounted, Zenon
<1>8. Depth(Scopes') = 1 + Len(open') + FunctionsIn(open')
  BY <1>1, <1>2, <1>4, <1>7, DepthHere
<1> QED
  BY <1>1, <1>6, <1>8, WellFormedThen

LEMMA WellFormedCloseFunction ==
    ASSUME WellFormed, CloseFunction
    PROVE  WellFormed'
<1> DEFINE t == Popped(Popped(Scopes))
<1>1. /\ open # <<>> /\ Head(open).kind = "function"
      /\ t \in ScopeStack /\ Nested(t) /\ Depth(t) = Depth(Scopes) - 2
      /\ ScopesBecome(t)
      /\ errors' = errors \/ errors' = errors \cup {"missing return"}
      /\ open' = Tail(open)
      /\ running' \in BOOLEAN /\ assigned' \subseteq Nat
      /\ UNCHANGED size
  BY CloseFunctionEffect
<1>2. TypeOK /\ open \in Seq(Construct) /\ Len(open) \in Nat
  BY ScopesType DEF WellFormed, TypeOK
<1>3. /\ Tail(open) \in Seq(Construct) /\ Len(Tail(open)) = Len(open) - 1
      /\ FunctionsIn(open) = FunctionsIn(Tail(open)) + 1
  BY <1>1, <1>2, TailProperties, FunctionsOfTail
<1>4. FunctionsIn(Tail(open)) \in Nat
  BY <1>3, FunctionsAreCounted, Zenon
<1> HIDE DEF t
<1>5. /\ Scopes' = t
      /\ symbols' \in Seq(Symbol) /\ bases' \in Seq(Nat) /\ failed' \in Nat
      /\ nextId' = nextId
  BY <1>1, ScopesBecomeThem
<1>6. TypeOK'
  BY <1>1, <1>2, <1>3, <1>5 DEF TypeOK, ErrorKind
<1>7. Depth(Scopes') = 1 + Len(open') + FunctionsIn(open')
  <2>1. Depth(Scopes) = 1 + Len(open) + FunctionsIn(open)
    BY DepthHere
  <2>2. Depth(t) = Depth(Scopes) - 2 /\ Scopes' = t /\ open' = Tail(open)
    BY <1>1, <1>5
  <2>3. /\ Len(Tail(open)) = Len(open) - 1 /\ Len(open) \in Nat
        /\ FunctionsIn(open) = FunctionsIn(Tail(open)) + 1
    BY <1>2, <1>3
  <2> HIDE DEF t
  <2>4. Depth(t) = 1 + Len(Tail(open)) + FunctionsIn(Tail(open))
    BY <1>4, <2>1, <2>2, <2>3
  <2> QED
    BY <2>2, <2>4
<1> QED
  BY <1>1, <1>5, <1>6, <1>7, WellFormedThen

LEMMA WellFormedInit ==
    ASSUME Init
    PROVE  WellFormed
<1>1. /\ <<>> \in Seq(Symbol) /\ <<0>> \in Seq(Nat) /\ <<>> \in Seq(Construct)
      /\ Len(<<0>>) = 1 /\ DOMAIN <<0>> = {1} /\ Len(<<>>) = 0
  BY EmptySeq
<1>2. TypeOK
  <2>1. /\ symbols \in Seq(Symbol) /\ bases \in Seq(Nat) /\ open \in Seq(Construct)
        /\ failed \in Nat /\ nextId \in Nat
    BY <1>1 DEF Init
  <2>2. size \in 0 .. MaxSize
    BY FlowAssumption DEF Init
  <2>3. errors \subseteq ErrorKind /\ running \in BOOLEAN /\ assigned \subseteq Nat
    BY DEF Init
  <2> QED
    BY <2>1, <2>2, <2>3 DEF TypeOK
<1>3. Nested(Scopes)
  BY <1>1 DEF Init, Nested, Scopes
<1>4. PushesAreCounted
  <2>1. {i \in DOMAIN open : open[i].kind = "function"} = {}
    BY DEF Init
  <2>2. Cardinality({i \in DOMAIN open : open[i].kind = "function"}) = 0
    BY <2>1, FS_EmptySet
  <2> QED
    BY <1>1, <2>2 DEF Init, PushesAreCounted, FunctionsIn, Depth, Scopes
<1> QED
  BY <1>2, <1>3, <1>4 DEF WellFormed

LEMMA WellFormedStutters ==
    ASSUME WellFormed, UNCHANGED vars
    PROVE  WellFormed'
BY DEF WellFormed, TypeOK, Nested, Scopes, PushesAreCounted, vars, scopeVars, execution

LEMMA WellFormedStep ==
    ASSUME WellFormed, [Next]_vars
    PROVE  WellFormed'
<1>1. TypeOK /\ symbols \in Seq(Symbol) /\ Len(symbols) \in Nat
      /\ nextId \in Nat /\ running \in BOOLEAN /\ assigned \subseteq Nat
  BY ScopesType DEF WellFormed, TypeOK
<1>2. ASSUME NEW n \in Names, NEW mutable \in BOOLEAN,
             NEW e \in Expressions \cup {NoValue}, Declare(n, mutable, e)
      PROVE  WellFormed'
  <2>1. /\ size' \in 0 .. MaxSize /\ errors' \subseteq ErrorKind
        /\ UNCHANGED <<bases, failed, open, running>>
    BY <1>1, <1>2, DeclareEffect
  <2>2. CASE UNCHANGED <<symbols, nextId, assigned>>
    BY <1>1, <2>1, <2>2, WellFormedStatement
  <2>3. ASSUME NEW new \in Symbol,
               symbols' = Append(symbols, new), nextId' = nextId + 1,
               assigned' = IF running /\ new.initialized
                           THEN assigned \cup {nextId} ELSE assigned
        PROVE  WellFormed'
    <3>1. symbols' \in Seq(Symbol) /\ Len(symbols') = Len(symbols) + 1
      BY <1>1, <2>3, AppendProperties
    <3>2. nextId' \in Nat /\ assigned' \subseteq Nat
      BY <1>1, <2>3
    <3> QED
      BY <1>1, <2>1, <3>1, <3>2, WellFormedStatement
  <2> QED
    BY <1>1, <1>2, <2>2, <2>3, DeclareEffect
<1>3. ASSUME NEW n \in Names, NEW e \in Expressions, Assign(n, e)
      PROVE  WellFormed'
  <2>1. /\ size' \in 0 .. MaxSize /\ errors' \subseteq ErrorKind
        /\ UNCHANGED <<bases, failed, nextId, open, running>>
        /\ symbols' \in Seq(Symbol) /\ Len(symbols') = Len(symbols)
        /\ assigned' \subseteq Nat
    BY <1>1, <1>3, AssignEffect
  <2> QED
    BY <1>1, <2>1, WellFormedStatement
<1>4. ASSUME NEW e \in Expressions \cup {NoValue}, Return(e)
      PROVE  WellFormed'
  <2>1. /\ size' \in 0 .. MaxSize /\ errors' \subseteq ErrorKind
        /\ open' = Returning(open)
        /\ UNCHANGED <<symbols, bases, failed, nextId, assigned>>
    BY <1>1, <1>4, ReturnEffect
  <2>2. running' \in BOOLEAN
    BY <1>1, <1>4, ReturnEffect
  <2> QED
    BY <1>1, <2>1, <2>2, WellFormedStatement
<1>5. CASE OpenBlock
  <2>1. /\ UNCHANGED <<symbols, nextId>>
        /\ running' = running /\ assigned' = assigned
        /\ size' \in 0 .. MaxSize
    BY <1>1, <1>5, SizeGrows DEF OpenBlock, Statement, execution
  <2>2. PICK c \in Construct :
            ScopePushed /\ open' = <<c>> \o open /\ c.kind = "block"
    BY <1>1, <1>5, OpenBlockEffect DEF ScopePushed
  <2>3. c.kind # "function"
    BY <2>2
  <2> QED
    BY <1>1, <2>1, <2>2, <2>3, WellFormedOpening
<1>6. CASE CloseBlock
  <2>1. /\ open # <<>> /\ Head(open).kind # "function"
        /\ open' = Returning(Tail(open)) \/ open' = Tail(open)
    BY <1>6, CloseBlockEffect
  <2>2. running' \in BOOLEAN
    BY <1>1, <1>6, CloseBlockEffect
  <2>3. PICK t : Closes(t)
    BY <1>6, CloseBlockEffect
  <2>4. /\ t \in ScopeStack /\ Nested(t) /\ Depth(t) = Depth(Scopes) - 1
        /\ ScopesBecome(t) /\ UNCHANGED <<errors, assigned, size>>
    BY <2>3 DEF Closes
  <2> QED
    BY <2>1, <2>2, <2>4, WellFormedClosing
<1>7. ASSUME NEW e \in Expressions, NEW taken \in BOOLEAN, OpenIf(e, taken)
      PROVE  WellFormed'
  BY <1>1, <1>7, OpenIfEffect, WellFormedGivenUp, WellFormedOpensSaving
<1>8. CASE Else
  BY <1>8, WellFormedElse
<1>9. CASE CloseThen
  <2>1. /\ open # <<>> /\ Head(open).kind # "function"
        /\ \E t : Closes(t)
        /\ running' = (running \/ Head(open).otherRuns)
        /\ open' = Tail(open)
    BY <1>9, CloseThenEffect
  <2> QED
    BY <1>1, <2>1, WellFormedClosing DEF Closes
<1>10. CASE CloseElse
  <2>1. /\ open # <<>> /\ Head(open).kind # "function"
        /\ \E t : Closes(t)
        /\ running' = (running \/ Head(open).otherRuns)
        /\ open' = Returning(Tail(open)) \/ open' = Tail(open)
    BY <1>10, CloseElseEffect
  <2> QED
    BY <1>1, <2>1, WellFormedClosing DEF Closes
<1>11. ASSUME NEW e \in Expressions, NEW entered \in BOOLEAN, OpenWhile(e, entered)
       PROVE  WellFormed'
  BY <1>1, <1>11, OpenWhileEffect, WellFormedGivenUp, WellFormedOpensSaving
<1>12. CASE CloseWhile
  <2>1. /\ open # <<>> /\ Head(open).kind # "function"
        /\ \E t : Closes(t)
        /\ running' = (running \/ Head(open).otherRuns)
        /\ open' = Tail(open)
    BY <1>12, CloseWhileEffect
  <2> QED
    BY <1>1, <2>1, WellFormedClosing DEF Closes
<1>13. ASSUME NEW params \in SUBSET Names, NEW valued \in BOOLEAN,
              OpenFunction(params, valued)
       PROVE  WellFormed'
  BY <1>13, WellFormedOpenFunction
<1>14. CASE CloseFunction
  BY <1>14, WellFormedCloseFunction
<1>15. CASE UNCHANGED vars
  BY <1>15, WellFormedStutters
<1> QED
  BY <1>2, <1>3, <1>4, <1>5, <1>6, <1>7, <1>8, <1>9, <1>10, <1>11, <1>12, <1>13, <1>14,
     <1>15 DEF Next, EndOfProgram

LEMMA AlwaysWellFormed == Spec => []WellFormed
<1>1. Init => WellFormed
  BY WellFormedInit
<1>2. WellFormed /\ [Next]_vars => WellFormed'
  BY WellFormedStep
<1> QED
  BY <1>1, <1>2, PTL DEF Spec

(* Type correctness of the analyser's state: in particular scope_pop never *)
(* takes failed_pushes below zero, whatever pushes have failed, and no     *)
(* flow state is restored that is not a sequence of flags.                 *)
THEOREM StateIsTyped == Spec => []TypeOK
<1>1. WellFormed => TypeOK
  BY DEF WellFormed
<1> QED
  BY <1>1, AlwaysWellFormed, PTL

-----------------------------------------------------------------------------
(* Variables keep their scope.                                             *)

LEMMA OpenElements ==
    ASSUME NEW o \in Seq(Construct)
    PROVE  /\ Len(o) \in Nat
           /\ \A i \in 1 .. Len(o) :
                  o[i].outer \in Nat /\ Own(o[i]) \in Nat \ {0}
<1>1. ASSUME NEW c \in Construct PROVE c.outer \in Nat
  BY DEF Construct
<1>2. \A i \in 1 .. Len(o) : o[i] \in Construct
  BY ElementOfSeq
<1>3. \A i \in 1 .. Len(o) : Own(o[i]) \in Nat \ {0}
  BY DEF Own
<1> QED
  BY <1>1, <1>2, <1>3

(* A construct begins: its scopes are the deepest.                         *)
LEMMA InPlaceOpened ==
    ASSUME NEW b \in Seq(Nat), NEW f \in Nat, NEW n \in Nat,
           NEW o \in Seq(Construct), NEW d, InPlace(d, b, f, n, o),
           NEW c \in Construct, c.outer = n,
           NEW a \in Seq(Nat), NEW g \in Nat, NEW m \in Nat, n <= m,
           Len(a) + g = Len(b) + f + Own(c), Len(b) <= Len(a),
           \A p \in 1 .. Len(b) : a[p] = b[p],
           \A p \in Len(b) + 1 .. Len(a) : n <= a[p],
           ~c.lost => g = f /\ a[Len(b) + 1] = n
    PROVE  \E e : InPlace(e, a, g, m, <<c>> \o o)
<1> DEFINE q == <<c>> \o o
           l == Len(o)
           e == [i \in 1 .. l + 2 |-> IF i = 1 THEN d[1] + Own(c) ELSE d[i - 1]]
<1>1. /\ l \in Nat /\ Len(b) \in Nat /\ Len(a) \in Nat
      /\ \A i \in 1 .. l : o[i].outer \in Nat /\ Own(o[i]) \in Nat \ {0}
      /\ \A p \in 1 .. Len(a) : a[p] \in Nat
      /\ Own(c) \in Nat \ {0}
  BY OpenElements DEF Own
<1>2. /\ q \in Seq(Construct) /\ Len(q) = l + 1
      /\ q[1] = c /\ \A i \in 2 .. l + 1 : q[i] = o[i - 1]
  BY ConsProperties
<1>3. /\ d \in [1 .. l + 1 -> Nat] /\ d[1] = Len(b) + f /\ d[l + 1] = 1
      /\ \A i \in 1 .. l : d[i] = d[i + 1] + Own(o[i])
      /\ \A i, j \in 1 .. l + 1 : i <= j => d[j] <= d[i]
      /\ Len(b) >= 1
      /\ \A i \in 1 .. l : ConstructInPlace(d, b, n, o, i)
  BY DEF InPlace, DepthsOf
<1>4. /\ e \in [1 .. l + 2 -> Nat] /\ e[1] = d[1] + Own(c)
      /\ \A i \in 2 .. l + 2 : e[i] = d[i - 1]
  <2>1. ASSUME NEW i \in 1 .. l + 2
        PROVE  (IF i = 1 THEN d[1] + Own(c) ELSE d[i - 1]) \in Nat
    <3>1. \A j \in 1 .. l + 1 : d[j] \in Nat
      BY <1>3
    <3>2. Own(c) \in Nat /\ 1 \in 1 .. l + 1
      BY <1>1
    <3>3. i # 1 => i - 1 \in 1 .. l + 1
      BY <1>1, <2>1
    <3>4. CASE i = 1
      <4>1. d[1] + Own(c) \in Nat
        BY <3>1, <3>2
      <4> QED
        BY <3>4, <4>1
    <3>5. CASE i # 1
      BY <3>1, <3>3, <3>5
    <3> QED
      BY <3>4, <3>5
  <2>2. \A i \in 2 .. l + 2 : i \in 1 .. l + 2 /\ i # 1
    BY <1>1
  <2> QED
    BY <1>1, <2>1, <2>2
<1> HIDE DEF e, q, l
<1>5. DepthsOf(e, a, g, q)
  <2>1. e[1] = Len(a) + g
    BY <1>1, <1>3, <1>4
  <2>2. e[l + 2] = 1
    BY <1>1, <1>3, <1>4
  <2>3. ASSUME NEW i \in 1 .. l + 1 PROVE e[i] = e[i + 1] + Own(q[i])
    <3>1. CASE i = 1
      <4>1. e[2] = d[1]
        BY <1>1, <1>4
      <4> QED
        BY <1>2, <1>4, <3>1, <4>1
    <3>2. CASE i # 1
      <4>1. i - 1 \in 1 .. l /\ i \in 2 .. l + 1 /\ i + 1 \in 2 .. l + 2 /\ i \in 2 .. l + 2
        BY <1>1, <3>2
      <4>2. e[i] = d[i - 1] /\ e[i + 1] = d[i] /\ q[i] = o[i - 1]
        BY <1>2, <1>4, <4>1
      <4>3. d[i - 1] = d[i] + Own(o[i - 1])
        BY <1>3, <4>1
      <4> QED
        BY <4>2, <4>3
    <3> QED
      BY <3>1, <3>2
  <2>4. ASSUME NEW i \in 1 .. l + 2, NEW j \in 1 .. l + 2, i <= j PROVE e[j] <= e[i]
    <3>1. ASSUME i # 1, j # 1 PROVE e[j] <= e[i]
      <4>0. l \in Nat
        BY <1>1
      <4>1. i - 1 \in 1 .. l + 1 /\ j - 1 \in 1 .. l + 1 /\ i - 1 <= j - 1
            /\ i \in 2 .. l + 2 /\ j \in 2 .. l + 2
        BY <2>4, <3>1, <4>0
      <4> QED
        BY <1>3, <1>4, <4>1
    <3>2. ASSUME i = 1, j # 1 PROVE e[j] <= e[i]
      <4>1. j - 1 \in 1 .. l + 1 /\ 1 \in 1 .. l + 1 /\ 1 <= j - 1 /\ j \in 2 .. l + 2
        BY <1>1, <2>4, <3>2
      <4>2. d[j - 1] <= d[1] /\ e[j] = d[j - 1] /\ d[j - 1] \in Nat /\ d[1] \in Nat
        BY <1>3, <1>4, <4>1
      <4>3. e[i] = d[1] + Own(c) /\ Own(c) \in Nat
        BY <1>1, <1>4, <3>2
      <4> DEFINE x == d[1]
                 y == d[j - 1]
                 w == Own(c)
      <4>4. x \in Nat /\ y \in Nat /\ w \in Nat /\ y <= x
        BY <4>2, <4>3
      <4>5. e[j] = y /\ e[i] = x + w
        BY <4>2, <4>3
      <4> HIDE DEF x, y, w
      <4>6. y <= x + w
        BY <4>4
      <4> QED
        BY <4>5, <4>6
    <3>3. ASSUME i = 1, j = 1 PROVE e[j] <= e[i]
      BY <1>4, <2>4, <3>3
    <3> QED
      BY <2>4, <3>1, <3>2, <3>3
  <2>5. Len(q) = l + 1 /\ (l + 1) + 1 = l + 2
    BY <1>1, <1>2
  <2> QED
    BY <1>4, <2>1, <2>2, <2>3, <2>4, <2>5 DEF DepthsOf
<1>6. ConstructInPlace(e, a, m, q, 1)
  <2>1. q[1].outer = n /\ e[2] = Len(b) + f /\ e[1] = Len(a) + g
    BY <1>1, <1>2, <1>3, <1>4
  <2>2. \A p \in 1 .. Len(a) : p > e[2] => n <= a[p]
    BY <1>1, <2>1
  <2>3. ASSUME NoneLost(q, 1)
        PROVE  e[1] <= Len(a) /\ a[e[2] + 1] = n
    <3>1. ~c.lost /\ \A j \in 2 .. l + 1 : ~o[j - 1].lost
      <4>1. \A j \in 1 .. l + 1 : ~q[j].lost
        BY <1>2, <2>3 DEF NoneLost
      <4>2. 1 \in 1 .. l + 1 /\ \A j \in 2 .. l + 1 : j \in 1 .. l + 1
        BY <1>1
      <4> QED
        BY <1>2, <4>1, <4>2
    <3>2. NoneLost(o, 1)
      <4>1. ASSUME NEW j \in 1 .. l PROVE ~o[j].lost
        <5>1. j + 1 \in 2 .. l + 1 /\ (j + 1) - 1 = j
          BY <1>1
        <5> QED
          BY <3>1, <5>1
      <4> QED
        BY <4>1 DEF NoneLost, l
    <3>3. d[1] <= Len(b)
      <4>1. CASE l = 0
        BY <1>1, <1>3, <4>1
      <4>2. CASE l # 0
        <5>1. 1 \in 1 .. l
          BY <1>1, <4>2
        <5> QED
          BY <1>3, <3>2, <5>1 DEF ConstructInPlace
      <4> QED
        BY <4>1, <4>2
    <3>4. f = 0
      BY <1>1, <1>3, <3>3
    <3> QED
      BY <1>1, <2>1, <3>1, <3>4
  <2>4. q[1].outer <= m
    BY <2>1
  <2>5. e[1 + 1] = e[2]
    OBVIOUS
  <2> QED
    BY <2>1, <2>2, <2>3, <2>4, <2>5 DEF ConstructInPlace
<1>7. ASSUME NEW i \in 2 .. l + 1 PROVE ConstructInPlace(e, a, m, q, i)
  <2> DEFINE k == i - 1
  <2>1. k \in 1 .. l /\ k + 1 \in 1 .. l + 1 /\ i \in 2 .. l + 2 /\ i + 1 \in 2 .. l + 2
    BY <1>1
  <2>2. q[i] = o[k] /\ e[i] = d[k] /\ e[i + 1] = d[k + 1]
    <3>1. q[i] = o[i - 1] /\ e[i] = d[i - 1]
      BY <1>2, <1>4, <2>1
    <3>2. e[i + 1] = d[(i + 1) - 1] /\ (i + 1) - 1 = k + 1
      BY <1>4, <2>1
    <3> QED
      BY <3>1, <3>2
  <2>3. d[k] \in Nat /\ d[k + 1] \in Nat /\ d[k] = d[k + 1] + Own(o[k])
    <3> HIDE DEF k
    <3>1. k \in 1 .. l + 1
      BY <1>1, <2>1
    <3>2. \A j \in 1 .. l + 1 : d[j] \in Nat
      BY <1>3
    <3> QED
      BY <1>3, <2>1, <3>1, <3>2
  <2>4. /\ o[k].outer <= n
        /\ \A p \in 1 .. Len(b) : p > d[k + 1] => o[k].outer <= b[p]
        /\ NoneLost(o, k) => d[k] <= Len(b) /\ b[d[k + 1] + 1] = o[k].outer
    BY <1>3, <2>1 DEF ConstructInPlace
  <2>5. o[k].outer \in Nat /\ Own(o[k]) \in Nat \ {0}
    BY <1>1, <2>1
  <2> HIDE DEF k
  <2>6. q[i].outer <= m
    BY <2>2, <2>4, <2>5
  <2>7. ASSUME NEW p \in 1 .. Len(a), p > e[i + 1] PROVE q[i].outer <= a[p]
    <3>1. CASE p <= Len(b)
      <4>1. p \in 1 .. Len(b)
        BY <1>1, <3>1
      <4> QED
        BY <2>2, <2>4, <2>7, <4>1
    <3>2. CASE ~(p <= Len(b))
      <4>1. n <= a[p] /\ a[p] \in Nat
        BY <1>1, <3>2
      <4>2. o[k].outer <= n /\ o[k].outer \in Nat
        BY <2>4, <2>5
      <4>3. o[k].outer <= a[p]
        <5> DEFINE x == o[k].outer
                   y == a[p]
        <5>1. x \in Nat /\ y \in Nat /\ x <= n /\ n <= y
          BY <4>1, <4>2
        <5> HIDE DEF x, y
        <5>2. x <= y
          BY <5>1
        <5> QED
          BY <5>2 DEF x, y
      <4> QED
        BY <2>2, <4>3
    <3> QED
      BY <3>1, <3>2
  <2>8. ASSUME NoneLost(q, i)
        PROVE  e[i] <= Len(a) /\ a[e[i + 1] + 1] = q[i].outer
    <3>1. NoneLost(o, k)
      <4>1. ASSUME NEW j \in k .. l PROVE ~o[j].lost
        <5>1. j + 1 \in i .. l + 1 /\ j + 1 \in 2 .. l + 1 /\ (j + 1) - 1 = j
          BY <1>1, <2>1 DEF k
        <5>2. ~q[j + 1].lost
          BY <1>2, <2>8, <5>1 DEF NoneLost
        <5> QED
          BY <1>2, <5>1, <5>2
      <4> QED
        BY <4>1 DEF NoneLost, l
    <3>2. d[k] <= Len(b) /\ b[d[k + 1] + 1] = o[k].outer
      BY <2>4, <3>1
    <3> DEFINE x == d[k]
               y == d[k + 1]
               w == Own(o[k])
    <3>3. /\ x \in Nat /\ y \in Nat /\ w \in Nat \ {0} /\ x = y + w /\ x <= Len(b)
          /\ Len(b) \in Nat /\ Len(a) \in Nat /\ Len(b) <= Len(a)
      BY <1>1, <2>3, <2>5, <3>2
    <3> HIDE DEF x, y, w
    <3>4. y + 1 \in 1 .. Len(b) /\ x <= Len(a)
      BY <3>3
    <3>5. a[y + 1] = b[y + 1]
      BY <3>4
    <3> QED
      BY <2>2, <3>2, <3>4, <3>5 DEF x, y
  <2> QED
    BY <2>6, <2>7, <2>8 DEF ConstructInPlace
<1>8. \A i \in 1 .. Len(q) : ConstructInPlace(e, a, m, q, i)
  <2>1. \A i \in 1 .. Len(q) : i = 1 \/ i \in 2 .. l + 1
    BY <1>1, <1>2
  <2> QED
    BY <1>6, <1>7, <2>1
<1>9. Len(a) >= 1
  BY <1>1, <1>3
<1>10. InPlace(e, a, g, m, q)
  BY <1>5, <1>8, <1>9 DEF InPlace
<1> QED
  BY <1>10 DEF q

(* k pops: failed pushes are made up for first, and then the innermost     *)
(* scopes go.                                                              *)
PopsFailed(b, f, n, a, g, m, k) == f >= k /\ a = b /\ g = f - k /\ m = n

PopsScopes(b, a, g, m) ==
    /\ g = 0
    /\ Len(a) < Len(b)
    /\ \A p \in 1 .. Len(a) : a[p] = b[p]
    /\ m = b[Len(a) + 1]

(* A construct ends: no variable that was in scope when it or one around   *)
(* it began is lost, and where no push was, no other is left.              *)
LEMMA InPlaceClosed ==
    ASSUME NEW b \in Seq(Nat), NEW f \in Nat, NEW n \in Nat,
           NEW o \in Seq(Construct), o # <<>>, NEW d, InPlace(d, b, f, n, o),
           NEW a \in Seq(Nat), NEW g \in Nat, NEW m \in Nat,
           Len(a) + g = Len(b) + f - Own(o[1]),
           PopsFailed(b, f, n, a, g, m, Own(o[1])) \/ PopsScopes(b, a, g, m)
    PROVE  /\ \E e : InPlace(e, a, g, m, Tail(o))
           /\ \A i \in 1 .. Len(o) : o[i].outer <= m
           /\ NoneLost(o, 1) => m = o[1].outer
<1> DEFINE q == Tail(o)
           l == Len(o)
           e == [i \in 1 .. l |-> d[i + 1]]
<1>1. /\ l \in Nat \ {0} /\ Len(b) \in Nat /\ Len(a) \in Nat
      /\ \A i \in 1 .. l : o[i].outer \in Nat /\ Own(o[i]) \in Nat \ {0}
      /\ \A p \in 1 .. Len(a) : a[p] \in Nat
      /\ q \in Seq(Construct) /\ Len(q) = l - 1
      /\ \A i \in 1 .. l - 1 : q[i] = o[i + 1]
  BY OpenElements, TailProperties
<1>2. /\ d[1] = Len(b) + f /\ d[l + 1] = 1
      /\ \A i \in 1 .. l + 1 : d[i] \in Nat
      /\ \A i \in 1 .. l : d[i] = d[i + 1] + Own(o[i])
      /\ \A i, j \in 1 .. l + 1 : i <= j => d[j] <= d[i]
      /\ Len(b) >= 1
  BY DEF InPlace, DepthsOf
<1>3. ASSUME NEW i \in 1 .. l
      PROVE  /\ o[i].outer <= n
             /\ \A p \in 1 .. Len(b) : p > d[i + 1] => o[i].outer <= b[p]
             /\ NoneLost(o, i) => d[i] <= Len(b) /\ b[d[i + 1] + 1] = o[i].outer
  BY <1>3 DEF InPlace, ConstructInPlace
<1>4. /\ e \in [1 .. l -> Nat]
      /\ \A i \in 1 .. l : e[i] = d[i + 1]
  <2>1. \A i \in 1 .. l : i + 1 \in 1 .. l + 1
    BY <1>1
  <2> QED
    BY <1>2, <2>1
<1> HIDE DEF e, q, l
<1>5. /\ 1 \in 1 .. l /\ 2 \in 1 .. l + 1
      /\ d[2] = Len(a) + g /\ d[2] \in Nat
      /\ d[1] = d[2] + Own(o[1]) /\ Own(o[1]) \in Nat \ {0}
  <2>1. 1 \in 1 .. l /\ 2 \in 1 .. l + 1 /\ 1 + 1 = 2
    BY <1>1
  <2>2. d[1] = d[2] + Own(o[1]) /\ d[2] \in Nat /\ Own(o[1]) \in Nat \ {0}
    BY <1>1, <1>2, <2>1
  <2>3. d[1] = Len(b) + f /\ Len(a) + g = Len(b) + f - Own(o[1])
    BY <1>2
  <2>4. d[2] = Len(a) + g
    <3> DEFINE x == d[1]
               y == d[2]
               w == Own(o[1])
               lb == Len(b)
               la == Len(a)
    <3>1. /\ y \in Nat /\ w \in Nat /\ lb \in Nat /\ la \in Nat
          /\ x = y + w /\ x = lb + f /\ la + g = lb + f - w
      BY <1>1, <2>2, <2>3
    <3> HIDE DEF x, y, w, lb, la
    <3>2. y = la + g
      BY <3>1
    <3> QED
      BY <3>2 DEF y, la
  <2> QED
    BY <2>1, <2>2, <2>4
<1>6. DepthsOf(e, a, g, q)
  <2>1. e[1] = Len(a) + g
    BY <1>4, <1>5
  <2>0. l \in Nat \ {0}
    BY <1>1
  <2>2. e[l] = 1
    <3>1. l \in 1 .. l
      BY <2>0
    <3> QED
      BY <1>2, <1>4, <3>1
  <2>3. ASSUME NEW i \in 1 .. l - 1 PROVE e[i] = e[i + 1] + Own(q[i])
    <3>1. i \in 1 .. l /\ i + 1 \in 1 .. l
      BY <2>0
    <3>2. e[i] = d[i + 1] /\ e[i + 1] = d[(i + 1) + 1] /\ q[i] = o[i + 1]
      BY <1>1, <1>4, <3>1
    <3>3. d[i + 1] = d[(i + 1) + 1] + Own(o[i + 1])
      BY <1>2, <3>1
    <3> QED
      BY <3>2, <3>3
  <2>4. ASSUME NEW i \in 1 .. l, NEW j \in 1 .. l, i <= j PROVE e[j] <= e[i]
    <3>1. i + 1 \in 1 .. l + 1 /\ j + 1 \in 1 .. l + 1 /\ i + 1 <= j + 1
      BY <2>0, <2>4
    <3>2. d[j + 1] <= d[i + 1]
      BY <1>2, <3>1
    <3> QED
      BY <1>4, <3>2
  <2>5. Len(q) = l - 1 /\ (l - 1) + 1 = l
    BY <1>1
  <2> QED
    BY <1>4, <2>1, <2>2, <2>3, <2>4, <2>5 DEF DepthsOf
<1>7. PopsScopes(b, a, g, m) => g = 0 /\ Len(a) = d[2] /\ d[2] + 1 \in 1 .. Len(b)
                                /\ m = b[d[2] + 1]
                                /\ \A p \in 1 .. Len(a) : p \in 1 .. Len(b) /\ a[p] = b[p]
  <2> SUFFICES ASSUME PopsScopes(b, a, g, m)
               PROVE  g = 0 /\ Len(a) = d[2] /\ d[2] + 1 \in 1 .. Len(b)
                      /\ m = b[d[2] + 1]
                      /\ \A p \in 1 .. Len(a) : p \in 1 .. Len(b) /\ a[p] = b[p]
    OBVIOUS
  <2>1. g = 0 /\ Len(a) < Len(b) /\ m = b[Len(a) + 1]
        /\ \A p \in 1 .. Len(a) : a[p] = b[p]
    BY DEF PopsScopes
  <2>2. Len(a) = d[2]
    BY <1>1, <1>5, <2>1
  <2> DEFINE x == Len(a)
             y == Len(b)
  <2>3. x \in Nat /\ y \in Nat /\ x < y
    BY <1>1, <2>1
  <2> HIDE DEF x, y
  <2>4. x + 1 \in 1 .. y /\ \A p \in 1 .. x : p \in 1 .. y
    BY <2>3
  <2>5. d[2] = x
    BY <2>2 DEF x
  <2> QED
    BY <2>1, <2>4, <2>5 DEF x, y
<1>8. ASSUME NEW i \in 1 .. l PROVE o[i].outer <= m
  <2>1. CASE PopsFailed(b, f, n, a, g, m, Own(o[1]))
    BY <1>3, <2>1 DEF PopsFailed
  <2>2. CASE PopsScopes(b, a, g, m)
    <3>1. i + 1 \in 1 .. l + 1 /\ 2 <= i + 1
      BY <1>1
    <3>2. d[i + 1] <= d[2] /\ d[i + 1] \in Nat
      BY <1>2, <1>5, <3>1
    <3>3. d[2] + 1 > d[i + 1] /\ d[2] + 1 \in 1 .. Len(b)
      <4> DEFINE x == d[i + 1]
                 y == d[2]
      <4>1. x \in Nat /\ y \in Nat /\ x <= y
        BY <1>5, <3>2
      <4>2. y + 1 \in 1 .. Len(b)
        BY <1>7, <2>2
      <4> HIDE DEF x, y
      <4>3. y + 1 > x
        BY <4>1
      <4> QED
        BY <4>2, <4>3 DEF x, y
    <3>4. o[i].outer <= b[d[2] + 1]
      BY <1>3, <3>3
    <3> QED
      BY <1>7, <2>2, <3>4
  <2> QED
    BY <2>1, <2>2
<1>9. ASSUME NoneLost(o, 1) PROVE m = o[1].outer
  <2>1. d[1] <= Len(b) /\ b[d[1 + 1] + 1] = o[1].outer
    BY <1>3, <1>5, <1>9
  <2>2. f = 0
    BY <1>1, <1>2, <2>1
  <2>3. PopsScopes(b, a, g, m)
    BY <1>5, <2>2 DEF PopsFailed
  <2>4. m = b[d[2] + 1] /\ 1 + 1 = 2
    BY <1>7, <2>3
  <2> QED
    BY <2>1, <2>4
<1>10. ASSUME NEW i \in 1 .. l - 1 PROVE ConstructInPlace(e, a, m, q, i)
  <2> DEFINE k == i + 1
  <2>1. k \in 1 .. l /\ i \in 1 .. l /\ k + 1 \in 1 .. l + 1 /\ k \in 1 .. l + 1 /\ 2 <= k
    BY <1>1
  <2>2. q[i] = o[k] /\ e[i] = d[k] /\ e[i + 1] = d[k + 1]
    BY <1>1, <1>4, <2>1
  <2> HIDE DEF k
  <2>3. /\ \A p \in 1 .. Len(b) : p > d[k + 1] => o[k].outer <= b[p]
        /\ NoneLost(o, k) => d[k] <= Len(b) /\ b[d[k + 1] + 1] = o[k].outer
    BY <1>3, <2>1
  <2>4. q[i].outer <= m
    BY <1>8, <2>1, <2>2
  <2>5. ASSUME NEW p \in 1 .. Len(a), p > e[i + 1] PROVE q[i].outer <= a[p]
    <3>1. p \in 1 .. Len(b) /\ a[p] = b[p]
      BY <1>7 DEF PopsFailed
    <3> QED
      BY <2>2, <2>3, <2>5, <3>1
  <2>6. ASSUME NoneLost(q, i)
        PROVE  e[i] <= Len(a) /\ a[e[i + 1] + 1] = q[i].outer
    <3>1. NoneLost(o, k)
      <4>1. ASSUME NEW j \in k .. l PROVE ~o[j].lost
        <5>1. j - 1 \in i .. l - 1 /\ j - 1 \in 1 .. l - 1 /\ (j - 1) + 1 = j
          BY <1>1, <2>1 DEF k
        <5>2. ~q[j - 1].lost
          BY <1>1, <2>6, <5>1 DEF NoneLost
        <5>3. q[j - 1] = o[(j - 1) + 1]
          BY <1>1, <5>1
        <5> QED
          BY <5>1, <5>2, <5>3
      <4> QED
        BY <4>1 DEF NoneLost, l
    <3>2. d[k] <= Len(b) /\ b[d[k + 1] + 1] = o[k].outer
      BY <2>3, <3>1
    <3> DEFINE x == d[k]
               y == d[k + 1]
               w == Own(o[k])
               z == d[2]
    <3>3. x \in Nat /\ y \in Nat /\ w \in Nat \ {0} /\ x = y + w /\ x <= z /\ z \in Nat
      <4>1. x \in Nat /\ y \in Nat /\ z \in Nat
        BY <1>2, <1>5, <2>1
      <4>2. w \in Nat \ {0} /\ x = y + w
        BY <1>1, <1>2, <2>1
      <4>3. x <= z
        BY <1>2, <1>5, <2>1
      <4> QED
        BY <4>1, <4>2, <4>3
    <3>4. x <= Len(a) /\ \A p \in 1 .. Len(a) : a[p] = b[p]
      <4>1. CASE PopsFailed(b, f, n, a, g, m, Own(o[1]))
        BY <3>2, <4>1 DEF PopsFailed
      <4>2. CASE PopsScopes(b, a, g, m)
        BY <1>7, <3>3, <4>2
      <4> QED
        BY <4>1, <4>2
    <3> HIDE DEF x, y, w, z
    <3>5. y + 1 \in 1 .. Len(a)
      BY <1>1, <3>3, <3>4
    <3>6. a[y + 1] = b[y + 1]
      BY <3>4, <3>5
    <3> QED
      BY <2>2, <3>2, <3>4, <3>6 DEF x, y
  <2> QED
    BY <2>4, <2>5, <2>6 DEF ConstructInPlace
<1>11. Len(a) >= 1
  <2>1. CASE PopsFailed(b, f, n, a, g, m, Own(o[1]))
    BY <1>2, <2>1 DEF PopsFailed
  <2>2. CASE PopsScopes(b, a, g, m)
    <3>1. l + 1 \in 1 .. l + 1 /\ 2 <= l + 1
      BY <1>1
    <3>2. d[l + 1] <= d[2]
      BY <1>2, <1>5, <3>1
    <3> QED
      BY <1>2, <1>7, <2>2, <3>2
  <2> QED
    BY <2>1, <2>2
<1>12. InPlace(e, a, g, m, q)
  BY <1>1, <1>6, <1>10, <1>11 DEF InPlace
<1> QED
  BY <1>8, <1>9, <1>12 DEF q, l

(* A statement neither pushes nor pops, and may declare a variable.        *)
LEMMA InPlaceStill ==
    ASSUME NEW b \in Seq(Nat), NEW f \in Nat, NEW n \in Nat,
           NEW o \in Seq(Construct), NEW d, InPlace(d, b, f, n, o),
           NEW q, q = o \/ q = Returning(o), NEW m \in Nat, n <= m
    PROVE  InPlace(d, b, f, m, q)
<1>1. /\ q \in Seq(Construct) /\ Len(q) = Len(o)
      /\ \A i \in 1 .. Len(o) :
             q[i].kind = o[i].kind /\ q[i].outer = o[i].outer /\ q[i].lost = o[i].lost
  BY MaybeReturning
<1>2. Len(o) \in Nat /\ \A i \in 1 .. Len(o) : o[i].outer \in Nat /\ Own(q[i]) = Own(o[i])
  BY <1>1, OpenElements DEF Own
<1>3. DepthsOf(d, b, f, q)
  BY <1>1, <1>2 DEF InPlace, DepthsOf
<1>4. ASSUME NEW i \in 1 .. Len(o) PROVE ConstructInPlace(d, b, m, q, i)
  <2>1. /\ o[i].outer <= n
        /\ \A p \in 1 .. Len(b) : p > d[i + 1] => o[i].outer <= b[p]
        /\ NoneLost(o, i) => d[i] <= Len(b) /\ b[d[i + 1] + 1] = o[i].outer
    BY <1>4 DEF InPlace, ConstructInPlace
  <2>2. NoneLost(q, i) => NoneLost(o, i)
    <3>1. \A j \in i .. Len(o) : j \in 1 .. Len(o)
      BY <1>2
    <3> QED
      BY <1>1, <3>1 DEF NoneLost
  <2>3. q[i].outer <= m
    BY <1>1, <1>2, <2>1
  <2> QED
    BY <1>1, <2>1, <2>2, <2>3 DEF ConstructInPlace
<1> QED
  BY <1>1, <1>3, <1>4 DEF InPlace

LEMMA PoppedPlace ==
    ASSUME NEW s \in ScopeStack, Nested(s), Depth(s) >= 1
    PROVE  LET t == Popped(s)
           IN  \/ PopsFailed(s.bases, s.failed, Len(s.symbols),
                             t.bases, t.failed, Len(t.symbols), 1)
               \/ PopsScopes(s.bases, t.bases, t.failed, Len(t.symbols))
<1>1. s.failed \in Nat /\ Len(s.bases) \in Nat
  BY DEF ScopeStack
<1>2. CASE s.failed > 0
  <2> DEFINE t == [s EXCEPT !.failed = s.failed - 1]
  <2>1. Popped(s) = t
    BY <1>2 DEF Popped
  <2>2. t.bases = s.bases /\ t.failed = s.failed - 1 /\ t.symbols = s.symbols
    BY DEF ScopeStack
  <2> HIDE DEF t
  <2> QED
    BY <1>1, <1>2, <2>1, <2>2 DEF PopsFailed
<1>3. CASE ~(s.failed > 0)
  <2>1. s.failed = 0 /\ Len(s.bases) >= 1
    BY <1>1, <1>3 DEF Depth
  <2> DEFINE t == Popped(s)
  <2>2. /\ t.failed = 0 /\ Len(t.bases) = Len(s.bases) - 1
        /\ \A i \in 1 .. Len(s.bases) - 1 : t.bases[i] = s.bases[i]
        /\ Len(t.symbols) = s.bases[Len(s.bases)]
    BY <2>1, PoppedScope
  <2> HIDE DEF t
  <2>3. (Len(s.bases) - 1) + 1 = Len(s.bases)
    BY <1>1
  <2>4. PopsScopes(s.bases, t.bases, t.failed, Len(t.symbols))
    BY <1>1, <2>2, <2>3 DEF PopsScopes
  <2> QED
    BY <2>4 DEF t
<1> QED
  BY <1>2, <1>3

LEMMA PoppedTwicePlace ==
    ASSUME NEW s \in ScopeStack, Nested(s), Depth(s) >= 2
    PROVE  LET t == Popped(Popped(s))
           IN  \/ PopsFailed(s.bases, s.failed, Len(s.symbols),
                             t.bases, t.failed, Len(t.symbols), 2)
               \/ PopsScopes(s.bases, t.bases, t.failed, Len(t.symbols))
<1> DEFINE r == Popped(s)
           t == Popped(r)
<1>1. s.failed \in Nat /\ Len(s.bases) \in Nat /\ Depth(s) \in Nat
  BY DEF ScopeStack, Depth
<1>2. /\ r \in ScopeStack /\ Nested(r) /\ Depth(r) = Depth(s) - 1
      /\ \/ PopsFailed(s.bases, s.failed, Len(s.symbols),
                       r.bases, r.failed, Len(r.symbols), 1)
         \/ PopsScopes(s.bases, r.bases, r.failed, Len(r.symbols))
  <2>1. Depth(s) >= 1
    BY <1>1
  <2> QED
    BY <2>1, PoppedProperties, PoppedPlace
<1> HIDE DEF r
<1>3. /\ \/ PopsFailed(r.bases, r.failed, Len(r.symbols),
                       t.bases, t.failed, Len(t.symbols), 1)
         \/ PopsScopes(r.bases, t.bases, t.failed, Len(t.symbols))
      /\ t \in ScopeStack
  <2>1. Depth(r) >= 1
    BY <1>1, <1>2
  <2> QED
    BY <1>2, <2>1, PoppedProperties, PoppedPlace
<1>4. r.failed \in Nat /\ Len(r.bases) \in Nat /\ Len(t.bases) \in Nat
  BY <1>2, <1>3 DEF ScopeStack
<1> HIDE DEF t
<1>5. CASE PopsFailed(s.bases, s.failed, Len(s.symbols), r.bases, r.failed, Len(r.symbols), 1)
  <2>1. /\ r.bases = s.bases /\ r.failed = s.failed - 1 /\ Len(r.symbols) = Len(s.symbols)
        /\ s.failed >= 1
    BY <1>5 DEF PopsFailed
  <2>2. CASE PopsFailed(r.bases, r.failed, Len(r.symbols),
                        t.bases, t.failed, Len(t.symbols), 1)
    <3>1. PopsFailed(s.bases, s.failed, Len(s.symbols),
                     t.bases, t.failed, Len(t.symbols), 2)
      BY <1>1, <2>1, <2>2 DEF PopsFailed
    <3> QED
      BY <3>1 DEF t, r
  <2>3. CASE PopsScopes(r.bases, t.bases, t.failed, Len(t.symbols))
    <3>1. PopsScopes(s.bases, t.bases, t.failed, Len(t.symbols))
      BY <2>1, <2>3
    <3> QED
      BY <3>1 DEF t, r
  <2> QED
    BY <1>3, <2>2, <2>3
<1>6. CASE PopsScopes(s.bases, r.bases, r.failed, Len(r.symbols))
  <2>1. /\ r.failed = 0 /\ Len(r.bases) < Len(s.bases)
        /\ \A p \in 1 .. Len(r.bases) : r.bases[p] = s.bases[p]
    BY <1>6 DEF PopsScopes
  <2>2. /\ t.failed = 0 /\ Len(t.bases) < Len(r.bases)
        /\ \A p \in 1 .. Len(t.bases) : t.bases[p] = r.bases[p]
        /\ Len(t.symbols) = r.bases[Len(t.bases) + 1]
    BY <1>3, <2>1 DEF PopsScopes, PopsFailed
  <2>3. /\ \A p \in 1 .. Len(t.bases) : p \in 1 .. Len(r.bases)
        /\ Len(t.bases) + 1 \in 1 .. Len(r.bases)
        /\ Len(t.bases) < Len(s.bases)
    BY <1>1, <1>4, <2>1, <2>2
  <2>4. PopsScopes(s.bases, t.bases, t.failed, Len(t.symbols))
    BY <2>1, <2>2, <2>3 DEF PopsScopes
  <2> QED
    BY <2>4 DEF t, r
<1> QED
  BY <1>2, <1>5, <1>6

(* What the steps below start from.                                        *)
LEMMA PlaceHere ==
    ASSUME WellFormed, ScopesInPlace
    PROVE  /\ symbols \in Seq(Symbol) /\ Len(symbols) \in Nat
           /\ bases \in Seq(Nat) /\ failed \in Nat /\ Len(bases) \in Nat
           /\ open \in Seq(Construct) /\ Len(open) \in Nat
           /\ DOMAIN open = 1 .. Len(open)
           /\ Len(bases) + failed = 1 + Len(open) + FunctionsIn(open)
           /\ FunctionsIn(open) \in Nat
           /\ \A i \in 1 .. Len(open) :
                  open[i].outer \in Nat /\ open[i].outer <= Len(symbols)
<1>1. /\ TypeOK /\ symbols \in Seq(Symbol) /\ bases \in Seq(Nat) /\ failed \in Nat
      /\ open \in Seq(Construct)
  BY DEF WellFormed, TypeOK
<1>2. /\ Len(symbols) \in Nat /\ Len(bases) \in Nat /\ Len(open) \in Nat
      /\ DOMAIN open = 1 .. Len(open)
  BY <1>1
<1>3. FunctionsIn(open) \in Nat
  BY <1>1, FunctionsAreCounted, Zenon
<1>4. Len(bases) + failed = 1 + Len(open) + FunctionsIn(open)
  <2>1. Depth(Scopes) = Len(bases) + failed
    BY <1>1, ScopesType
  <2> QED
    BY <2>1, DepthHere
<1>5. \A i \in 1 .. Len(open) :
          open[i].outer \in Nat /\ open[i].outer <= Len(symbols)
  BY <1>1, OpenElements DEF ScopesInPlace, InPlace, ConstructInPlace
<1> QED
  BY <1>1, <1>2, <1>3, <1>4, <1>5

LEMMA PlaceNext ==
    ASSUME WellFormed'
    PROVE  /\ symbols' \in Seq(Symbol) /\ Len(symbols') \in Nat
           /\ bases' \in Seq(Nat) /\ failed' \in Nat /\ Len(bases') \in Nat
           /\ open' \in Seq(Construct)
           /\ Len(bases') + failed' = 1 + Len(open') + FunctionsIn(open')
<1>1. /\ symbols' \in Seq(Symbol) /\ bases' \in Seq(Nat) /\ failed' \in Nat
      /\ open' \in Seq(Construct)
  BY DEF WellFormed, TypeOK
<1>2. Len(symbols') \in Nat /\ Len(bases') \in Nat
  BY <1>1
<1>3. PushesAreCounted'
  BY DEF WellFormed
<1>4. Len(bases') + failed' = 1 + Len(open') + FunctionsIn(open')
  BY <1>3 DEF PushesAreCounted, Depth, Scopes, FunctionsIn
<1> QED
  BY <1>1, <1>2, <1>4

LEMMA ScopesInPlaceThen ==
    ASSUME NEW d, InPlace(d, bases', failed', Len(symbols'), open')
    PROVE  ScopesInPlace'
<1>1. \E e : InPlace(e, bases', failed', Len(symbols'), open')
  OBVIOUS
<1> QED
  BY <1>1 DEF ScopesInPlace, InPlace, DepthsOf, ConstructInPlace, NoneLost, Own

LEMMA StaysInScope ==
    ASSUME NEW n \in Nat, NEW m \in Nat, n <= m,
           Len(symbols') \in Nat, m <= Len(symbols'),
           \A p \in 1 .. m : symbols'[p].id = symbols[p].id
    PROVE  StillInScope(n)
<1>1. n <= Len(symbols') /\ \A p \in 1 .. n : p \in 1 .. m
  OBVIOUS
<1> QED
  BY <1>1 DEF StillInScope

(* A statement that leaves the constructs and the scopes alone.            *)
LEMMA PlaceStatement ==
    ASSUME WellFormed, ScopesInPlace, WellFormed',
           bases' = bases, failed' = failed, open' = open \/ open' = Returning(open),
           Len(symbols) <= Len(symbols'),
           \A p \in 1 .. Len(symbols) : symbols'[p].id = symbols[p].id
    PROVE  ScopesInPlace' /\ KeepsVariables
<1>1. PICK d : InPlace(d, bases, failed, Len(symbols), open)
  BY DEF ScopesInPlace
<1>2. InPlace(d, bases, failed, Len(symbols'), open')
  BY <1>1, PlaceHere, PlaceNext, InPlaceStill
<1>3. ScopesInPlace'
  BY <1>2, ScopesInPlaceThen
<1>4. /\ Len(open') = Len(open) /\ Len(open) \in Nat
      /\ \A i \in 1 .. Len(open) : open'[i].kind = open[i].kind
  BY PlaceHere, MaybeReturning
<1>5. ~Ends
  <2> SUFFICES ASSUME open # <<>>, Head(open').kind # Head(open).kind
               PROVE  FALSE
    BY <1>4 DEF Ends
  <2>1. open \in Seq(Construct) /\ open' \in Seq(Construct)
    BY PlaceHere, PlaceNext
  <2>2. Head(open) = open[1] /\ Len(open) >= 1
    BY <2>1, TailProperties
  <2>3. Head(open') = open'[1]
    BY <1>4, <2>1, <2>2, HeadTailProperties, EmptySeq
  <2> QED
    BY <1>4, <2>2, <2>3
<1>6. \A i \in DOMAIN open : StillInScope(open[i].outer)
  <2>1. ASSUME NEW i \in 1 .. Len(open) PROVE StillInScope(open[i].outer)
    <3>1. open[i].outer \in Nat /\ open[i].outer <= Len(symbols)
      BY PlaceHere
    <3>2. Len(symbols) \in Nat /\ Len(symbols') \in Nat
      BY PlaceHere, PlaceNext
    <3> QED
      BY <3>1, <3>2, StaysInScope
  <2> QED
    BY <2>1, PlaceHere
<1> QED
  BY <1>3, <1>5, <1>6 DEF KeepsVariables

(* A construct begins.                                                     *)
LEMMA PlaceOpening ==
    ASSUME WellFormed, ScopesInPlace, WellFormed', NEW c \in Construct,
           open' = <<c>> \o open, c.outer = Len(symbols), ScopesAdded(~c.lost)
    PROVE  ScopesInPlace' /\ KeepsVariables
<1>1. PICK d : InPlace(d, bases, failed, Len(symbols), open)
  BY DEF ScopesInPlace
<1>2. /\ Len(open') = Len(open) + 1
      /\ FunctionsIn(open') = FunctionsIn(open) + (IF c.kind = "function" THEN 1 ELSE 0)
  BY PlaceHere, ConsProperties, FunctionsOfCons
<1>3. Len(bases') + failed' = Len(bases) + failed + Own(c)
  <2>1. /\ Len(bases') + failed' = 1 + Len(open') + FunctionsIn(open')
        /\ Len(bases) + failed = 1 + Len(open) + FunctionsIn(open)
        /\ FunctionsIn(open) \in Nat /\ Len(open) \in Nat
    BY PlaceHere, PlaceNext
  <2>2. CASE c.kind = "function"
    <3>1. Own(c) = 2
      BY <2>2 DEF Own
    <3> QED
      BY <1>2, <2>1, <2>2, <3>1
  <2>3. CASE c.kind # "function"
    <3>1. Own(c) = 1
      BY <2>3 DEF Own
    <3> QED
      BY <1>2, <2>1, <2>3, <3>1
  <2> QED
    BY <2>2, <2>3
<1>4. /\ Len(symbols) <= Len(symbols') /\ Len(bases) <= Len(bases')
      /\ \A p \in 1 .. Len(symbols) : symbols'[p] = symbols[p]
      /\ \A p \in 1 .. Len(bases) : bases'[p] = bases[p]
      /\ \A p \in Len(bases) + 1 .. Len(bases') : Len(symbols) <= bases'[p]
      /\ ~c.lost => failed' = failed /\ bases'[Len(bases) + 1] = Len(symbols)
  BY DEF ScopesAdded
<1>5. \E e : InPlace(e, bases', failed', Len(symbols'), open')
  <2> DEFINE b == bases
             f == failed
             n == Len(symbols)
             o == open
             a == bases'
             g == failed'
             m == Len(symbols')
  <2>1. /\ b \in Seq(Nat) /\ f \in Nat /\ n \in Nat /\ o \in Seq(Construct)
        /\ a \in Seq(Nat) /\ g \in Nat /\ m \in Nat
    BY PlaceHere, PlaceNext
  <2>2. /\ InPlace(d, b, f, n, o) /\ c.outer = n /\ n <= m
        /\ Len(a) + g = Len(b) + f + Own(c) /\ Len(b) <= Len(a)
        /\ \A p \in 1 .. Len(b) : a[p] = b[p]
        /\ \A p \in Len(b) + 1 .. Len(a) : n <= a[p]
        /\ ~c.lost => g = f /\ a[Len(b) + 1] = n
    BY <1>1, <1>3, <1>4
  <2> HIDE DEF b, f, n, o, a, g, m
  <2>3. \E e : InPlace(e, a, g, m, <<c>> \o o)
    BY <2>1, <2>2, InPlaceOpened
  <2> QED
    BY <2>3 DEF a, g, m, o
<1>6. ScopesInPlace'
  BY <1>5, ScopesInPlaceThen
<1>7. ~Ends
  <2>1. Len(open) \in Nat
    BY PlaceHere
  <2> QED
    BY <1>2, <2>1 DEF Ends
<1>8. \A i \in DOMAIN open : StillInScope(open[i].outer)
  <2>1. ASSUME NEW i \in 1 .. Len(open) PROVE StillInScope(open[i].outer)
    <3>1. open[i].outer \in Nat /\ open[i].outer <= Len(symbols)
      BY PlaceHere
    <3>2. Len(symbols) \in Nat /\ Len(symbols') \in Nat
      BY PlaceHere, PlaceNext
    <3>3. \A p \in 1 .. Len(symbols) : symbols'[p].id = symbols[p].id
      BY <1>4
    <3> QED
      BY <1>4, <3>1, <3>2, <3>3, StaysInScope
  <2> QED
    BY <2>1, PlaceHere
<1> QED
  BY <1>6, <1>7, <1>8 DEF KeepsVariables

(* What the scopes s that a construct leaves say of the variables.         *)
LeftBy(s) ==
    /\ s \in ScopeStack
    /\ Len(s.bases) + s.failed = Len(bases) + failed - Own(Head(open))
    /\ \/ PopsFailed(bases, failed, Len(symbols),
                     s.bases, s.failed, Len(s.symbols), Own(Head(open)))
       \/ PopsScopes(bases, s.bases, s.failed, Len(s.symbols))
    /\ \A p \in 1 .. Len(s.symbols) :
           p \in 1 .. Len(symbols) /\ s.symbols[p] = symbols[p]

LEMMA LeftByPops ==
    ASSUME WellFormed, ScopesInPlace, open # <<>>, NEW s, LeftBy(s),
           NEW d, InPlace(d, bases, failed, Len(symbols), open)
    PROVE  /\ \E e : InPlace(e, s.bases, s.failed, Len(s.symbols), Tail(open))
           /\ \A i \in 1 .. Len(open) : open[i].outer <= Len(s.symbols)
           /\ NoneLost(open, 1) => Len(s.symbols) = Head(open).outer
<1> DEFINE b == bases
           f == failed
           n == Len(symbols)
           o == open
           a == s.bases
           g == s.failed
           m == Len(s.symbols)
<1>1. a \in Seq(Nat) /\ g \in Nat /\ m \in Nat
  BY DEF LeftBy, ScopeStack
<1>2. /\ b \in Seq(Nat) /\ f \in Nat /\ n \in Nat /\ o \in Seq(Construct) /\ o # <<>>
      /\ InPlace(d, b, f, n, o)
  BY PlaceHere
<1>3. Head(open) = o[1]
  BY <1>2, TailProperties
<1>4. /\ Len(a) + g = Len(b) + f - Own(o[1])
      /\ PopsFailed(b, f, n, a, g, m, Own(o[1])) \/ PopsScopes(b, a, g, m)
  BY <1>3 DEF LeftBy
<1> HIDE DEF b, f, n, o, a, g, m
<1>5. /\ \E e : InPlace(e, a, g, m, Tail(o))
      /\ \A i \in 1 .. Len(o) : o[i].outer <= m
      /\ NoneLost(o, 1) => m = o[1].outer
  <2>1. CASE PopsFailed(b, f, n, a, g, m, Own(o[1]))
    BY <1>1, <1>2, <1>4, <2>1, InPlaceClosed
  <2>2. CASE PopsScopes(b, a, g, m)
    BY <1>1, <1>2, <1>4, <2>2, InPlaceClosed
  <2> QED
    BY <1>4, <2>1, <2>2
<1> QED
  BY <1>3, <1>5 DEF a, g, m, o

(* The innermost construct, or its then branch, ends with the variables of *)
(* s: all that are to stay do, and no other where nothing was lost.        *)
LEMMA KeepsVariablesThen ==
    ASSUME WellFormed, ScopesInPlace, WellFormed', open # <<>>, NEW s, LeftBy(s),
           Len(symbols') = Len(s.symbols),
           \A p \in 1 .. Len(s.symbols) : symbols'[p].id = s.symbols[p].id
    PROVE  KeepsVariables
<1>1. PICK d : InPlace(d, bases, failed, Len(symbols), open)
  BY DEF ScopesInPlace
<1>2. /\ \A i \in 1 .. Len(open) : open[i].outer <= Len(s.symbols)
      /\ NoneLost(open, 1) => Len(s.symbols) = Head(open).outer
  BY <1>1, LeftByPops
<1>3. \A p \in 1 .. Len(s.symbols) : symbols'[p].id = symbols[p].id
  BY DEF LeftBy
<1>4. \A i \in DOMAIN open : StillInScope(open[i].outer)
  <2>1. ASSUME NEW i \in 1 .. Len(open) PROVE StillInScope(open[i].outer)
    <3>1. open[i].outer \in Nat /\ open[i].outer <= Len(s.symbols)
      BY <1>2, PlaceHere
    <3>2. Len(s.symbols) \in Nat
      BY PlaceNext
    <3> QED
      BY <1>3, <3>1, <3>2, StaysInScope
  <2> QED
    BY <2>1, PlaceHere
<1>5. (\A i \in DOMAIN open : ~open[i].lost) => NoneLost(open, 1)
  BY PlaceHere DEF NoneLost
<1> QED
  BY <1>2, <1>4, <1>5 DEF KeepsVariables

LEMMA PlaceClosing ==
    ASSUME WellFormed, ScopesInPlace, WellFormed', open # <<>>, NEW s, LeftBy(s),
           bases' = s.bases, failed' = s.failed, Len(symbols') = Len(s.symbols),
           \A p \in 1 .. Len(s.symbols) : symbols'[p].id = s.symbols[p].id,
           open' = Tail(open) \/ open' = Returning(Tail(open))
    PROVE  ScopesInPlace' /\ KeepsVariables
<1>1. PICK d : InPlace(d, bases, failed, Len(symbols), open)
  BY DEF ScopesInPlace
<1>2. PICK e : InPlace(e, s.bases, s.failed, Len(s.symbols), Tail(open))
  BY <1>1, LeftByPops
<1>3. InPlace(e, bases', failed', Len(symbols'), open')
  <2> DEFINE o == Tail(open)
             b == bases'
             f == failed'
             n == Len(symbols')
             q == open'
  <2>1. /\ b \in Seq(Nat) /\ f \in Nat /\ n \in Nat /\ o \in Seq(Construct)
        /\ n <= n
    BY PlaceHere, PlaceNext, TailProperties
  <2>2. InPlace(e, b, f, n, o) /\ (q = o \/ q = Returning(o))
    BY <1>2
  <2> HIDE DEF o, b, f, n, q
  <2>3. InPlace(e, b, f, n, q)
    BY <2>1, <2>2, InPlaceStill
  <2> QED
    BY <2>3 DEF b, f, n, q
<1>4. ScopesInPlace'
  BY <1>3, ScopesInPlaceThen
<1> QED
  BY <1>4, KeepsVariablesThen

LEMMA LeftByPopped ==
    ASSUME WellFormed, open # <<>>, Head(open).kind # "function"
    PROVE  LeftBy(Popped(Scopes))
<1> DEFINE s == Popped(Scopes)
<1>1. /\ Scopes \in ScopeStack /\ Nested(Scopes) /\ Depth(Scopes) \in Nat
      /\ Scopes.symbols = symbols /\ Scopes.bases = bases /\ Scopes.failed = failed
      /\ Depth(Scopes) = Len(bases) + failed
  BY ScopesType DEF WellFormed
<1>2. Depth(Scopes) >= 1
  <2>1. Depth(Scopes) >= 2
    BY DepthHere
  <2> QED
    BY <1>1, <2>1
<1>3. /\ s \in ScopeStack /\ Depth(s) = Depth(Scopes) - 1
      /\ \A i \in DOMAIN s.symbols : i \in DOMAIN symbols /\ s.symbols[i] = symbols[i]
      /\ \/ PopsFailed(bases, failed, Len(symbols), s.bases, s.failed, Len(s.symbols), 1)
         \/ PopsScopes(bases, s.bases, s.failed, Len(s.symbols))
  BY <1>1, <1>2, PoppedProperties, PoppedPlace
<1> HIDE DEF s
<1>4. DOMAIN s.symbols = 1 .. Len(s.symbols) /\ DOMAIN symbols = 1 .. Len(symbols)
  BY <1>1, <1>3 DEF ScopeStack
<1>5. Own(Head(open)) = 1
  BY DEF Own
<1>6. Len(s.bases) + s.failed = Len(bases) + failed - Own(Head(open))
  <2>1. Depth(s) = Len(s.bases) + s.failed
    BY DEF Depth
  <2> DEFINE x == Depth(Scopes)
             z == Depth(s)
  <2>2. Len(bases) \in Nat /\ failed \in Nat
    BY ScopesType DEF WellFormed
  <2>3. x = Len(bases) + failed /\ z = x - 1
    BY <1>1, <1>3
  <2> HIDE DEF x, z
  <2>4. z = Len(bases) + failed - 1
    BY <2>2, <2>3
  <2> QED
    BY <1>5, <2>1, <2>4 DEF z
<1>7. LeftBy(s)
  BY <1>3, <1>4, <1>5, <1>6 DEF LeftBy
<1> QED
  BY <1>7 DEF s

LEMMA LeftByPoppedTwice ==
    ASSUME WellFormed, open # <<>>, Head(open).kind = "function"
    PROVE  LeftBy(Popped(Popped(Scopes)))
<1> DEFINE r == Popped(Scopes)
           s == Popped(r)
<1>1. /\ Scopes \in ScopeStack /\ Nested(Scopes) /\ Depth(Scopes) \in Nat
      /\ Scopes.symbols = symbols /\ Scopes.bases = bases /\ Scopes.failed = failed
      /\ Depth(Scopes) = Len(bases) + failed
  BY ScopesType DEF WellFormed
<1>2. Depth(Scopes) >= 1 /\ Depth(Scopes) >= 2
  <2>1. Depth(Scopes) >= 2
    BY DepthHere
  <2> QED
    BY <1>1, <2>1
<1>3. /\ r \in ScopeStack /\ Nested(r) /\ Depth(r) = Depth(Scopes) - 1
      /\ \A i \in DOMAIN r.symbols : i \in DOMAIN symbols /\ r.symbols[i] = symbols[i]
  BY <1>1, <1>2, PoppedProperties
<1>4. \/ PopsFailed(bases, failed, Len(symbols), s.bases, s.failed, Len(s.symbols), 2)
      \/ PopsScopes(bases, s.bases, s.failed, Len(s.symbols))
  BY <1>1, <1>2, PoppedTwicePlace
<1> HIDE DEF r
<1>5. /\ s \in ScopeStack /\ Depth(s) = Depth(r) - 1
      /\ \A i \in DOMAIN s.symbols : i \in DOMAIN r.symbols /\ s.symbols[i] = r.symbols[i]
  <2>1. Depth(r) >= 1
    BY <1>1, <1>2, <1>3
  <2> QED
    BY <1>3, <2>1, PoppedProperties
<1> HIDE DEF s
<1>6. DOMAIN s.symbols = 1 .. Len(s.symbols) /\ DOMAIN symbols = 1 .. Len(symbols)
  BY <1>1, <1>5 DEF ScopeStack
<1>7. \A p \in 1 .. Len(s.symbols) : p \in 1 .. Len(symbols) /\ s.symbols[p] = symbols[p]
  BY <1>3, <1>5, <1>6
<1>8. Own(Head(open)) = 2
  BY DEF Own
<1>9. Len(s.bases) + s.failed = Len(bases) + failed - Own(Head(open))
  <2>1. Depth(s) = Len(s.bases) + s.failed
    BY DEF Depth
  <2> DEFINE x == Depth(Scopes)
             y == Depth(r)
             z == Depth(s)
  <2>2. x \in Nat /\ y = x - 1 /\ z = y - 1 /\ x = Len(bases) + failed
    BY <1>1, <1>3, <1>5
  <2>3. Len(bases) \in Nat /\ failed \in Nat
    BY ScopesType DEF WellFormed
  <2> HIDE DEF x, y, z
  <2>4. z = Len(bases) + failed - 2
    BY <2>2, <2>3
  <2> QED
    BY <1>8, <2>1, <2>4 DEF z
<1>10. LeftBy(s)
  BY <1>4, <1>5, <1>7, <1>8, <1>9 DEF LeftBy
<1> QED
  BY <1>10 DEF s, r

(* Only `initialized' differs.                                             *)
SameVariables(t, s) ==
    /\ Len(t) = Len(s)
    /\ \A p \in 1 .. Len(s) : t[p].id = s[p].id

LEMMA RestoredAreTheSame ==
    ASSUME NEW s \in Seq(Symbol), NEW flags \in Seq(BOOLEAN)
    PROVE  Restored(s, flags) \in Seq(Symbol) /\ SameVariables(Restored(s, flags), s)
BY RestoredProperties DEF SameVariables

(* A block, a branch or a loop ends, its flow state restored.              *)
LEMMA PlaceCloses ==
    ASSUME WellFormed, ScopesInPlace, WellFormed', open # <<>>,
           Head(open).kind # "function", NEW t, Closes(t),
           SameVariables(t.symbols, Popped(Scopes).symbols),
           open' = Tail(open) \/ open' = Returning(Tail(open))
    PROVE  ScopesInPlace' /\ KeepsVariables
<1> DEFINE s == Popped(Scopes)
<1>1. LeftBy(s)
  BY LeftByPopped
<1>2. /\ t \in ScopeStack /\ ScopesBecome(t)
      /\ t.bases = s.bases /\ t.failed = s.failed
      /\ SameVariables(t.symbols, s.symbols)
  BY DEF Closes
<1> HIDE DEF s
<1>3. /\ Len(t.symbols) = Len(s.symbols)
      /\ \A p \in 1 .. Len(s.symbols) : t.symbols[p].id = s.symbols[p].id
  BY <1>2 DEF SameVariables
<1>4. symbols' = t.symbols /\ bases' = t.bases /\ failed' = t.failed
  BY <1>2 DEF ScopesBecome
<1> QED
  BY <1>1, <1>2, <1>3, <1>4, PlaceClosing

LEMMA PlaceElse ==
    ASSUME WellFormed, ScopesInPlace, WellFormed', Else
    PROVE  ScopesInPlace' /\ KeepsVariables
<1> DEFINE c == Head(open)
           s == Popped(Scopes)
           t == [s EXCEPT !.symbols = Restored(s.symbols, c.before)]
<1>1. open # <<>> /\ c.kind = "then" /\ symbols' = t.symbols
  BY ElseEffect
<1>2. PICK ok \in BOOLEAN, d \in Construct :
          /\ bases' = IF ok THEN Append(t.bases, Len(t.symbols)) ELSE t.bases
          /\ failed' = IF ok THEN t.failed ELSE t.failed + 1
          /\ open' = <<d>> \o Tail(open) /\ d.kind = "else"
          /\ d.outer = Len(t.symbols) /\ d.lost = ~ok
  BY ElseEffect
<1>3. LeftBy(s) /\ c.before \in Seq(BOOLEAN) /\ Nested(s)
  BY <1>1, LeftByPopped, InnermostProperties
<1> HIDE DEF c, s
<1>4. s \in ScopeStack /\ s.symbols \in Seq(Symbol)
  BY <1>3 DEF LeftBy, ScopeStack
<1>5. /\ t \in ScopeStack /\ t.bases = s.bases /\ t.failed = s.failed
      /\ t.symbols = Restored(s.symbols, c.before)
  BY <1>3, <1>4, RestoredStack
<1> HIDE DEF t
<1>6. /\ Len(t.symbols) = Len(s.symbols)
      /\ \A p \in 1 .. Len(s.symbols) : t.symbols[p].id = s.symbols[p].id
  BY <1>3, <1>4, <1>5, RestoredProperties
<1>7. KeepsVariables
  BY <1>1, <1>3, <1>6, KeepsVariablesThen
<1>8. PICK x : InPlace(x, bases, failed, Len(symbols), open)
  BY DEF ScopesInPlace
<1>9. PICK y : InPlace(y, t.bases, t.failed, Len(t.symbols), Tail(open))
  BY <1>1, <1>3, <1>5, <1>6, <1>8, LeftByPops
<1>10. \E e : InPlace(e, bases', failed', Len(symbols'), open')
  <2> DEFINE b == t.bases
             f == t.failed
             n == Len(t.symbols)
             o == Tail(open)
             a == bases'
             g == failed'
             m == Len(symbols')
  <2>1. /\ b \in Seq(Nat) /\ f \in Nat /\ n \in Nat /\ m = n
        /\ a \in Seq(Nat) /\ g \in Nat /\ m \in Nat
    BY <1>1, <1>5, PlaceNext DEF ScopeStack
  <2>2. o \in Seq(Construct)
    BY <1>1, PlaceHere, TailProperties
  <2>3. /\ InPlace(y, b, f, n, o) /\ d.outer = n /\ d.lost = ~ok
        /\ a = IF ok THEN Append(b, n) ELSE b
        /\ g = IF ok THEN f ELSE f + 1
        /\ open' = <<d>> \o o
    BY <1>2, <1>9
  <2>4. Own(d) = 1
    BY <1>2 DEF Own
  <2> HIDE DEF b, f, n, o, a, g, m
  <2>5. /\ Len(a) = Len(b) + (IF ok THEN 1 ELSE 0)
        /\ \A p \in 1 .. Len(b) : a[p] = b[p]
        /\ ok => a[Len(b) + 1] = n
        /\ Len(b) \in Nat /\ Len(a) \in Nat
    BY <2>1, <2>3, MaybeAppended
  <2>6. Len(a) + g = Len(b) + f + Own(d) /\ Len(b) <= Len(a)
    BY <2>1, <2>3, <2>4, <2>5
  <2>7. \A p \in Len(b) + 1 .. Len(a) : n <= a[p]
    <3>1. ASSUME NEW p \in Len(b) + 1 .. Len(a) PROVE ok /\ p = Len(b) + 1
      BY <2>5, <3>1
    <3> QED
      BY <2>1, <2>5, <3>1
  <2>8. ~d.lost => g = f /\ a[Len(b) + 1] = n
    BY <2>3, <2>5
  <2>9. /\ n <= m /\ InPlace(y, b, f, n, o) /\ d \in Construct /\ d.outer = n
        /\ b \in Seq(Nat) /\ f \in Nat /\ n \in Nat
        /\ a \in Seq(Nat) /\ g \in Nat /\ m \in Nat
        /\ \A p \in 1 .. Len(b) : a[p] = b[p]
    BY <1>2, <2>1, <2>3, <2>5
  <2>10. \E e : InPlace(e, a, g, m, <<d>> \o o)
    BY <2>2, <2>6, <2>7, <2>8, <2>9, InPlaceOpened
  <2> QED
    BY <2>3, <2>10 DEF a, g, m
<1>11. ScopesInPlace'
  BY <1>10, ScopesInPlaceThen
<1> QED
  BY <1>7, <1>11

LEMMA ScopeAdded ==
    ASSUME TypeOK, NEW ok \in BOOLEAN, PushScope(ok), symbols' = symbols
    PROVE  ScopesAdded(ok)
<1>1. /\ bases \in Seq(Nat) /\ Len(symbols) \in Nat /\ Len(bases) \in Nat
      /\ bases' = IF ok THEN Append(bases, Len(symbols)) ELSE bases
      /\ ok => failed' = failed
  BY DEF TypeOK, PushScope
<1>2. /\ Len(bases') = Len(bases) + (IF ok THEN 1 ELSE 0)
      /\ \A p \in 1 .. Len(bases) : bases'[p] = bases[p]
      /\ ok => bases'[Len(bases) + 1] = Len(symbols)
  BY <1>1, MaybeAppended
<1>3. Len(bases) <= Len(bases') /\ Len(symbols) <= Len(symbols')
  BY <1>1, <1>2
<1>4. ASSUME NEW p \in Len(bases) + 1 .. Len(bases') PROVE Len(symbols) <= bases'[p]
  <2>1. ok /\ p = Len(bases) + 1
    BY <1>1, <1>2, <1>4
  <2> QED
    BY <1>1, <1>2, <2>1
<1> QED
  BY <1>1, <1>2, <1>3, <1>4 DEF ScopesAdded

LEMMA PlaceGivenUp ==
    ASSUME WellFormed, ScopesInPlace, WellFormed', GivenUp
    PROVE  ScopesInPlace' /\ KeepsVariables
<1>1. UNCHANGED <<symbols, bases, failed, open>> /\ Len(symbols) \in Nat
  BY PlaceHere DEF GivenUp
<1> QED
  BY <1>1, PlaceStatement

LEMMA PlaceOpensSaving ==
    ASSUME WellFormed, ScopesInPlace, WellFormed',
           NEW kind \in {"then", "while"}, NEW into \in BOOLEAN, OpensSaving(kind, into)
    PROVE  ScopesInPlace' /\ KeepsVariables
<1>1. TypeOK /\ symbols' = symbols
  BY DEF WellFormed, OpensSaving
<1>2. PICK ok \in Pushes, c \in Construct :
          /\ PushScope(ok) /\ open' = <<c>> \o open
          /\ c.outer = Len(symbols) /\ c.lost = ~ok
  BY <1>1, OpensSavingEffect
<1>3. ok \in BOOLEAN
  BY <1>2 DEF Pushes
<1>4. ScopesAdded(~c.lost)
  BY <1>1, <1>2, <1>3, ScopeAdded
<1> QED
  BY <1>2, <1>4, PlaceOpening

LEMMA PlaceStep ==
    ASSUME WellFormed, ScopesInPlace, WellFormed', [Next]_vars
    PROVE  ScopesInPlace' /\ (KeepsVariables \/ UNCHANGED vars)
<1>1. /\ TypeOK /\ symbols \in Seq(Symbol) /\ Len(symbols) \in Nat
      /\ open \in Seq(Construct)
  BY PlaceHere DEF WellFormed
<1>2. ASSUME NEW n \in Names, NEW mutable \in BOOLEAN,
             NEW e \in Expressions \cup {NoValue}, Declare(n, mutable, e)
      PROVE  ScopesInPlace' /\ KeepsVariables
  <2>1. /\ UNCHANGED <<bases, failed, open>>
        /\ \/ symbols' = symbols
           \/ \E new \in Symbol : symbols' = Append(symbols, new)
    BY <1>1, <1>2, DeclareEffect
  <2>2. /\ Len(symbols) <= Len(symbols')
        /\ \A p \in 1 .. Len(symbols) : symbols'[p] = symbols[p]
    BY <1>1, <2>1, AppendProperties
  <2> QED
    BY <2>1, <2>2, PlaceStatement
<1>3. ASSUME NEW n \in Names, NEW e \in Expressions, Assign(n, e)
      PROVE  ScopesInPlace' /\ KeepsVariables
  <2>1. /\ UNCHANGED <<bases, failed, open>>
        /\ Len(symbols') = Len(symbols)
        /\ \A p \in 1 .. Len(symbols) : symbols'[p].id = symbols[p].id
    BY <1>1, <1>3, AssignEffect
  <2>2. Len(symbols) <= Len(symbols')
    BY <1>1, <2>1
  <2> QED
    BY <2>1, <2>2, PlaceStatement
<1>4. ASSUME NEW e \in Expressions \cup {NoValue}, Return(e)
      PROVE  ScopesInPlace' /\ KeepsVariables
  <2>1. UNCHANGED <<symbols, bases, failed>> /\ open' = Returning(open)
    BY <1>1, <1>4, ReturnEffect
  <2>2. Len(symbols) <= Len(symbols')
    BY <1>1, <2>1
  <2> QED
    BY <2>1, <2>2, PlaceStatement
<1>5. CASE OpenBlock
  <2>1. symbols' = symbols
    BY <1>5 DEF OpenBlock
  <2>2. PICK ok \in Pushes, c \in Construct :
            /\ PushScope(ok) /\ open' = <<c>> \o open
            /\ c.outer = Len(symbols) /\ c.lost = ~ok
    BY <1>1, <1>5, OpenBlockEffect
  <2>3. ok \in BOOLEAN
    BY <2>2 DEF Pushes
  <2>4. ScopesAdded(~c.lost)
    BY <1>1, <2>1, <2>2, <2>3, ScopeAdded
  <2> QED
    BY <2>2, <2>4, PlaceOpening
<1>6. CASE CloseBlock
  <2>1. /\ open # <<>> /\ Head(open).kind # "function"
        /\ Closes(Popped(Scopes))
        /\ open' = Tail(open) \/ open' = Returning(Tail(open))
    BY <1>6, CloseBlockEffect
  <2>2. SameVariables(Popped(Scopes).symbols, Popped(Scopes).symbols)
    BY DEF SameVariables
  <2> QED
    BY <2>1, <2>2, PlaceCloses
<1>7. ASSUME NEW e \in Expressions, NEW taken \in BOOLEAN, OpenIf(e, taken)
      PROVE  ScopesInPlace' /\ KeepsVariables
  BY <1>1, <1>7, OpenIfEffect, PlaceGivenUp, PlaceOpensSaving
<1>8. CASE Else
  BY <1>8, PlaceElse
<1>9. CASE CloseThen
  <2> DEFINE s == Popped(Scopes).symbols
             r == Restored(s, Head(open).before)
  <2>1. /\ open # <<>> /\ Head(open).kind # "function"
        /\ open' = Tail(open)
        /\ \E t : \E afterThen \in Seq(BOOLEAN), afterElse \in Seq(BOOLEAN) :
               Closes(t) /\ t.symbols = Restored(r, Merged(afterThen, afterElse))
    BY <1>9, CloseThenEffect
  <2>2. PICK t : \E afterThen \in Seq(BOOLEAN), afterElse \in Seq(BOOLEAN) :
            Closes(t) /\ t.symbols = Restored(r, Merged(afterThen, afterElse))
    BY <2>1
  <2>3. PICK afterThen \in Seq(BOOLEAN), afterElse \in Seq(BOOLEAN) :
            Closes(t) /\ t.symbols = Restored(r, Merged(afterThen, afterElse))
    BY <2>2
  <2>4. Merged(afterThen, afterElse) \in Seq(BOOLEAN)
    BY <2>3, MergedType
  <2>5. s \in Seq(Symbol) /\ Head(open).before \in Seq(BOOLEAN)
    BY <2>1, InnermostProperties
  <2> HIDE DEF s
  <2>6. r \in Seq(Symbol) /\ SameVariables(r, s)
    BY <2>5, RestoredAreTheSame
  <2> HIDE DEF r
  <2>7. SameVariables(t.symbols, r)
    BY <2>3, <2>4, <2>6, RestoredAreTheSame
  <2>8. SameVariables(t.symbols, s)
    BY <2>6, <2>7 DEF SameVariables
  <2> QED
    BY <2>1, <2>3, <2>8, PlaceCloses DEF s
<1>10. CASE CloseElse
  <2> DEFINE s == Popped(Scopes).symbols
  <2>1. /\ open # <<>> /\ Head(open).kind # "function"
        /\ open' = Tail(open) \/ open' = Returning(Tail(open))
        /\ \E t : \E afterElse \in Seq(BOOLEAN) :
               Closes(t) /\ t.symbols = Restored(s, Merged(Head(open).afterThen, afterElse))
    BY <1>10, CloseElseEffect
  <2>2. PICK t : \E afterElse \in Seq(BOOLEAN) :
            Closes(t) /\ t.symbols = Restored(s, Merged(Head(open).afterThen, afterElse))
    BY <2>1
  <2>3. PICK afterElse \in Seq(BOOLEAN) :
            Closes(t) /\ t.symbols = Restored(s, Merged(Head(open).afterThen, afterElse))
    BY <2>2
  <2>4. s \in Seq(Symbol) /\ Head(open).afterThen \in Seq(BOOLEAN)
    BY <2>1, InnermostProperties
  <2>5. Merged(Head(open).afterThen, afterElse) \in Seq(BOOLEAN)
    BY <2>3, <2>4, MergedType
  <2> HIDE DEF s
  <2>6. SameVariables(t.symbols, s)
    BY <2>3, <2>4, <2>5, RestoredAreTheSame
  <2> QED
    BY <2>1, <2>3, <2>6, PlaceCloses DEF s
<1>11. ASSUME NEW e \in Expressions, NEW entered \in BOOLEAN, OpenWhile(e, entered)
       PROVE  ScopesInPlace' /\ KeepsVariables
  BY <1>1, <1>11, OpenWhileEffect, PlaceGivenUp, PlaceOpensSaving
<1>12. CASE CloseWhile
  <2> DEFINE s == Popped(Scopes).symbols
  <2>1. /\ open # <<>> /\ Head(open).kind # "function"
        /\ open' = Tail(open)
        /\ \E t : Closes(t) /\ t.symbols = Restored(s, Head(open).before)
    BY <1>12, CloseWhileEffect
  <2>2. PICK t : Closes(t) /\ t.symbols = Restored(s, Head(open).before)
    BY <2>1
  <2>3. s \in Seq(Symbol) /\ Head(open).before \in Seq(BOOLEAN)
    BY <2>1, InnermostProperties
  <2> HIDE DEF s
  <2>4. SameVariables(t.symbols, s)
    BY <2>2, <2>3, RestoredAreTheSame
  <2> QED
    BY <2>1, <2>2, <2>4, PlaceCloses DEF s
<1>13. ASSUME NEW params \in SUBSET Names, NEW valued \in BOOLEAN,
              OpenFunction(params, valued)
       PROVE  ScopesInPlace' /\ KeepsVariables
  <2>1. PICK ok \in BOOLEAN :
            open' = <<FunctionConstruct(params, valued, ok)>> \o open /\ ScopesAdded(ok)
    BY <1>13, OpenFunctionEffect
  <2> DEFINE c == FunctionConstruct(params, valued, ok)
  <2>2. c \in Construct /\ c.outer = Len(symbols) /\ c.lost = ~ok
    BY <1>1, FunctionConstructType
  <2> HIDE DEF c
  <2>3. open' = <<c>> \o open /\ ScopesAdded(~c.lost)
    BY <2>1, <2>2 DEF c
  <2> QED
    BY <2>2, <2>3, PlaceOpening
<1>14. CASE CloseFunction
  <2> DEFINE s == Popped(Popped(Scopes))
  <2>1. /\ open # <<>> /\ Head(open).kind = "function"
        /\ ScopesBecome(s) /\ open' = Tail(open)
    BY <1>14, CloseFunctionEffect
  <2>2. LeftBy(s)
    BY <2>1, LeftByPoppedTwice
  <2>3. symbols' = s.symbols /\ bases' = s.bases /\ failed' = s.failed
    BY <2>1 DEF ScopesBecome
  <2> HIDE DEF s
  <2> QED
    BY <2>1, <2>2, <2>3, PlaceClosing
<1>15. CASE UNCHANGED vars
  <2>1. UNCHANGED <<symbols, bases, failed, open>>
    BY <1>15 DEF vars, scopeVars
  <2>2. ScopesInPlace'
    BY <2>1, PlaceStatement, <1>1
  <2> QED
    BY <1>15, <2>2
<1> QED
  BY <1>2, <1>3, <1>4, <1>5, <1>6, <1>7, <1>8, <1>9, <1>10, <1>11, <1>12, <1>13, <1>14,
     <1>15 DEF Next, EndOfProgram

LEMMA PlaceInit ==
    ASSUME Init
    PROVE  ScopesInPlace
<1> DEFINE d == [i \in 1 .. 1 |-> 1]
<1>1. /\ Len(<<0>>) = 1 /\ Len(<<>>) = 0
      /\ d \in [1 .. 1 -> Nat] /\ d[1] = 1
      /\ \A i \in 1 .. 1 : i = 1
      /\ \A i \in 1 .. 0 : FALSE
  BY EmptySeq
<1>2. bases = <<0>> /\ failed = 0 /\ symbols = <<>> /\ open = <<>>
  BY DEF Init
<1> HIDE DEF d
<1>3. DepthsOf(d, bases, failed, open)
  BY <1>1, <1>2 DEF DepthsOf
<1>4. InPlace(d, bases, failed, Len(symbols), open)
  BY <1>1, <1>2, <1>3 DEF InPlace
<1> QED
  BY <1>4 DEF ScopesInPlace

(* While a construct is open and when it ends, the variables that were in  *)
(* scope when it began are all there and in their places, whichever pushes *)
(* fail and whichever scopes the pops take; and where no push failed for   *)
(* it or for a construct around it, no other variable outlives it.  This   *)
(* holds with nested functions too.                                        *)
THEOREM ScopesKeepTheirVariables == Spec => VariablesKeepTheirScope
<1>1. Init => ScopesInPlace
  BY PlaceInit
<1>2. WellFormed /\ WellFormed' /\ ScopesInPlace /\ [Next]_vars
      => ScopesInPlace' /\ [KeepsVariables]_vars
  BY PlaceStep
<1> QED
  BY <1>1, <1>2, AlwaysWellFormed, PTL DEF Spec, VariablesKeepTheirScope

-----------------------------------------------------------------------------
(* Functions return.                                                       *)

(* A construct that has returned nothing yet is opened in front.           *)
LEMMA ReturnsOpening ==
    ASSUME open \in Seq(Construct), ReturnsEndTheRun,
           NEW c \in Construct, open' = <<c>> \o open,
           ~c.returns, ThenEnded(c), c.otherRuns => running,
           c.kind = "function" \/ (running' => running)
    PROVE  ReturnsEndTheRun'
<1>1. /\ Len(open) \in Nat /\ DOMAIN open = 1 .. Len(open)
      /\ DOMAIN open' = 1 .. Len(open) + 1 /\ open'[1] = c
      /\ \A i \in 2 .. Len(open) + 1 : open'[i] = open[i - 1]
  BY ConsProperties
<1>2. ASSUME NEW i \in DOMAIN open' PROVE ThenEnded(open'[i])
  <2>1. CASE i = 1
    BY <1>1, <2>1
  <2>2. CASE i # 1
    <3>1. i - 1 \in DOMAIN open /\ open'[i] = open[i - 1]
      BY <1>1, <2>2
    <3> QED
      BY <3>1 DEF ReturnsEndTheRun
  <2> QED
    BY <2>1, <2>2
<1>3. ASSUME NEW i \in DOMAIN open', open'[i].returns
      PROVE  /\ NoFunction(open', 1, i - 1) => ~running'
             /\ \A j \in 1 .. i - 1 :
                    NoFunction(open', j + 1, i - 1) => ~open'[j].otherRuns
  <2>1. i # 1 /\ i - 1 \in DOMAIN open /\ open'[i] = open[i - 1]
    BY <1>1, <1>3
  <2>2. open[i - 1].returns
    BY <1>3, <2>1
  <2>3. /\ NoFunction(open, 1, (i - 1) - 1) => ~running
        /\ \A j \in 1 .. (i - 1) - 1 :
               NoFunction(open, j + 1, (i - 1) - 1) => ~open[j].otherRuns
    BY <2>1, <2>2 DEF ReturnsEndTheRun, EndsTheRun
  <2>4. ASSUME NEW first \in 2 .. i, NoFunction(open', first, i - 1)
        PROVE  NoFunction(open, first - 1, (i - 1) - 1)
    <3> SUFFICES ASSUME NEW k \in first - 1 .. (i - 1) - 1
                 PROVE  open[k].kind # "function"
      BY DEF NoFunction
    <3>1. k + 1 \in first .. i - 1 /\ open'[k + 1] = open[k]
      BY <1>1
    <3> QED
      BY <2>4, <3>1 DEF NoFunction
  <2>5. ASSUME NoFunction(open', 1, i - 1) PROVE ~running'
    <3>1. c.kind # "function" /\ 2 \in 2 .. i
      BY <1>1, <2>1, <2>5 DEF NoFunction
    <3>2. NoFunction(open', 2, i - 1)
      BY <1>1, <2>5 DEF NoFunction
    <3>3. NoFunction(open, 1, (i - 1) - 1)
      BY <2>4, <3>1, <3>2
    <3> QED
      BY <2>3, <3>1, <3>3
  <2>6. ASSUME NEW j \in 1 .. i - 1, NoFunction(open', j + 1, i - 1)
        PROVE  ~open'[j].otherRuns
    <3>1. j + 1 \in 2 .. i /\ (j + 1) - 1 = j
      BY <1>1
    <3>2. NoFunction(open, j, (i - 1) - 1)
      BY <2>4, <2>6, <3>1
    <3>3. CASE j = 1
      BY <1>1, <2>3, <3>2, <3>3
    <3>4. CASE j # 1
      <4>1. /\ j - 1 \in 1 .. (i - 1) - 1 /\ (j - 1) + 1 = j
            /\ open'[j] = open[j - 1]
        BY <1>1, <3>4
      <4> QED
        BY <2>3, <3>2, <4>1
    <3> QED
      BY <3>3, <3>4
  <2> QED
    BY <2>5, <2>6
<1> QED
  BY <1>2, <1>3 DEF ReturnsEndTheRun, EndsTheRun

(* The innermost construct is closed, and may make the next one return.    *)
LEMMA ReturnsClosing ==
    ASSUME open \in Seq(Construct), open # <<>>, ReturnsEndTheRun,
           open' = Tail(open) \/ open' = Returning(Tail(open)),
           open' # Tail(open) => ~running',
           \/ running' => Head(open).otherRuns
           \/ Head(open).kind # "function" /\ (running' => running \/ Head(open).otherRuns)
    PROVE  ReturnsEndTheRun'
<1> DEFINE rest == Tail(open)
<1>1. /\ Len(open) \in Nat \ {0} /\ DOMAIN open = 1 .. Len(open)
      /\ rest \in Seq(Construct) /\ Len(rest) = Len(open) - 1
      /\ \A i \in 1 .. Len(open) - 1 : rest[i] = open[i + 1]
      /\ Head(open) = open[1]
  BY TailProperties
<1>2. open' = rest \/ open' = Returning(rest)
  OBVIOUS
<1> HIDE DEF rest
<1>3. /\ DOMAIN open' = 1 .. Len(rest)
      /\ \A i \in 1 .. Len(rest) :
             /\ open'[i].returns => rest[i].returns \/ (i = 1 /\ open' # rest)
             /\ open'[i].kind = rest[i].kind /\ open'[i].otherRuns = rest[i].otherRuns
             /\ open'[i].thenReturns = rest[i].thenReturns
  BY <1>1, <1>2, MaybeReturning
<1>4. ASSUME NEW i \in DOMAIN open'
      PROVE  /\ i + 1 \in DOMAIN open
             /\ open'[i].returns => open[i + 1].returns \/ (i = 1 /\ open' # rest)
             /\ open'[i].kind = open[i + 1].kind
             /\ open'[i].otherRuns = open[i + 1].otherRuns
             /\ open'[i].thenReturns = open[i + 1].thenReturns
  BY <1>1, <1>3
<1>5. ASSUME NEW i \in DOMAIN open' PROVE ThenEnded(open'[i])
  BY <1>4 DEF ReturnsEndTheRun, ThenEnded
<1>6. ASSUME NEW i \in DOMAIN open', open'[i].returns
      PROVE  /\ NoFunction(open', 1, i - 1) => ~running'
             /\ \A j \in 1 .. i - 1 :
                    NoFunction(open', j + 1, i - 1) => ~open'[j].otherRuns
  <2>1. CASE i = 1 /\ open' # rest
    BY <2>1 DEF rest
  <2>2. CASE open[i + 1].returns
    <3>1. /\ NoFunction(open, 1, (i + 1) - 1) => ~running
          /\ \A j \in 1 .. (i + 1) - 1 :
                 NoFunction(open, j + 1, (i + 1) - 1) => ~open[j].otherRuns
      BY <1>4, <2>2 DEF ReturnsEndTheRun, EndsTheRun
    <3>2. i \in Nat \ {0} /\ (i + 1) - 1 = i
      BY <1>3
    <3>3. ASSUME NEW first \in 1 .. i, NoFunction(open', first, i - 1)
          PROVE  NoFunction(open, first + 1, i)
      <4> SUFFICES ASSUME NEW k \in first + 1 .. i
                   PROVE  open[k].kind # "function"
        BY DEF NoFunction
      <4>1. k - 1 \in first .. i - 1 /\ k - 1 \in DOMAIN open' /\ (k - 1) + 1 = k
        BY <1>1, <1>3, <3>2
      <4> QED
        BY <1>4, <3>3, <4>1 DEF NoFunction
    <3>4. ASSUME NoFunction(open', 1, i - 1) PROVE ~running'
      <4>1. NoFunction(open, 2, i)
        BY <3>2, <3>3, <3>4
      <4>2. ~open[1].otherRuns
        BY <3>1, <3>2, <4>1
      <4>3. ASSUME Head(open).kind # "function" PROVE ~running
        <5>1. NoFunction(open, 1, i)
          BY <1>1, <3>2, <4>1, <4>3 DEF NoFunction
        <5> QED
          BY <3>1, <3>2, <5>1
      <4> QED
        BY <1>1, <4>2, <4>3
    <3>5. ASSUME NEW j \in 1 .. i - 1, NoFunction(open', j + 1, i - 1)
          PROVE  ~open'[j].otherRuns
      <4>1. /\ j + 1 \in 1 .. i /\ j \in DOMAIN open'
            /\ (j + 1) + 1 \in Nat /\ j + 1 \in 1 .. (i + 1) - 1
        BY <1>3, <3>2
      <4>2. NoFunction(open, (j + 1) + 1, i)
        BY <3>3, <3>5, <4>1
      <4>3. ~open[j + 1].otherRuns
        BY <3>1, <3>2, <4>1, <4>2
      <4> QED
        BY <1>4, <4>1, <4>3
    <3> QED
      BY <3>4, <3>5
  <2> QED
    BY <1>4, <1>6, <2>1, <2>2
<1> QED
  BY <1>5, <1>6 DEF ReturnsEndTheRun, EndsTheRun

(* The innermost construct goes from its first block to its second.        *)
LEMMA ReturnsReplacing ==
    ASSUME open \in Seq(Construct), open # <<>>, ReturnsEndTheRun,
           NEW d \in Construct, open' = <<d>> \o Tail(open),
           ~d.returns, ThenEnded(d), Head(open).kind # "function",
           d.kind # "function",
           d.otherRuns => running \/ Head(open).otherRuns,
           running' => running \/ Head(open).otherRuns
    PROVE  ReturnsEndTheRun'
<1>1. /\ Len(open) \in Nat \ {0} /\ DOMAIN open = 1 .. Len(open)
      /\ DOMAIN open' = 1 .. Len(open) /\ open'[1] = d
      /\ \A i \in 2 .. Len(open) : open'[i] = open[i]
      /\ Head(open) = open[1]
  <2> DEFINE rest == Tail(open)
  <2>1. /\ Len(open) \in Nat \ {0} /\ DOMAIN open = 1 .. Len(open)
        /\ rest \in Seq(Construct) /\ Len(rest) = Len(open) - 1
        /\ \A i \in 1 .. Len(open) - 1 : rest[i] = open[i + 1]
        /\ Head(open) = open[1]
    BY TailProperties
  <2>2. open' = <<d>> \o rest
    OBVIOUS
  <2> HIDE DEF rest
  <2>3. /\ DOMAIN open' = 1 .. Len(rest) + 1 /\ open'[1] = d
        /\ \A i \in 2 .. Len(rest) + 1 : open'[i] = rest[i - 1]
    BY <2>1, <2>2, ConsProperties
  <2> QED
    BY <2>1, <2>3
<1>2. ASSUME NEW i \in DOMAIN open' PROVE ThenEnded(open'[i])
  <2>1. CASE i = 1
    BY <1>1, <2>1
  <2>2. CASE i # 1
    BY <1>1, <2>2 DEF ReturnsEndTheRun
  <2> QED
    BY <2>1, <2>2
<1>3. ASSUME NEW i \in DOMAIN open', open'[i].returns
      PROVE  /\ NoFunction(open', 1, i - 1) => ~running'
             /\ \A j \in 1 .. i - 1 :
                    NoFunction(open', j + 1, i - 1) => ~open'[j].otherRuns
  <2>1. i \in 2 .. Len(open) /\ open[i].returns
    BY <1>1, <1>3
  <2>2. /\ NoFunction(open, 1, i - 1) => ~running
        /\ \A j \in 1 .. i - 1 : NoFunction(open, j + 1, i - 1) => ~open[j].otherRuns
    BY <1>1, <2>1 DEF ReturnsEndTheRun, EndsTheRun
  <2>3. ASSUME NEW first \in 1 .. i, NoFunction(open', first, i - 1)
        PROVE  NoFunction(open, first, i - 1)
    BY <1>1, <2>1, <2>3 DEF NoFunction
  <2>4. ASSUME NoFunction(open', 2, i - 1)
        PROVE  ~running /\ ~Head(open).otherRuns
    <3>1. NoFunction(open, 2, i - 1) /\ NoFunction(open, 1, i - 1)
      BY <1>1, <2>1, <2>3, <2>4 DEF NoFunction
    <3>2. 1 \in 1 .. i - 1 /\ 1 + 1 = 2
      BY <2>1
    <3> QED
      BY <1>1, <2>2, <3>1, <3>2
  <2>5. ASSUME NoFunction(open', 1, i - 1) PROVE ~running'
    <3>1. NoFunction(open', 2, i - 1)
      BY <2>1, <2>5 DEF NoFunction
    <3> QED
      BY <2>4, <3>1
  <2>6. ASSUME NEW j \in 1 .. i - 1, NoFunction(open', j + 1, i - 1)
        PROVE  ~open'[j].otherRuns
    <3>1. CASE j = 1
      BY <1>1, <2>4, <2>6, <3>1
    <3>2. CASE j # 1
      <4>1. j + 1 \in 1 .. i /\ open'[j] = open[j]
        BY <1>1, <2>1, <3>2
      <4> QED
        BY <2>2, <2>3, <2>6, <4>1
    <3> QED
      BY <3>1, <3>2
  <2> QED
    BY <2>5, <2>6
<1> QED
  BY <1>2, <1>3 DEF ReturnsEndTheRun, EndsTheRun

(* A return statement ends the run and marks the innermost construct.      *)
LEMMA ReturnsReturning ==
    ASSUME open \in Seq(Construct), ReturnsEndTheRun,
           open' = Returning(open), ~running'
    PROVE  ReturnsEndTheRun'
<1>1. /\ Len(open) \in Nat /\ DOMAIN open = 1 .. Len(open) /\ DOMAIN open' = 1 .. Len(open)
      /\ \A i \in 1 .. Len(open) :
             /\ open'[i].returns => open[i].returns \/ (i = 1 /\ open' # open)
             /\ open'[i].kind = open[i].kind /\ open'[i].otherRuns = open[i].otherRuns
             /\ open'[i].thenReturns = open[i].thenReturns
  BY MaybeReturning, LenProperties
<1>2. ASSUME NEW i \in DOMAIN open' PROVE ThenEnded(open'[i])
  BY <1>1 DEF ReturnsEndTheRun, ThenEnded
<1>3. ASSUME NEW i \in DOMAIN open', open'[i].returns,
             NEW j \in 1 .. i - 1, NoFunction(open', j + 1, i - 1)
      PROVE  ~open'[j].otherRuns
  <2>1. i # 1 /\ open[i].returns /\ j \in 1 .. Len(open)
    BY <1>1, <1>3
  <2>2. NoFunction(open, j + 1, i - 1)
    BY <1>1, <1>3 DEF NoFunction
  <2>3. ~open[j].otherRuns
    BY <1>1, <2>1, <2>2 DEF ReturnsEndTheRun, EndsTheRun
  <2> QED
    BY <1>1, <2>1, <2>3
<1> QED
  BY <1>2, <1>3 DEF ReturnsEndTheRun, EndsTheRun

LEMMA ReturnsUntouched ==
    ASSUME ReturnsEndTheRun, UNCHANGED <<open, running>>
    PROVE  ReturnsEndTheRun'
BY DEF ReturnsEndTheRun, EndsTheRun

LEMMA ReturnsOpensSaving ==
    ASSUME TypeOK, ReturnsEndTheRun,
           NEW kind \in {"then", "while"}, NEW into \in BOOLEAN, OpensSaving(kind, into)
    PROVE  ReturnsEndTheRun'
<1>1. PICK c \in Construct :
          /\ open' = <<c>> \o open /\ c.kind = kind
          /\ c.otherRuns = (running /\ ~into) /\ c.returns = FALSE
  BY OpensSavingEffect
<1>2. ~c.returns /\ ThenEnded(c) /\ (c.otherRuns => running)
  BY <1>1 DEF ThenEnded
<1>3. running' => running
  BY DEF OpensSaving
<1>4. open \in Seq(Construct)
  BY DEF TypeOK
<1> QED
  BY <1>1, <1>2, <1>3, <1>4, ReturnsOpening

(* What the innermost construct's marks say.                               *)
LEMMA InnermostReturns ==
    ASSUME TypeOK, ReturnsEndTheRun, open # <<>>
    PROVE  /\ Head(open).returns => ~running
           /\ ThenEnded(Head(open))
<1>1. Head(open) = open[1] /\ 1 \in DOMAIN open
  BY TailProperties DEF TypeOK
<1>2. NoFunction(open, 1, 1 - 1)
  BY DEF NoFunction
<1> QED
  BY <1>1, <1>2 DEF ReturnsEndTheRun, EndsTheRun

LEMMA ReturnsStep ==
    ASSUME WellFormed, ReturnsEndTheRun, [Next]_vars
    PROVE  ReturnsEndTheRun'
<1>1. TypeOK /\ open \in Seq(Construct)
  BY DEF WellFormed, TypeOK
<1>2. ASSUME NEW n \in Names, NEW mutable \in BOOLEAN,
             NEW e \in Expressions \cup {NoValue}, Declare(n, mutable, e)
      PROVE  ReturnsEndTheRun'
  BY <1>2, ReturnsUntouched DEF Declare
<1>3. ASSUME NEW n \in Names, NEW e \in Expressions, Assign(n, e)
      PROVE  ReturnsEndTheRun'
  BY <1>3, ReturnsUntouched DEF Assign
<1>4. ASSUME NEW e \in Expressions \cup {NoValue}, Return(e)
      PROVE  ReturnsEndTheRun'
  BY <1>1, <1>4, ReturnsReturning DEF Return
<1>5. CASE OpenBlock
  <2>1. running' = running
    BY <1>5 DEF OpenBlock, execution
  <2>2. PICK c \in Construct :
            /\ open' = <<c>> \o open
            /\ c.kind = "block" /\ ~c.returns /\ ~c.otherRuns
    BY <1>1, <1>5, OpenBlockEffect
  <2>3. ThenEnded(c)
    BY <2>2 DEF ThenEnded
  <2> QED
    BY <1>1, <2>1, <2>2, <2>3, ReturnsOpening
<1>6. CASE CloseBlock
  <2>1. /\ open # <<>> /\ Head(open).kind # "function"
        /\ running' = running
        /\ open' = Tail(open) \/ open' = Returning(Tail(open))
        /\ open' # Tail(open) => Head(open).returns
    BY <1>6, CloseBlockEffect
  <2>2. open' # Tail(open) => ~running'
    BY <1>1, <2>1, InnermostReturns
  <2> QED
    BY <1>1, <2>1, <2>2, ReturnsClosing
<1>7. ASSUME NEW e \in Expressions, NEW taken \in BOOLEAN, OpenIf(e, taken)
      PROVE  ReturnsEndTheRun'
  <2>1. CASE GivenUp
    BY <2>1, ReturnsUntouched DEF GivenUp
  <2> QED
    BY <1>1, <1>7, <2>1, OpenIfEffect, ReturnsOpensSaving
<1>8. CASE Else
  <2>1. /\ open # <<>> /\ Head(open).kind # "function"
        /\ running' => running \/ Head(open).otherRuns
    BY <1>8, ElseEffect
  <2>2. PICK d \in Construct :
            /\ open' = <<d>> \o Tail(open)
            /\ d.kind = "else" /\ d.returns = FALSE
            /\ d.thenReturns = Head(open).returns /\ d.otherRuns = running
    BY <1>8, ElseEffect
  <2>3. ThenEnded(d)
    BY <1>1, <2>1, <2>2, InnermostReturns DEF ThenEnded
  <2> QED
    BY <1>1, <2>1, <2>2, <2>3, ReturnsReplacing
<1>9. CASE CloseThen
  <2>1. /\ open # <<>> /\ Head(open).kind # "function"
        /\ running' => running \/ Head(open).otherRuns
        /\ open' = Tail(open)
    BY <1>9, CloseThenEffect
  <2> QED
    BY <1>1, <2>1, ReturnsClosing
<1>10. CASE CloseElse
  <2>1. /\ open # <<>> /\ Head(open).kind = "else"
        /\ running' => running \/ Head(open).otherRuns
        /\ open' = Tail(open) \/ open' = Returning(Tail(open))
        /\ open' # Tail(open) => BothReturn(Head(open))
    BY <1>10, CloseElseEffect
  <2>2. open' # Tail(open) => ~running'
    BY <1>1, <2>1, InnermostReturns DEF BothReturn, ThenEnded
  <2>3. Head(open).kind # "function"
    BY <2>1
  <2> QED
    BY <1>1, <2>1, <2>2, <2>3, ReturnsClosing
<1>11. ASSUME NEW e \in Expressions, NEW entered \in BOOLEAN, OpenWhile(e, entered)
       PROVE  ReturnsEndTheRun'
  <2>1. CASE GivenUp
    BY <2>1, ReturnsUntouched DEF GivenUp
  <2> QED
    BY <1>1, <1>11, <2>1, OpenWhileEffect, ReturnsOpensSaving
<1>12. CASE CloseWhile
  <2>1. /\ open # <<>> /\ Head(open).kind # "function"
        /\ running' => running \/ Head(open).otherRuns
        /\ open' = Tail(open)
    BY <1>12, CloseWhileEffect
  <2> QED
    BY <1>1, <2>1, ReturnsClosing
<1>13. ASSUME NEW params \in SUBSET Names, NEW valued \in BOOLEAN,
              OpenFunction(params, valued)
       PROVE  ReturnsEndTheRun'
  <2>0. PICK ok \in BOOLEAN : open' = <<FunctionConstruct(params, valued, ok)>> \o open
    BY <1>13, OpenFunctionEffect
  <2> DEFINE c == FunctionConstruct(params, valued, ok)
  <2>1. open' = <<c>> \o open
    BY <2>0
  <2>2. /\ c \in Construct /\ c.kind = "function"
        /\ ~c.returns /\ (c.otherRuns => running)
    BY <1>1, FunctionConstructType
  <2> HIDE DEF c
  <2>3. ThenEnded(c)
    BY <2>2 DEF ThenEnded
  <2> QED
    BY <1>1, <2>1, <2>2, <2>3, ReturnsOpening
<1>14. CASE CloseFunction
  <2>1. /\ open # <<>> /\ open' = Tail(open)
        /\ running' => Head(open).otherRuns
    BY <1>14, CloseFunctionEffect
  <2> QED
    BY <1>1, <2>1, ReturnsClosing
<1>15. CASE UNCHANGED vars
  BY <1>15, ReturnsUntouched DEF vars, execution
<1> QED
  BY <1>2, <1>3, <1>4, <1>5, <1>6, <1>7, <1>8, <1>9, <1>10, <1>11, <1>12, <1>13, <1>14,
     <1>15 DEF Next, EndOfProgram

LEMMA AlwaysReturnsEndTheRun == Spec => []ReturnsEndTheRun
<1>1. Init => ReturnsEndTheRun
  BY DEF Init, ReturnsEndTheRun
<1>2. WellFormed /\ ReturnsEndTheRun /\ [Next]_vars => ReturnsEndTheRun'
  BY ReturnsStep
<1> QED
  BY <1>1, <1>2, AlwaysWellFormed, PTL DEF Spec

(* Control never runs off the end of a function with a return type that    *)
(* stmt_always_returns lets pass, whatever way the conditions in it go,    *)
(* for any program, nested functions included.                             *)
THEOREM ValuedFunctionsReturn == Spec => FunctionsReturn
<1>1. WellFormed /\ ReturnsEndTheRun /\ [Next]_vars
      => [CloseFunction /\ Head(open).valued /\ "missing return" \notin errors'
            => ~running]_vars
  <2> SUFFICES ASSUME WellFormed, ReturnsEndTheRun, CloseFunction,
                      Head(open).valued, "missing return" \notin errors'
               PROVE  ~running
    OBVIOUS
  <2>1. Head(open).returns /\ open # <<>>
    BY CloseFunctionEffect
  <2> QED
    BY <2>1, InnermostReturns DEF WellFormed
<1> QED
  BY <1>1, AlwaysWellFormed, AlwaysReturnsEndTheRun, PTL DEF Spec, FunctionsReturn

-----------------------------------------------------------------------------
(* The flow analysis is sound.                                             *)

(* What is true of flags stays true while symbols keep their ids.          *)
LEMMA CoveredStill ==
    ASSUME NEW syms, NEW syms2, NEW values, NEW values2, NEW flags \in Seq(BOOLEAN),
           Covered(syms, values, flags), values \subseteq values2,
           \A p \in 1 .. Len(flags) : syms2[p].id = syms[p].id
    PROVE  Covered(syms2, values2, flags)
<1> SUFFICES ASSUME NEW p \in DOMAIN flags, flags[p]
             PROVE  syms2[p].id \in values2
  BY DEF Covered
<1>1. p \in 1 .. Len(flags)
  OBVIOUS
<1>2. syms[p].id \in values
  BY DEF Covered
<1> QED
  BY <1>1, <1>2

(* A saved flow state is about symbols that are still there.               *)
LEMMA SavesAreInScope ==
    ASSUME WellFormed, Flow, NEW i \in DOMAIN open
    PROVE  /\ i \in 1 .. Len(open) /\ Len(open) \in Nat
           /\ Len(bases) + 1 - i \in 3 .. Len(bases)
           /\ bases[Len(bases) + 1 - i] \in Nat
           /\ bases[Len(bases) + 1 - i] <= bases[Len(bases)]
           /\ bases[Len(bases)] \in Nat
           /\ bases[Len(bases)] <= Len(symbols)
           /\ open[i] \in Construct
           /\ open[i].before \in Seq(BOOLEAN) /\ open[i].afterThen \in Seq(BOOLEAN)
           /\ open[i].kind \in Saving => Len(open[i].before) <= bases[Len(bases)]
           /\ open[i].kind = "else" => Len(open[i].afterThen) <= bases[Len(bases)]
<1>1. /\ open \in Seq(Construct) /\ Len(open) \in Nat /\ DOMAIN open = 1 .. Len(open)
      /\ bases \in Seq(Nat) /\ Len(bases) \in Nat /\ Len(symbols) \in Nat
      /\ DOMAIN bases = 1 .. Len(bases)
  BY DEF WellFormed, TypeOK
<1>2. Len(bases) = 2 + Len(open)
  BY <1>1 DEF Flow, OneFunction
<1>3. /\ Len(bases) + 1 - i \in 3 .. Len(bases)
      /\ Len(bases) + 1 - i \in DOMAIN bases /\ Len(bases) \in DOMAIN bases
  BY <1>1, <1>2
<1>4. /\ bases[Len(bases) + 1 - i] \in Nat /\ bases[Len(bases)] \in Nat
      /\ bases[Len(bases) + 1 - i] <= bases[Len(bases)]
      /\ bases[Len(bases)] <= Len(symbols)
  BY <1>1, <1>3 DEF WellFormed, Nested, Scopes
<1>5. open[i] \in Construct
  BY <1>1, ElementOfSeq
<1>6. open[i].before \in Seq(BOOLEAN) /\ open[i].afterThen \in Seq(BOOLEAN)
  BY <1>5 DEF Construct
<1>7. /\ open[i].kind \in Saving => Len(open[i].before) = bases[Len(bases) + 1 - i]
      /\ open[i].kind = "else" => Len(open[i].afterThen) = bases[Len(bases) + 1 - i]
  BY DEF Flow, SavesFit
<1> QED
  BY <1>1, <1>3, <1>4, <1>5, <1>6, <1>7

(* Statements that open and close nothing: symbols are added, or get a     *)
(* value that the execution gives them as well.                            *)
LEMMA FlowStatement ==
    ASSUME WellFormed, Flow, open # <<>>,
           bases' = bases, failed' = failed,
           open' = open \/ open' = Returning(open),
           running' => running,
           assigned \subseteq assigned',
           \A p \in 1 .. Len(symbols) : symbols'[p].id = symbols[p].id,
           running' => Covered(symbols', assigned', Flags(symbols'))
    PROVE  Flow'
<1>1. /\ Len(open) \in Nat /\ DOMAIN open = 1 .. Len(open) /\ Len(symbols) \in Nat
      /\ DOMAIN open' = 1 .. Len(open) /\ Len(open') = Len(open)
      /\ \A i \in 1 .. Len(open) :
             /\ open'[i].kind = open[i].kind /\ open'[i].otherRuns = open[i].otherRuns
             /\ open'[i].before = open[i].before /\ open'[i].afterThen = open[i].afterThen
  <2> DEFINE t == open'
  <2>1. open \in Seq(Construct) /\ symbols \in Seq(Symbol)
    BY DEF WellFormed, TypeOK
  <2>2. Len(open) \in Nat /\ DOMAIN open = 1 .. Len(open) /\ Len(symbols) \in Nat
    BY <2>1, LenProperties
  <2>3. t = open \/ t = Returning(open)
    OBVIOUS
  <2> HIDE DEF t
  <2>4. /\ Len(t) = Len(open) /\ DOMAIN t = 1 .. Len(open)
        /\ \A i \in 1 .. Len(open) :
               /\ t[i].kind = open[i].kind /\ t[i].otherRuns = open[i].otherRuns
               /\ t[i].before = open[i].before /\ t[i].afterThen = open[i].afterThen
    BY <2>1, <2>3, MaybeReturning
  <2> QED
    BY <2>2, <2>4 DEF t
<1>2. open' # <<>>
  BY <1>1 DEF WellFormed, TypeOK
<1>3. OneFunction'
  BY <1>1, <1>2 DEF Flow, OneFunction
<1>4. SavesFit'
  BY <1>1 DEF Flow, SavesFit
<1>5. SavesAreSound'
  <2> SUFFICES ASSUME NEW i \in DOMAIN open'
               PROVE  /\ open'[i].kind \in {"then", "while"}
                         /\ (running' \/ \E j \in 1 .. i : open'[j].otherRuns)
                         => Covered(symbols', assigned', open'[i].before)
                      /\ open'[i].kind = "else" /\ open'[i].otherRuns
                         => Covered(symbols', assigned', open'[i].afterThen)
    BY DEF SavesAreSound
  <2>1. i \in DOMAIN open
    BY <1>1
  <2>2. /\ open[i].before \in Seq(BOOLEAN) /\ open[i].afterThen \in Seq(BOOLEAN)
        /\ open[i].kind \in Saving
           => \A p \in 1 .. Len(open[i].before) : symbols'[p].id = symbols[p].id
        /\ open[i].kind = "else"
           => \A p \in 1 .. Len(open[i].afterThen) : symbols'[p].id = symbols[p].id
    BY <1>1, <2>1, SavesAreInScope
  <2>3. ASSUME open'[i].kind \in {"then", "while"},
               running' \/ \E j \in 1 .. i : open'[j].otherRuns
        PROVE  Covered(symbols', assigned', open'[i].before)
    <3>1. open[i].kind \in {"then", "while"} /\ open[i].kind \in Saving
      BY <1>1, <2>1, <2>3 DEF Saving
    <3>2. running \/ \E j \in 1 .. i : open[j].otherRuns
      BY <1>1, <2>1, <2>3
    <3>3. Covered(symbols, assigned, open[i].before)
      BY <2>1, <3>1, <3>2 DEF Flow, SavesAreSound
    <3>4. Covered(symbols', assigned', open[i].before)
      BY <2>2, <3>1, <3>3, CoveredStill
    <3> QED
      BY <1>1, <2>1, <3>4
  <2>4. ASSUME open'[i].kind = "else", open'[i].otherRuns
        PROVE  Covered(symbols', assigned', open'[i].afterThen)
    <3>1. open[i].kind = "else" /\ open[i].otherRuns
      BY <1>1, <2>1, <2>4
    <3>2. Covered(symbols, assigned, open[i].afterThen)
      BY <2>1, <3>1 DEF Flow, SavesAreSound
    <3>3. Covered(symbols', assigned', open[i].afterThen)
      BY <2>2, <3>1, <3>2, CoveredStill
    <3> QED
      BY <1>1, <2>1, <3>3
  <2> QED
    BY <2>3, <2>4
<1> QED
  BY <1>3, <1>4, <1>5 DEF Flow

(* A block or a branch is opened, and the flow state saved.                *)
LEMMA FlowOpening ==
    ASSUME WellFormed, Flow, open # <<>>,
           bases' = Append(bases, Len(symbols)), failed' = failed,
           UNCHANGED <<symbols, assigned>>,
           NEW c \in Construct, open' = <<c>> \o open,
           c.kind \in {"block", "then", "while"},
           c.kind # "block" => c.before = Flags(symbols),
           c.otherRuns => running, running' => running
    PROVE  Flow'
<1>1. /\ open \in Seq(Construct) /\ Len(open) \in Nat \ {0}
      /\ DOMAIN open = 1 .. Len(open)
      /\ DOMAIN open' = 1 .. Len(open) + 1 /\ Len(open') = Len(open) + 1
      /\ open'[1] = c
      /\ \A i \in 2 .. Len(open) + 1 : open'[i] = open[i - 1]
      /\ symbols \in Seq(Symbol) /\ Len(symbols) \in Nat
  BY ConsProperties DEF WellFormed, TypeOK
<1>2. /\ Len(bases) = 2 + Len(open)
      /\ Len(bases') = 3 + Len(open)
      /\ \A k \in 1 .. 2 + Len(open) : bases'[k] = bases[k]
      /\ bases'[3 + Len(open)] = Len(symbols)
  <2>1. Len(bases) = 2 + Len(open) /\ bases \in Seq(Nat)
    BY DEF Flow, OneFunction, WellFormed, TypeOK
  <2> QED
    BY <1>1, <2>1, AppendProperties
<1>3. open' # <<>>
  BY <1>1
<1>4. ASSUME NEW i \in DOMAIN open', i # 1
      PROVE  /\ i - 1 \in DOMAIN open /\ open'[i] = open[i - 1]
             /\ i = Len(open') <=> i - 1 = Len(open)
             /\ Len(bases') + 1 - i = Len(bases) + 1 - (i - 1)
             /\ Len(bases') + 1 - i \in 1 .. 2 + Len(open)
             /\ bases'[Len(bases') + 1 - i] = bases[Len(bases) + 1 - (i - 1)]
  <2>1. /\ i \in 2 .. Len(open) + 1 /\ Len(open) \in Nat
        /\ i - 1 \in 1 .. Len(open) /\ i = Len(open) + 1 <=> i - 1 = Len(open)
    BY <1>1, <1>4
  <2>2. /\ Len(bases') + 1 - i = Len(bases) + 1 - (i - 1)
        /\ Len(bases') + 1 - i \in 1 .. 2 + Len(open)
    BY <1>2, <2>1
  <2>3. i - 1 \in DOMAIN open /\ open'[i] = open[i - 1] /\ Len(open') = Len(open) + 1
    BY <1>1, <2>1
  <2> QED
    BY <1>2, <2>1, <2>2, <2>3
<1>5. ASSUME NEW i \in DOMAIN open'
      PROVE  /\ open'[i].kind = "function" <=> i = Len(open')
             /\ open'[i].kind = "function" => ~open'[i].otherRuns
  <2>1. CASE i = 1
    BY <1>1, <2>1
  <2>2. CASE i # 1
    BY <1>4, <2>2 DEF Flow, OneFunction
  <2> QED
    BY <2>1, <2>2
<1>6. OneFunction'
  <2>1. failed' = 0 /\ bases'[2] = 0 /\ Len(bases') = 2 + Len(open')
    BY <1>1, <1>2 DEF Flow, OneFunction
  <2> QED
    BY <1>3, <1>5, <2>1 DEF OneFunction
<1>7. ASSUME NEW i \in DOMAIN open'
      PROVE  /\ open'[i].kind \in Saving
                => Len(open'[i].before) = bases'[Len(bases') + 1 - i]
             /\ open'[i].kind = "else"
                => Len(open'[i].afterThen) = bases'[Len(bases') + 1 - i]
  <2>1. CASE i = 1
    <3>1. Len(Flags(symbols)) = Len(symbols)
      BY <1>1, FlagsProperties
    <3>2. bases'[Len(bases') + 1 - i] = Len(symbols)
      BY <1>1, <1>2, <2>1
    <3> QED
      BY <1>1, <2>1, <3>1, <3>2 DEF Saving
  <2>2. CASE i # 1
    BY <1>4, <2>2 DEF Flow, SavesFit
  <2> QED
    BY <2>1, <2>2
<1>8. SavesFit'
  BY <1>7 DEF SavesFit
<1>9. running' => Covered(symbols', assigned', Flags(symbols'))
  BY DEF Flow
<1>10. ASSUME NEW i \in DOMAIN open'
       PROVE  /\ open'[i].kind \in {"then", "while"}
                 /\ (running' \/ \E j \in 1 .. i : open'[j].otherRuns)
                 => Covered(symbols, assigned, open'[i].before)
              /\ open'[i].kind = "else" /\ open'[i].otherRuns
                 => Covered(symbols, assigned, open'[i].afterThen)
  <2>1. CASE i = 1
    <3>1. running' \/ (\E j \in 1 .. i : open'[j].otherRuns) => running
      BY <1>1, <2>1
    <3>2. running => Covered(symbols, assigned, Flags(symbols))
      BY DEF Flow
    <3> QED
      BY <1>1, <2>1, <3>1, <3>2
  <2>2. CASE i # 1
    <3>1. i - 1 \in DOMAIN open /\ open'[i] = open[i - 1]
      BY <1>4, <2>2
    <3>2. ASSUME NEW j \in 1 .. i, open'[j].otherRuns
          PROVE  running \/ \E k \in 1 .. i - 1 : open[k].otherRuns
      <4>1. CASE j = 1
        BY <1>1, <3>2, <4>1
      <4>2. CASE j # 1
        <5>1. j - 1 \in 1 .. i - 1 /\ open'[j] = open[j - 1]
          BY <1>1, <4>2
        <5> QED
          BY <3>2, <5>1
      <4> QED
        BY <4>1, <4>2
    <3>3. /\ open[i - 1].kind \in {"then", "while"}
             /\ (running \/ \E k \in 1 .. i - 1 : open[k].otherRuns)
             => Covered(symbols, assigned, open[i - 1].before)
          /\ open[i - 1].kind = "else" /\ open[i - 1].otherRuns
             => Covered(symbols, assigned, open[i - 1].afterThen)
      BY <3>1 DEF Flow, SavesAreSound
    <3> QED
      BY <3>1, <3>2, <3>3
  <2> QED
    BY <2>1, <2>2
<1>11. SavesAreSound'
  BY <1>10 DEF SavesAreSound
<1> QED
  BY <1>6, <1>8, <1>9, <1>11 DEF Flow

(* scope_pop takes away the innermost scope's symbols and no others.       *)
LEMMA PoppedHere ==
    ASSUME WellFormed, Flow, open # <<>>
    PROVE  LET s == Popped(Scopes)
           IN  /\ s.failed = 0
               /\ Len(bases) \in Nat /\ Len(bases) = 2 + Len(open)
               /\ Len(s.bases) = Len(bases) - 1
               /\ \A k \in 1 .. Len(bases) - 1 : s.bases[k] = bases[k]
               /\ s.symbols \in Seq(Symbol)
               /\ Len(s.symbols) = bases[Len(bases)] /\ Len(s.symbols) \in Nat
               /\ DOMAIN s.symbols = 1 .. Len(s.symbols)
               /\ \A p \in 1 .. Len(s.symbols) :
                      p \in 1 .. Len(symbols) /\ s.symbols[p] = symbols[p]
<1> DEFINE s == Popped(Scopes)
<1>1. /\ Scopes \in ScopeStack /\ Nested(Scopes)
      /\ Scopes.symbols = symbols /\ Scopes.bases = bases /\ Scopes.failed = failed
      /\ Len(bases) \in Nat /\ Len(open) \in Nat /\ Depth(Scopes) = Len(bases) + failed
      /\ symbols \in Seq(Symbol)
  BY ScopesType DEF WellFormed, TypeOK
<1>2. failed = 0 /\ Len(bases) = 2 + Len(open)
  BY DEF Flow, OneFunction
<1>3. Scopes.failed = 0 /\ Len(Scopes.bases) >= 1 /\ Depth(Scopes) >= 1
  BY <1>1, <1>2
<1>4. /\ s.failed = 0
      /\ Len(s.bases) = Len(bases) - 1
      /\ \A k \in 1 .. Len(bases) - 1 : s.bases[k] = bases[k]
      /\ Len(s.symbols) = bases[Len(bases)]
  BY <1>1, <1>3, PoppedScope
<1>5. /\ s \in ScopeStack
      /\ \A p \in DOMAIN s.symbols : p \in DOMAIN symbols /\ s.symbols[p] = symbols[p]
  BY <1>1, <1>3, PoppedProperties
<1> HIDE DEF s
<1>6. /\ s.symbols \in Seq(Symbol) /\ Len(s.symbols) \in Nat
      /\ DOMAIN s.symbols = 1 .. Len(s.symbols) /\ DOMAIN symbols = 1 .. Len(symbols)
  BY <1>1, <1>5 DEF ScopeStack
<1> QED
  BY <1>1, <1>2, <1>4, <1>5, <1>6 DEF s

(* A block or a branch is closed: the constructs outside it keep what they *)
(* have saved, and whoever goes on was in the construct or waited for it.  *)
LEMMA FlowClosing ==
    ASSUME WellFormed, Flow, open # <<>>, Head(open).kind # "function",
           NEW t, Closes(t), NEW syms \in Seq(Symbol),
           t.symbols = syms, Len(syms) = Len(Popped(Scopes).symbols),
           \A p \in 1 .. Len(syms) : syms[p].id = Popped(Scopes).symbols[p].id,
           open' = Tail(open) \/ open' = Returning(Tail(open)),
           running' => running \/ Head(open).otherRuns,
           running' => Covered(syms, assigned, Flags(syms))
    PROVE  Flow'
<1> DEFINE rest == Tail(open)
           s == Popped(Scopes)
           n == Len(bases)
<1>1. /\ open \in Seq(Construct) /\ Len(open) \in Nat \ {0} /\ DOMAIN open = 1 .. Len(open)
      /\ rest \in Seq(Construct) /\ Len(rest) = Len(open) - 1
      /\ \A i \in 1 .. Len(open) - 1 : rest[i] = open[i + 1]
      /\ Head(open) = open[1]
  BY TailProperties DEF WellFormed, TypeOK
<1>2. open' = rest \/ open' = Returning(rest)
  OBVIOUS
<1>3. /\ s.failed = 0 /\ n \in Nat /\ n = 2 + Len(open)
      /\ Len(s.bases) = n - 1
      /\ \A k \in 1 .. n - 1 : s.bases[k] = bases[k]
      /\ Len(s.symbols) = bases[n] /\ Len(s.symbols) \in Nat
      /\ \A p \in 1 .. Len(s.symbols) :
             p \in 1 .. Len(symbols) /\ s.symbols[p] = symbols[p]
  BY PoppedHere
<1>4. /\ symbols' = syms /\ bases' = s.bases /\ failed' = s.failed /\ assigned' = assigned
  BY ScopesBecomeThem DEF Closes
<1>5. Len(syms) = Len(s.symbols) /\ \A p \in 1 .. Len(syms) : syms[p].id = s.symbols[p].id
  OBVIOUS
<1> HIDE DEF rest, s
<1>6. /\ DOMAIN open' = 1 .. Len(rest) /\ Len(open') = Len(rest)
      /\ open' \in Seq(Construct)
      /\ \A i \in 1 .. Len(rest) :
             /\ open'[i].kind = rest[i].kind /\ open'[i].otherRuns = rest[i].otherRuns
             /\ open'[i].before = rest[i].before /\ open'[i].afterThen = rest[i].afterThen
  <2> DEFINE u == open'
  <2>1. u = rest \/ u = Returning(rest)
    BY <1>2
  <2>2. rest \in Seq(Construct)
    BY <1>1
  <2> HIDE DEF u
  <2>3. /\ u \in Seq(Construct) /\ Len(u) = Len(rest) /\ DOMAIN u = 1 .. Len(rest)
        /\ \A i \in 1 .. Len(rest) :
               /\ u[i].kind = rest[i].kind /\ u[i].otherRuns = rest[i].otherRuns
               /\ u[i].before = rest[i].before /\ u[i].afterThen = rest[i].afterThen
    BY <2>1, <2>2, MaybeReturning
  <2> QED
    BY <2>3 DEF u
<1>7. Len(open) > 1
  <2>1. 1 \in DOMAIN open /\ (open[1].kind = "function" <=> 1 = Len(open))
    BY <1>1 DEF Flow, OneFunction
  <2> QED
    BY <1>1, <2>1
<1>8. open' # <<>>
  <2>1. Len(open') # 0
    BY <1>1, <1>6, <1>7
  <2> QED
    BY <2>1
<1>9. ASSUME NEW i \in DOMAIN open'
      PROVE  /\ i + 1 \in DOMAIN open
             /\ i = Len(open') <=> i + 1 = Len(open)
             /\ open'[i].kind = open[i + 1].kind
             /\ open'[i].otherRuns = open[i + 1].otherRuns
             /\ open'[i].before = open[i + 1].before
             /\ open'[i].afterThen = open[i + 1].afterThen
             /\ Len(bases') + 1 - i = n + 1 - (i + 1)
             /\ Len(bases') + 1 - i \in 1 .. n - 1
             /\ bases'[Len(bases') + 1 - i] = bases[n + 1 - (i + 1)]
  <2>1. /\ i \in 1 .. Len(open) - 1 /\ i \in 1 .. Len(rest)
        /\ open'[i].kind = rest[i].kind /\ open'[i].otherRuns = rest[i].otherRuns
        /\ open'[i].before = rest[i].before /\ open'[i].afterThen = rest[i].afterThen
        /\ rest[i] = open[i + 1]
    BY <1>1, <1>6
  <2>2. Len(bases') = n - 1 /\ Len(bases') + 1 - i = n + 1 - (i + 1)
    BY <1>3, <1>4, <2>1
  <2>3. Len(bases') + 1 - i \in 1 .. n - 1
    <3> HIDE DEF n
    <3>1. Len(open) \in Nat /\ n \in Nat /\ n = 2 + Len(open)
      BY <1>1, <1>3
    <3>2. Len(bases') = n - 1
      BY <2>2
    <3> QED
      BY <2>1, <3>1, <3>2
  <2>4. bases'[Len(bases') + 1 - i] = bases[n + 1 - (i + 1)]
    BY <1>3, <1>4, <2>2, <2>3
  <2>5. i + 1 \in DOMAIN open /\ (i = Len(open') <=> i + 1 = Len(open))
    BY <1>1, <1>6, <2>1
  <2> QED
    BY <2>1, <2>2, <2>3, <2>4, <2>5
<1>10. OneFunction'
  <2>1. failed' = 0 /\ Len(bases') = 2 + Len(open')
    BY <1>1, <1>3, <1>4, <1>6
  <2>2. bases'[2] = 0
    <3>1. bases[2] = 0
      BY DEF Flow, OneFunction
    <3>2. 2 \in 1 .. n - 1
      BY <1>1, <1>3
    <3> QED
      BY <1>3, <1>4, <3>1, <3>2
  <2>3. ASSUME NEW i \in DOMAIN open'
        PROVE  /\ open'[i].kind = "function" <=> i = Len(open')
               /\ open'[i].kind = "function" => ~open'[i].otherRuns
    <3>1. /\ i + 1 \in DOMAIN open
          /\ i = Len(open') <=> i + 1 = Len(open)
          /\ open'[i].kind = open[i + 1].kind
          /\ open'[i].otherRuns = open[i + 1].otherRuns
      BY <1>9
    <3>2. /\ open[i + 1].kind = "function" <=> i + 1 = Len(open)
          /\ open[i + 1].kind = "function" => ~open[i + 1].otherRuns
      BY <3>1 DEF Flow, OneFunction
    <3> QED
      BY <3>1, <3>2
  <2> QED
    BY <1>8, <2>1, <2>2, <2>3 DEF OneFunction
<1>11. SavesFit'
  <2> SUFFICES ASSUME NEW i \in DOMAIN open'
               PROVE  /\ open'[i].kind \in Saving
                         => Len(open'[i].before) = bases'[Len(bases') + 1 - i]
                      /\ open'[i].kind = "else"
                         => Len(open'[i].afterThen) = bases'[Len(bases') + 1 - i]
    BY DEF SavesFit
  <2> QED
    BY <1>9 DEF Flow, SavesFit
<1>12. running' => Covered(symbols', assigned', Flags(symbols'))
  BY <1>4
<1>13. ASSUME NEW i \in DOMAIN open'
       PROVE  /\ open'[i].kind \in {"then", "while"}
                 /\ (running' \/ \E j \in 1 .. i : open'[j].otherRuns)
                 => Covered(symbols', assigned', open'[i].before)
              /\ open'[i].kind = "else" /\ open'[i].otherRuns
                 => Covered(symbols', assigned', open'[i].afterThen)
  <2>1. /\ i + 1 \in DOMAIN open
        /\ open'[i].kind = open[i + 1].kind
        /\ open'[i].otherRuns = open[i + 1].otherRuns
        /\ open'[i].before = open[i + 1].before
        /\ open'[i].afterThen = open[i + 1].afterThen
    BY <1>9
  <2> DEFINE f == open[i + 1].before
             g == open[i + 1].afterThen
  <2>2. /\ f \in Seq(BOOLEAN) /\ g \in Seq(BOOLEAN)
        /\ open[i + 1].kind \in Saving => Len(f) <= bases[n]
        /\ open[i + 1].kind = "else" => Len(g) <= bases[n]
        /\ bases[n] \in Nat
    BY <2>1, SavesAreInScope
  <2> HIDE DEF n
  <2>3. /\ open[i + 1].kind \in Saving
           => \A p \in 1 .. Len(f) : symbols'[p].id = symbols[p].id
        /\ open[i + 1].kind = "else"
           => \A p \in 1 .. Len(g) : symbols'[p].id = symbols[p].id
    <3>1. ASSUME NEW p \in 1 .. bases[n] PROVE symbols'[p].id = symbols[p].id
      BY <1>3, <1>4, <1>5
    <3>2. /\ Len(f) \in Nat /\ Len(g) \in Nat
          /\ open[i + 1].kind \in Saving => 1 .. Len(f) \subseteq 1 .. bases[n]
          /\ open[i + 1].kind = "else" => 1 .. Len(g) \subseteq 1 .. bases[n]
      BY <2>2, LenProperties
    <3> HIDE DEF f, g
    <3> QED
      BY <3>1, <3>2
  <2>4. ASSUME open'[i].kind \in {"then", "while"},
               running' \/ \E j \in 1 .. i : open'[j].otherRuns
        PROVE  Covered(symbols', assigned', f)
    <3>1. open[i + 1].kind \in {"then", "while"} /\ open[i + 1].kind \in Saving
      BY <2>1, <2>4 DEF Saving
    <3>2. i \in Nat /\ i \in 1 .. Len(open')
      BY <1>6
    <3>3. running \/ \E j \in 1 .. i + 1 : open[j].otherRuns
      <4>1. CASE running'
        <5>1. 1 \in 1 .. i + 1
          BY <3>2
        <5> QED
          BY <1>1, <4>1, <5>1
      <4>2. ASSUME NEW j \in 1 .. i, open'[j].otherRuns
            PROVE  \E k \in 1 .. i + 1 : open[k].otherRuns
        <5>1. j \in DOMAIN open' /\ j + 1 \in 1 .. i + 1
          BY <1>6, <3>2
        <5>2. open[j + 1].otherRuns
          BY <1>9, <4>2, <5>1
        <5> QED
          BY <5>1, <5>2
      <4> QED
        BY <2>4, <4>1, <4>2
    <3>4. Covered(symbols, assigned, f)
      BY <2>1, <3>1, <3>3 DEF Flow, SavesAreSound
    <3> HIDE DEF f
    <3> QED
      BY <1>4, <2>2, <2>3, <3>1, <3>4, CoveredStill
  <2>5. ASSUME open'[i].kind = "else", open'[i].otherRuns
        PROVE  Covered(symbols', assigned', g)
    <3>1. open[i + 1].kind = "else" /\ open[i + 1].otherRuns
      BY <2>1, <2>5
    <3>2. Covered(symbols, assigned, g)
      BY <2>1, <3>1 DEF Flow, SavesAreSound
    <3> HIDE DEF g
    <3> QED
      BY <1>4, <2>2, <2>3, <3>1, <3>2, CoveredStill
  <2> QED
    BY <2>1, <2>4, <2>5
<1>14. SavesAreSound'
  BY <1>13 DEF SavesAreSound
<1> QED
  BY <1>10, <1>11, <1>12, <1>14 DEF Flow

(* The flow state that a branch ends with, when saves do not fail.         *)
LEMMA BranchEndsAre ==
    ASSUME ~SaveFaults, NEW syms \in Seq(Symbol), NEW returns \in BOOLEAN,
           NEW f \in BranchEnds(syms, returns)
    PROVE  /\ f \in Seq(BOOLEAN) /\ Len(f) = Len(syms)
           /\ ~returns => f = Flags(syms)
<1>1. f = IF returns THEN Filled(Flags(syms)) ELSE Flags(syms)
  BY DEF BranchEnds, Saves
<1>2. /\ Flags(syms) \in Seq(BOOLEAN) /\ Len(Flags(syms)) = Len(syms)
      /\ DOMAIN Flags(syms) = 1 .. Len(syms) /\ Len(syms) \in Nat
  BY FlagsProperties
<1>3. f \in Seq(BOOLEAN)
  BY BranchEndsType
<1>4. Len(Filled(Flags(syms))) = Len(syms)
  <2>1. Filled(Flags(syms)) \in [1 .. Len(syms) -> BOOLEAN]
    BY <1>2 DEF Filled
  <2>2. Filled(Flags(syms)) \in Seq(BOOLEAN)
    BY <1>2, <2>1, SeqDef
  <2> QED
    BY <1>2, <2>1, <2>2
<1> QED
  BY <1>1, <1>2, <1>3, <1>4

(* analyze_if goes from the first branch to the second.                    *)
LEMMA FlowElse ==
    ASSUME WellFormed, ReturnsEndTheRun, Flow, ~SaveFaults, Else, errors' = {}
    PROVE  Flow'
<1> DEFINE c == Head(open)
           s == Popped(Scopes)
           syms == Restored(s.symbols, c.before)
           t == [s EXCEPT !.symbols = syms]
           n == Len(bases)
           rest == Tail(open)
<1>1. /\ open # <<>> /\ c.kind = "then"
      /\ assigned' = assigned /\ running' = c.otherRuns
      /\ t \in ScopeStack /\ symbols' = t.symbols
  BY ElseEffect
<1>2. PICK ok \in BOOLEAN :
          /\ bases' = IF ok THEN Append(t.bases, Len(t.symbols)) ELSE t.bases
          /\ failed' = IF ok THEN t.failed ELSE t.failed + 1
          /\ errors' = errors \cup OutOfMemory(ok)
  BY ElseEffect
<1>3. PICK afterThen \in BranchEnds(s.symbols, c.returns), d \in Construct :
          /\ afterThen \in Seq(BOOLEAN)
          /\ open' = <<d>> \o rest
          /\ d.kind = "else" /\ d.afterThen = afterThen
          /\ d.otherRuns = running /\ d.before = c.before
  BY ElseEffect
<1>4. ok
  BY <1>2 DEF OutOfMemory
<1>5. /\ c \in Construct /\ c = open[1]
      /\ c.before \in Seq(BOOLEAN) /\ c.returns \in BOOLEAN /\ c.otherRuns \in BOOLEAN
      /\ s \in ScopeStack
  BY <1>1, InnermostProperties
<1>6. /\ s.failed = 0 /\ n \in Nat /\ n = 2 + Len(open)
      /\ Len(s.bases) = n - 1
      /\ \A k \in 1 .. n - 1 : s.bases[k] = bases[k]
      /\ s.symbols \in Seq(Symbol)
      /\ Len(s.symbols) = bases[n] /\ Len(s.symbols) \in Nat
      /\ \A p \in 1 .. Len(s.symbols) :
             p \in 1 .. Len(symbols) /\ s.symbols[p] = symbols[p]
  BY <1>1, PoppedHere
<1>7. /\ open \in Seq(Construct) /\ Len(open) \in Nat \ {0} /\ DOMAIN open = 1 .. Len(open)
      /\ rest \in Seq(Construct) /\ Len(rest) = Len(open) - 1
      /\ \A i \in 1 .. Len(open) - 1 : rest[i] = open[i + 1]
  BY <1>1, TailProperties DEF WellFormed, TypeOK
<1>8. t.symbols = syms /\ t.bases = s.bases /\ t.failed = s.failed
  BY <1>5 DEF ScopeStack
<1>9. c.returns => ~running
  BY <1>1, InnermostReturns DEF WellFormed
<1> HIDE DEF t, c, rest, s
<1>10. /\ syms \in Seq(Symbol) /\ Len(syms) = Len(s.symbols)
       /\ \A p \in 1 .. Len(syms) :
              /\ syms[p].id = s.symbols[p].id
              /\ syms[p].initialized =
                     IF p \in 1 .. Len(c.before) THEN c.before[p] ELSE s.symbols[p].initialized
  BY <1>5, <1>6, RestoredProperties
<1> HIDE DEF syms
<1>11. /\ Len(bases') = n
       /\ \A k \in 1 .. n : bases'[k] = bases[k]
       /\ failed' = 0 /\ symbols' = syms
  <2>1. /\ s.bases \in Seq(Nat) /\ bases' = Append(s.bases, Len(syms)) /\ failed' = s.failed
    BY <1>2, <1>4, <1>5, <1>8 DEF ScopeStack
  <2>2. /\ Len(bases') = Len(s.bases) + 1
        /\ \A k \in 1 .. Len(s.bases) : bases'[k] = s.bases[k]
        /\ bases'[Len(s.bases) + 1] = Len(syms)
    BY <1>6, <1>10, <2>1, AppendProperties
  <2>3. bases'[n] = bases[n]
    BY <1>6, <1>10, <2>2
  <2>4. ASSUME NEW k \in 1 .. n PROVE bases'[k] = bases[k]
    <3>1. CASE k = n
      BY <2>3, <3>1
    <3>2. CASE k # n
      BY <1>6, <2>2, <3>2
    <3> QED
      BY <3>1, <3>2
  <2> QED
    BY <1>1, <1>6, <1>8, <2>1, <2>2, <2>4
<1>12. /\ DOMAIN open' = 1 .. Len(open) /\ Len(open') = Len(open)
       /\ open'[1] = d /\ \A i \in 2 .. Len(open) : open'[i] = open[i]
  <2>1. rest \in Seq(Construct) /\ d \in Construct
    BY <1>7
  <2>2. /\ DOMAIN (<<d>> \o rest) = 1 .. Len(rest) + 1
        /\ Len(<<d>> \o rest) = Len(rest) + 1
        /\ (<<d>> \o rest)[1] = d
        /\ \A i \in 2 .. Len(rest) + 1 : (<<d>> \o rest)[i] = rest[i - 1]
    BY <2>1, ConsProperties
  <2> DEFINE u == <<d>> \o rest
  <2>3. open' = u
    BY <1>3
  <2>4. /\ DOMAIN u = 1 .. Len(rest) + 1 /\ Len(u) = Len(rest) + 1
        /\ u[1] = d /\ \A i \in 2 .. Len(rest) + 1 : u[i] = rest[i - 1]
    BY <2>2
  <2> HIDE DEF u
  <2> QED
    BY <1>7, <2>3, <2>4
<1>13. Len(open) > 1
  <2>1. 1 \in DOMAIN open /\ (open[1].kind = "function" <=> 1 = Len(open))
    BY <1>7 DEF Flow, OneFunction
  <2> QED
    BY <1>1, <1>5, <1>7, <2>1
<1>14. open' # <<>>
  BY <1>7, <1>12
<1>15. OneFunction'
  <2>1. bases'[2] = 0
    <3>1. bases[2] = 0 /\ 2 \in 1 .. n
      BY <1>1, <1>6, <1>7 DEF Flow, OneFunction
    <3> QED
      BY <1>11, <3>1
  <2>2. ASSUME NEW i \in DOMAIN open'
        PROVE  /\ open'[i].kind = "function" <=> i = Len(open')
               /\ open'[i].kind = "function" => ~open'[i].otherRuns
    <3>1. CASE i = 1
      BY <1>3, <1>12, <1>13, <3>1
    <3>2. CASE i # 1
      BY <1>7, <1>12, <3>2 DEF Flow, OneFunction
    <3> QED
      BY <3>1, <3>2
  <2> QED
    BY <1>6, <1>11, <1>12, <1>14, <2>1, <2>2 DEF OneFunction
<1>16. /\ Len(c.before) = bases[n] /\ Len(afterThen) = bases[n]
       /\ (~c.returns => afterThen = Flags(s.symbols))
  <2>1. 1 \in DOMAIN open /\ n + 1 - 1 = n
    BY <1>6, <1>7
  <2>2. Len(c.before) = bases[n]
    BY <1>1, <1>5, <2>1 DEF Flow, SavesFit, Saving
  <2> QED
    BY <1>3, <1>5, <1>6, <2>2, BranchEndsAre
<1>17. SavesFit'
  <2> SUFFICES ASSUME NEW i \in DOMAIN open'
               PROVE  /\ open'[i].kind \in Saving
                         => Len(open'[i].before) = bases'[Len(bases') + 1 - i]
                      /\ open'[i].kind = "else"
                         => Len(open'[i].afterThen) = bases'[Len(bases') + 1 - i]
    BY DEF SavesFit
  <2>1. bases'[Len(bases') + 1 - i] = bases[n + 1 - i]
    BY <1>6, <1>11, <1>12
  <2>2. CASE i = 1
    <3>1. Len(bases') + 1 - i = n
      BY <1>6, <1>11, <2>2
    <3> QED
      BY <1>3, <1>6, <1>11, <1>12, <1>16, <2>2, <3>1
  <2>3. CASE i # 1
    BY <1>7, <1>12, <2>1, <2>3 DEF Flow, SavesFit
  <2> QED
    BY <2>2, <2>3
<1>18. c.otherRuns => Covered(symbols, assigned, c.before)
  <2>1. 1 \in DOMAIN open /\ 1 \in 1 .. 1
    BY <1>7
  <2> QED
    BY <1>1, <1>5, <2>1 DEF Flow, SavesAreSound
<1>19. running' => Covered(symbols', assigned', Flags(symbols'))
  <2> SUFFICES ASSUME c.otherRuns, NEW p \in DOMAIN Flags(syms), Flags(syms)[p]
               PROVE  syms[p].id \in assigned
    BY <1>1, <1>11 DEF Covered
  <2>1. p \in 1 .. Len(syms) /\ syms[p].initialized
    BY <1>10, FlagsProperties
  <2>2. p \in 1 .. Len(c.before) /\ c.before[p]
    BY <1>6, <1>10, <1>16, <2>1
  <2>3. symbols[p].id \in assigned
    BY <1>5, <1>18, <2>2 DEF Covered
  <2> QED
    BY <1>6, <1>10, <2>1, <2>3
<1>20. running => Covered(symbols', assigned', afterThen)
  <2> SUFFICES ASSUME running, NEW p \in DOMAIN afterThen, afterThen[p]
               PROVE  syms[p].id \in assigned
    BY <1>1, <1>11 DEF Covered
  <2>1. afterThen = Flags(s.symbols)
    BY <1>9, <1>16
  <2>2. p \in 1 .. Len(s.symbols) /\ s.symbols[p].initialized
    BY <1>6, <2>1, FlagsProperties
  <2>3. p \in 1 .. Len(symbols) /\ symbols[p].initialized
    BY <1>6, <2>2
  <2>4. symbols \in Seq(Symbol)
    BY DEF WellFormed, TypeOK
  <2>5. p \in DOMAIN Flags(symbols) /\ Flags(symbols)[p]
    BY <2>3, <2>4, FlagsProperties
  <2>6. symbols[p].id \in assigned
    BY <2>5 DEF Flow, Covered
  <2> QED
    BY <1>6, <1>10, <2>2, <2>6
<1>21. ASSUME NEW i \in DOMAIN open'
       PROVE  /\ open'[i].kind \in {"then", "while"}
                 /\ (running' \/ \E j \in 1 .. i : open'[j].otherRuns)
                 => Covered(symbols', assigned', open'[i].before)
              /\ open'[i].kind = "else" /\ open'[i].otherRuns
                 => Covered(symbols', assigned', open'[i].afterThen)
  <2>1. CASE i = 1
    BY <1>3, <1>12, <1>20, <2>1
  <2>2. CASE i # 1
    <3>1. i \in DOMAIN open /\ open'[i] = open[i]
      BY <1>7, <1>12, <2>2
    <3> DEFINE f == open[i].before
               g == open[i].afterThen
    <3>2. /\ f \in Seq(BOOLEAN) /\ g \in Seq(BOOLEAN)
          /\ open[i].kind \in Saving => Len(f) <= bases[n]
          /\ open[i].kind = "else" => Len(g) <= bases[n]
      BY <3>1, SavesAreInScope
    <3> HIDE DEF f, g
    <3>3. /\ open[i].kind \in Saving
             => \A p \in 1 .. Len(f) : symbols'[p].id = symbols[p].id
          /\ open[i].kind = "else"
             => \A p \in 1 .. Len(g) : symbols'[p].id = symbols[p].id
      <4>1. \A p \in 1 .. Len(s.symbols) : symbols'[p].id = symbols[p].id
        BY <1>6, <1>10, <1>11
      <4>2. Len(s.symbols) = bases[n] /\ bases[n] \in Nat
        BY <1>6
      <4>3. Len(f) \in Nat /\ Len(g) \in Nat
        BY <3>2
      <4> HIDE DEF n
      <4>4. /\ open[i].kind \in Saving => 1 .. Len(f) \subseteq 1 .. Len(s.symbols)
            /\ open[i].kind = "else" => 1 .. Len(g) \subseteq 1 .. Len(s.symbols)
        BY <3>2, <4>2, <4>3
      <4> QED
        BY <4>1, <4>4
    <3>4. ASSUME open'[i].kind \in {"then", "while"},
                 running' \/ \E j \in 1 .. i : open'[j].otherRuns
          PROVE  Covered(symbols', assigned', f)
      <4>1. open[i].kind \in {"then", "while"} /\ open[i].kind \in Saving
        BY <3>1, <3>4 DEF Saving
      <4>2. running \/ \E j \in 1 .. i : open[j].otherRuns
        <5>1. CASE running'
          <6>1. 1 \in 1 .. i
            BY <1>7, <1>12
          <6> QED
            BY <1>1, <1>5, <5>1, <6>1
        <5>2. ASSUME NEW j \in 1 .. i, open'[j].otherRuns
              PROVE  running \/ open[j].otherRuns
          <6>1. CASE j = 1
            BY <1>3, <1>12, <5>2, <6>1
          <6>2. CASE j # 1
            BY <1>7, <1>12, <5>2, <6>2
          <6> QED
            BY <6>1, <6>2
        <5> QED
          BY <3>4, <5>1, <5>2
      <4>3. Covered(symbols, assigned, f)
        BY <3>1, <4>1, <4>2 DEF f, Flow, SavesAreSound
      <4> QED
        BY <1>1, <3>2, <3>3, <4>1, <4>3, CoveredStill
    <3>5. ASSUME open'[i].kind = "else", open'[i].otherRuns
          PROVE  Covered(symbols', assigned', g)
      <4>1. open[i].kind = "else" /\ open[i].otherRuns
        BY <3>1, <3>5
      <4>2. Covered(symbols, assigned, g)
        BY <3>1, <4>1 DEF g, Flow, SavesAreSound
      <4> QED
        BY <1>1, <3>2, <3>3, <4>1, <4>2, CoveredStill
    <3> QED
      BY <3>1, <3>4, <3>5 DEF f, g
  <2> QED
    BY <2>1, <2>2
<1>22. SavesAreSound'
  BY <1>21 DEF SavesAreSound
<1> QED
  BY <1>15, <1>17, <1>19, <1>22 DEF Flow

(* A function begins where nothing is open: its parameters are the only    *)
(* symbols, and have values.                                               *)
LEMMA FlowOpenFunction ==
    ASSUME WellFormed, Flow, ~NestedFunctions, errors' = {},
           NEW params \in SUBSET Names, NEW valued \in BOOLEAN,
           OpenFunction(params, valued)
    PROVE  Flow'
<1>0. PICK ok \in BOOLEAN : open' = <<FunctionConstruct(params, valued, ok)>> \o open
  BY OpenFunctionEffect
<1> DEFINE c == FunctionConstruct(params, valued, ok)
<1>1. open = <<>> /\ open' = <<c>> \o open
  BY <1>0, OpenFunctionEffect
<1>2. /\ symbols = <<>> /\ ~running /\ failed = 0 /\ Len(bases) = 1
  BY <1>1 DEF Flow, OneFunction
<1>3. /\ failed' = 0 /\ Len(bases') = 3 /\ bases'[2] = 0
      /\ \A p \in 1 .. Len(symbols') : symbols'[p].id \in assigned'
  <2>1. /\ failed' = failed /\ Len(bases') = Len(bases) + 2
        /\ bases'[Len(bases) + 1] = 0
        /\ \A p \in 1 .. Len(symbols') : symbols'[p].id \in assigned'
    BY <1>2, OpenFunctionEffect
  <2> QED
    BY <1>2, <2>1
<1>4. c \in Construct /\ c.kind = "function" /\ ~c.otherRuns
  BY <1>2, FunctionConstructType DEF WellFormed
<1> HIDE DEF c
<1>5. open' = <<c>>
  BY <1>1, <1>4
<1>6. Len(open') = 1 /\ DOMAIN open' = 1 .. 1 /\ open'[1] = c /\ open' # <<>>
  BY <1>5
<1>7. OneFunction'
  BY <1>3, <1>4, <1>6 DEF OneFunction
<1>8. \A i \in DOMAIN open' : open'[i].kind = "function"
  BY <1>4, <1>6
<1>9. SavesFit' /\ SavesAreSound'
  BY <1>8 DEF SavesFit, SavesAreSound, Saving
<1>10. running' => Covered(symbols', assigned', Flags(symbols'))
  <2>1. symbols' \in Seq(Symbol)
    BY OpenFunctionEffect DEF Scopes, ScopeStack
  <2> DEFINE u == symbols'
  <2>2. u \in Seq(Symbol)
    BY <2>1
  <2> HIDE DEF u
  <2>3. DOMAIN Flags(u) = 1 .. Len(u)
    BY <2>2, FlagsProperties
  <2> QED
    BY <1>3, <2>3 DEF u, Covered
<1> QED
  BY <1>7, <1>9, <1>10 DEF Flow

(* A function ends where nothing else is open, and takes its two scopes    *)
(* and all symbols with it.                                                *)
LEMMA FlowCloseFunction ==
    ASSUME WellFormed, Flow, CloseFunction
    PROVE  Flow'
<1> DEFINE s == Popped(Scopes)
           t == Popped(s)
<1>1. /\ open # <<>> /\ Head(open).kind = "function"
      /\ t \in ScopeStack /\ ScopesBecome(t)
      /\ open' = Tail(open) /\ running' = Head(open).otherRuns
  BY CloseFunctionEffect
<1>2. /\ open \in Seq(Construct) /\ Len(open) \in Nat \ {0} /\ DOMAIN open = 1 .. Len(open)
      /\ Tail(open) \in Seq(Construct) /\ Len(Tail(open)) = Len(open) - 1
      /\ Head(open) = open[1]
  BY <1>1, TailProperties DEF WellFormed, TypeOK
<1>3. 1 = Len(open) /\ ~open[1].otherRuns
  <2>1. 1 \in DOMAIN open
    BY <1>2
  <2> QED
    BY <1>1, <1>2, <2>1 DEF Flow, OneFunction
<1>4. open' = <<>>
  BY <1>1, <1>2, <1>3, EmptySeq
<1>5. /\ s.failed = 0 /\ Len(bases) = 3 /\ Len(s.bases) = 2 /\ s.bases[2] = 0
      /\ s \in ScopeStack /\ Nested(s)
  <2>1. /\ s.failed = 0 /\ Len(bases) = 2 + Len(open) /\ Len(bases) \in Nat
        /\ Len(s.bases) = Len(bases) - 1
        /\ \A k \in 1 .. Len(bases) - 1 : s.bases[k] = bases[k]
    BY <1>1, PoppedHere
  <2>2. bases[2] = 0
    BY <1>1 DEF Flow, OneFunction
  <2>3. s \in ScopeStack /\ Nested(s)
    BY <1>1, InnermostProperties
  <2> HIDE DEF s, t
  <2>4. Len(bases) = 3
    <3>1. Len(open) = 1 /\ Len(bases) = 2 + Len(open)
      BY <1>3, <2>1
    <3> QED
      BY <3>1
  <2>5. Len(s.bases) = 2 /\ 2 \in 1 .. Len(bases) - 1
    <3>1. Len(s.bases) = Len(bases) - 1
      BY <2>1
    <3> QED
      BY <2>4, <3>1
  <2>6. s.bases[2] = 0
    BY <2>1, <2>2, <2>5
  <2> QED
    BY <2>1, <2>3, <2>4, <2>5, <2>6
<1> HIDE DEF s
<1>6. t.failed = 0 /\ Len(t.bases) = 1 /\ Len(t.symbols) = 0
  <2>1. Len(s.bases) >= 1
    BY <1>5
  <2>2. /\ t.failed = 0 /\ Len(t.bases) = Len(s.bases) - 1
        /\ Len(t.symbols) = s.bases[Len(s.bases)]
    BY <1>5, <2>1, PoppedScope
  <2> QED
    BY <1>5, <2>2
<1> HIDE DEF t
<1>7. symbols' = t.symbols /\ bases' = t.bases /\ failed' = t.failed
  BY <1>1, ScopesBecomeThem
<1>8. t.symbols \in Seq(Symbol)
  BY <1>1 DEF ScopeStack
<1>9. symbols' = <<>>
  BY <1>6, <1>7, <1>8, EmptySeq
<1>10. ~running'
  BY <1>1, <1>2, <1>3
<1>11. OneFunction'
  BY <1>4, <1>6, <1>7, <1>9, <1>10 DEF OneFunction
<1>12. SavesFit' /\ SavesAreSound'
  BY <1>4 DEF SavesFit, SavesAreSound
<1> QED
  BY <1>10, <1>11, <1>12 DEF Flow

(* What is true of the symbols in scope is true of those outside.          *)
LEMMA CoveredInside ==
    ASSUME symbols \in Seq(Symbol), Covered(symbols, assigned, Flags(symbols)),
           NEW syms \in Seq(Symbol),
           \A p \in 1 .. Len(syms) : p \in 1 .. Len(symbols) /\ syms[p] = symbols[p]
    PROVE  Covered(syms, assigned, Flags(syms))
<1> SUFFICES ASSUME NEW p \in DOMAIN Flags(syms), Flags(syms)[p]
             PROVE  syms[p].id \in assigned
  BY DEF Covered
<1>1. p \in 1 .. Len(syms) /\ syms[p].initialized
  BY FlagsProperties
<1>2. p \in 1 .. Len(symbols) /\ symbols[p].initialized /\ syms[p] = symbols[p]
  BY <1>1
<1>3. p \in DOMAIN Flags(symbols) /\ Flags(symbols)[p]
  BY <1>2, FlagsProperties
<1> QED
  BY <1>2, <1>3 DEF Covered

(* The state saved by the construct that is about to end.                  *)
LEMMA InnermostSave ==
    ASSUME WellFormed, Flow, open # <<>>
    PROVE  /\ Head(open).before \in Seq(BOOLEAN) /\ Head(open).afterThen \in Seq(BOOLEAN)
           /\ Head(open).kind \in Saving
              => Len(Head(open).before) = Len(Popped(Scopes).symbols)
           /\ Head(open).kind \in {"then", "while"} /\ (running \/ Head(open).otherRuns)
              => Covered(symbols, assigned, Head(open).before)
           /\ Head(open).kind = "else"
              => Len(Head(open).afterThen) = Len(Popped(Scopes).symbols)
           /\ Head(open).kind = "else" /\ Head(open).otherRuns
              => Covered(symbols, assigned, Head(open).afterThen)
<1> DEFINE c == Head(open)
           s == Popped(Scopes)
           n == Len(bases)
<1>1. /\ c = open[1] /\ c.before \in Seq(BOOLEAN) /\ c.afterThen \in Seq(BOOLEAN)
      /\ 1 \in DOMAIN open /\ 1 \in 1 .. 1
  BY InnermostProperties, TailProperties DEF WellFormed, TypeOK
<1>2. Len(s.symbols) = bases[n] /\ n + 1 - 1 = n
  <2>1. Len(s.symbols) = bases[n] /\ n \in Nat
    BY PoppedHere
  <2> HIDE DEF n, s
  <2> QED
    BY <2>1
<1>3. /\ c.kind \in Saving => Len(c.before) = bases[n + 1 - 1]
      /\ c.kind = "else" => Len(c.afterThen) = bases[n + 1 - 1]
  BY <1>1 DEF Flow, SavesFit
<1>4. /\ c.kind \in {"then", "while"} /\ (running \/ c.otherRuns)
         => Covered(symbols, assigned, c.before)
      /\ c.kind = "else" /\ c.otherRuns => Covered(symbols, assigned, c.afterThen)
  BY <1>1 DEF Flow, SavesAreSound
<1> HIDE DEF c, n, s
<1> QED
  BY <1>1, <1>2, <1>3, <1>4 DEF c, s, n

(* scope_flow_restore with flags that are true of the execution.           *)
LEMMA RestoredIsCovered ==
    ASSUME WellFormed, Flow, open # <<>>, NEW outer \in Seq(Symbol),
           Len(outer) = Len(Popped(Scopes).symbols),
           \A p \in 1 .. Len(outer) : outer[p].id = Popped(Scopes).symbols[p].id,
           NEW flags \in Seq(BOOLEAN), Len(flags) = Len(outer),
           NEW runs, runs => Covered(symbols, assigned, flags)
    PROVE  LET syms == Restored(outer, flags)
           IN  /\ syms \in Seq(Symbol) /\ Len(syms) = Len(Popped(Scopes).symbols)
               /\ \A p \in 1 .. Len(syms) : syms[p].id = Popped(Scopes).symbols[p].id
               /\ runs => Covered(syms, assigned, Flags(syms))
<1> DEFINE s == Popped(Scopes)
           syms == Restored(outer, flags)
<1>1. /\ Len(s.symbols) \in Nat
      /\ \A p \in 1 .. Len(s.symbols) : s.symbols[p] = symbols[p]
  BY PoppedHere
<1>2. /\ Len(outer) = Len(s.symbols)
      /\ \A p \in 1 .. Len(outer) : outer[p].id = s.symbols[p].id
  OBVIOUS
<1> HIDE DEF s
<1>3. /\ syms \in Seq(Symbol) /\ Len(syms) = Len(outer)
      /\ \A p \in 1 .. Len(outer) :
             /\ syms[p].id = outer[p].id
             /\ syms[p].initialized = IF p \in 1 .. Len(flags) THEN flags[p]
                                      ELSE outer[p].initialized
  BY RestoredProperties
<1> HIDE DEF syms
<1>4. ASSUME runs, NEW p \in DOMAIN Flags(syms), Flags(syms)[p]
      PROVE  syms[p].id \in assigned
  <2>1. p \in 1 .. Len(outer) /\ syms[p].initialized
    BY <1>3, <1>4, FlagsProperties
  <2>2. p \in DOMAIN flags /\ flags[p]
    BY <1>3, <2>1
  <2>3. symbols[p].id \in assigned
    BY <1>4, <2>2 DEF Covered
  <2> QED
    BY <1>1, <1>2, <1>3, <2>1, <2>3
<1>5. runs => Covered(syms, assigned, Flags(syms))
  BY <1>4 DEF Covered
<1>6. /\ Len(syms) = Len(s.symbols)
      /\ \A p \in 1 .. Len(syms) : syms[p].id = s.symbols[p].id
  BY <1>2, <1>3
<1> QED
  BY <1>3, <1>5, <1>6 DEF syms, s

(* scope_flow_and keeps what is true of the execution on either side.      *)
LEMMA MergedIsCovered ==
    ASSUME NEW f \in Seq(BOOLEAN), NEW g \in Seq(BOOLEAN), Len(f) = Len(g),
           \/ Covered(symbols, assigned, f)
           \/ Covered(symbols, assigned, g)
    PROVE  Covered(symbols, assigned, Merged(f, g))
<1>1. DOMAIN f = DOMAIN g
  OBVIOUS
<1>2. /\ DOMAIN Merged(f, g) = DOMAIN f
      /\ \A p \in DOMAIN f : Merged(f, g)[p] = (f[p] /\ g[p])
  BY <1>1 DEF Merged
<1>3. \A p \in DOMAIN f : Merged(f, g)[p] => f[p] /\ g[p]
  BY <1>2
<1> QED
  BY <1>1, <1>2, <1>3 DEF Covered

(* Saves do not fail, and what the branches and the loop put back is true  *)
(* of the execution that goes on.                                          *)
LEMMA FlowCloseBlock ==
    ASSUME WellFormed, Flow, CloseBlock
    PROVE  Flow'
<1> DEFINE s == Popped(Scopes)
<1>1. /\ open # <<>> /\ Head(open).kind # "function" /\ Closes(s)
      /\ running' = running
      /\ open' = Tail(open) \/ open' = Returning(Tail(open))
  BY CloseBlockEffect
<1>2. /\ s.symbols \in Seq(Symbol)
      /\ \A p \in 1 .. Len(s.symbols) :
             p \in 1 .. Len(symbols) /\ s.symbols[p] = symbols[p]
  BY <1>1, PoppedHere
<1>3. running' => Covered(s.symbols, assigned, Flags(s.symbols))
  <2>1. symbols \in Seq(Symbol) /\ (running => Covered(symbols, assigned, Flags(symbols)))
    BY DEF WellFormed, TypeOK, Flow
  <2> HIDE DEF s
  <2> QED
    BY <1>1, <1>2, <2>1, CoveredInside
<1> HIDE DEF s
<1>4. /\ Len(s.symbols) = Len(Popped(Scopes).symbols)
      /\ \A p \in 1 .. Len(s.symbols) : s.symbols[p].id = Popped(Scopes).symbols[p].id
  BY DEF s
<1> QED
  BY <1>1, <1>2, <1>3, <1>4, FlowClosing

(* A loop's body may not be entered: what holds after it held before.      *)
LEMMA FlowCloseWhile ==
    ASSUME WellFormed, Flow, CloseWhile
    PROVE  Flow'
<1> DEFINE s == Popped(Scopes)
           c == Head(open)
<1>1. /\ open # <<>> /\ c.kind = "while" /\ open' = Tail(open)
      /\ running' = (running \/ c.otherRuns)
  BY CloseWhileEffect
<1>2. PICK t : Closes(t) /\ t.symbols = Restored(s.symbols, c.before)
  BY CloseWhileEffect
<1> DEFINE syms == Restored(s.symbols, c.before)
<1>3. /\ c.before \in Seq(BOOLEAN) /\ Len(c.before) = Len(s.symbols)
      /\ running' => Covered(symbols, assigned, c.before)
  BY <1>1, InnermostSave DEF Saving
<1>4. /\ syms \in Seq(Symbol) /\ Len(syms) = Len(s.symbols)
      /\ \A p \in 1 .. Len(syms) : syms[p].id = s.symbols[p].id
      /\ running' => Covered(syms, assigned, Flags(syms))
  <2>1. s.symbols \in Seq(Symbol)
    BY <1>1, PoppedHere
  <2> QED
    BY <1>1, <1>3, <2>1, RestoredIsCovered
<1> HIDE DEF syms
<1>5. t.symbols = syms
  BY <1>2 DEF syms
<1> QED
  BY <1>1, <1>2, <1>4, <1>5, FlowClosing

(* An if without an else: what holds after it held before, whether or not  *)
(* its branch was taken.                                                   *)
LEMMA FlowCloseThen ==
    ASSUME WellFormed, Flow, ~SaveFaults, CloseThen
    PROVE  Flow'
<1> DEFINE s == Popped(Scopes)
           c == Head(open)
           outer == Restored(s.symbols, c.before)
<1>1. /\ open # <<>> /\ c.kind = "then" /\ open' = Tail(open)
      /\ running' = (running \/ c.otherRuns)
  BY CloseThenEffect
<1>0. PICK t : \E afterThen \in Seq(BOOLEAN), afterElse \in Saves(outer) :
          /\ outer \in Seq(Symbol) /\ afterElse \in Seq(BOOLEAN)
          /\ Closes(t)
          /\ afterThen \in BranchEnds(s.symbols, c.returns)
          /\ t.symbols = Restored(outer, Merged(afterThen, afterElse))
  BY CloseThenEffect
<1>2. PICK afterThen \in Seq(BOOLEAN), afterElse \in Saves(outer) :
          /\ outer \in Seq(Symbol) /\ afterElse \in Seq(BOOLEAN)
          /\ Closes(t)
          /\ afterThen \in BranchEnds(s.symbols, c.returns)
          /\ t.symbols = Restored(outer, Merged(afterThen, afterElse))
  BY <1>0
<1>3. /\ s.symbols \in Seq(Symbol) /\ Len(s.symbols) \in Nat
      /\ c.before \in Seq(BOOLEAN) /\ Len(c.before) = Len(s.symbols)
      /\ c.returns \in BOOLEAN
      /\ running' => Covered(symbols, assigned, c.before)
  BY <1>1, InnermostSave, InnermostProperties, PoppedHere DEF Saving
<1> DEFINE f == Merged(afterThen, afterElse)
           syms == Restored(outer, f)
<1>4. /\ Len(outer) = Len(s.symbols)
      /\ \A p \in 1 .. Len(outer) :
             outer[p].id = s.symbols[p].id /\ outer[p].initialized = c.before[p]
  BY <1>3, RestoredProperties
<1>5. afterElse = c.before
  <2>1. afterElse = Flags(outer)
    BY <1>2 DEF Saves
  <2>2. /\ Len(afterElse) = Len(c.before)
        /\ \A p \in 1 .. Len(c.before) : afterElse[p] = c.before[p]
    <3> HIDE DEF s, c, outer
    <3> QED
      BY <1>2, <1>3, <1>4, <2>1, FlagsProperties
  <2> QED
    BY <1>2, <1>3, <2>2, SeqEqual
<1>6. Len(afterThen) = Len(s.symbols)
  BY <1>2, <1>3, BranchEndsAre
<1>7. /\ f \in Seq(BOOLEAN) /\ Len(f) = Len(outer)
      /\ running' => Covered(symbols, assigned, f)
  <2>1. f \in Seq(BOOLEAN) /\ Len(f) = Len(afterThen)
    BY <1>2, MergedType
  <2> HIDE DEF s, c, outer
  <2>2. running' => Covered(symbols, assigned, f)
    BY <1>2, <1>3, <1>5, <1>6, MergedIsCovered
  <2> QED
    BY <1>4, <1>6, <2>1, <2>2
<1> HIDE DEF f
<1>8. /\ syms \in Seq(Symbol) /\ Len(syms) = Len(s.symbols)
      /\ \A p \in 1 .. Len(syms) : syms[p].id = s.symbols[p].id
      /\ running' => Covered(syms, assigned, Flags(syms))
  BY <1>1, <1>2, <1>4, <1>7, RestoredIsCovered
<1>9. t.symbols = syms
  BY <1>2 DEF f
<1> HIDE DEF syms
<1> QED
  BY <1>1, <1>2, <1>8, <1>9, FlowClosing

(* An if with an else: what holds after it holds at the end of whichever   *)
(* branch was taken; a branch that returns has no say.                     *)
LEMMA FlowCloseElse ==
    ASSUME WellFormed, ReturnsEndTheRun, Flow, ~SaveFaults, CloseElse
    PROVE  Flow'
<1> DEFINE s == Popped(Scopes)
           c == Head(open)
<1>1. /\ open # <<>> /\ c.kind = "else"
      /\ open' = Tail(open) \/ open' = Returning(Tail(open))
      /\ running' = (running \/ c.otherRuns)
  BY CloseElseEffect
<1>0. PICK t : \E afterElse \in BranchEnds(s.symbols, c.returns) :
          /\ afterElse \in Seq(BOOLEAN)
          /\ Closes(t)
          /\ t.symbols = Restored(s.symbols, Merged(c.afterThen, afterElse))
  BY CloseElseEffect
<1>2. PICK afterElse \in BranchEnds(s.symbols, c.returns) :
          /\ afterElse \in Seq(BOOLEAN)
          /\ Closes(t)
          /\ t.symbols = Restored(s.symbols, Merged(c.afterThen, afterElse))
  BY <1>0
<1>3. /\ s.symbols \in Seq(Symbol) /\ Len(s.symbols) \in Nat
      /\ \A p \in 1 .. Len(s.symbols) :
             p \in 1 .. Len(symbols) /\ s.symbols[p] = symbols[p]
      /\ c.afterThen \in Seq(BOOLEAN) /\ Len(c.afterThen) = Len(s.symbols)
      /\ c.returns \in BOOLEAN
      /\ c.otherRuns => Covered(symbols, assigned, c.afterThen)
  BY <1>1, InnermostSave, InnermostProperties, PoppedHere
<1>4. c.returns => ~running
  BY <1>1, InnermostReturns DEF WellFormed
<1> DEFINE f == Merged(c.afterThen, afterElse)
           syms == Restored(s.symbols, f)
<1>5. /\ Len(afterElse) = Len(s.symbols)
      /\ ~c.returns => afterElse = Flags(s.symbols)
  BY <1>2, <1>3, BranchEndsAre
<1>6. running => Covered(symbols, assigned, afterElse)
  <2> SUFFICES ASSUME running, NEW p \in DOMAIN afterElse, afterElse[p]
               PROVE  symbols[p].id \in assigned
    BY DEF Covered
  <2>1. afterElse = Flags(s.symbols)
    BY <1>4, <1>5
  <2>2. symbols \in Seq(Symbol) /\ Covered(symbols, assigned, Flags(symbols))
    BY DEF WellFormed, TypeOK, Flow
  <2>3. Covered(s.symbols, assigned, Flags(s.symbols))
    BY <1>3, <2>2, CoveredInside
  <2>4. s.symbols[p].id \in assigned
    BY <2>1, <2>3 DEF Covered
  <2>5. p \in 1 .. Len(s.symbols)
    BY <1>2, <1>5
  <2> QED
    BY <1>3, <2>4, <2>5
<1>7. /\ f \in Seq(BOOLEAN) /\ Len(f) = Len(s.symbols)
      /\ running' => Covered(symbols, assigned, f)
  <2>1. f \in Seq(BOOLEAN) /\ Len(f) = Len(c.afterThen)
    BY <1>2, <1>3, MergedType
  <2> HIDE DEF s, c
  <2>2. running' => Covered(symbols, assigned, f)
    BY <1>1, <1>2, <1>3, <1>5, <1>6, MergedIsCovered
  <2> QED
    BY <1>3, <2>1, <2>2
<1> HIDE DEF f
<1>8. /\ syms \in Seq(Symbol) /\ Len(syms) = Len(s.symbols)
      /\ \A p \in 1 .. Len(syms) : syms[p].id = s.symbols[p].id
      /\ running' => Covered(syms, assigned, Flags(syms))
  BY <1>1, <1>3, <1>7, RestoredIsCovered
<1>9. t.symbols = syms
  BY <1>2 DEF f
<1> HIDE DEF syms
<1>10. c.kind # "function"
  BY <1>1
<1> QED
  BY <1>1, <1>2, <1>8, <1>9, <1>10, FlowClosing

(* What is true of the flags stays true when one symbol more has a value   *)
(* where the execution gives it one.                                       *)
LEMMA FlowDeclare ==
    ASSUME WellFormed, Flow,
           NEW n \in Names, NEW mutable \in BOOLEAN, NEW e, Declare(n, mutable, e)
    PROVE  Flow'
<1>1. /\ TypeOK /\ symbols \in Seq(Symbol) /\ Len(symbols) \in Nat
      /\ running => Covered(symbols, assigned, Flags(symbols))
  BY DEF WellFormed, TypeOK, Flow
<1>2. open # <<>>
  BY DEF Declare, Statement
<1>3. UNCHANGED <<bases, failed, open, running>>
  BY <1>1, DeclareEffect
<1>4. CASE UNCHANGED <<symbols, nextId, assigned>>
  BY <1>1, <1>2, <1>3, <1>4, FlowStatement
<1>5. ASSUME NEW new \in Symbol,
             symbols' = Append(symbols, new), new.id = nextId,
             assigned' = IF running /\ new.initialized
                         THEN assigned \cup {nextId} ELSE assigned
      PROVE  Flow'
  <2>1. /\ symbols' \in Seq(Symbol) /\ Len(symbols') = Len(symbols) + 1
        /\ \A p \in 1 .. Len(symbols) : symbols'[p] = symbols[p]
        /\ symbols'[Len(symbols) + 1] = new
    BY <1>1, <1>5, AppendProperties
  <2>2. assigned \subseteq assigned'
    BY <1>5
  <2> DEFINE u == symbols'
  <2>3. /\ u \in Seq(Symbol) /\ Len(u) = Len(symbols) + 1
        /\ \A p \in 1 .. Len(symbols) : u[p] = symbols[p]
        /\ u[Len(symbols) + 1] = new
    BY <2>1
  <2> HIDE DEF u
  <2>4. ASSUME running, NEW p \in DOMAIN Flags(u), Flags(u)[p]
        PROVE  u[p].id \in assigned'
    <3>1. p \in 1 .. Len(symbols) + 1 /\ u[p].initialized
      BY <2>3, <2>4, FlagsProperties
    <3>2. CASE p = Len(symbols) + 1
      BY <1>5, <2>3, <2>4, <3>1, <3>2
    <3>3. CASE p # Len(symbols) + 1
      <4>1. p \in 1 .. Len(symbols) /\ u[p] = symbols[p]
        BY <1>1, <2>3, <3>1, <3>3
      <4>2. p \in DOMAIN Flags(symbols) /\ Flags(symbols)[p]
        BY <1>1, <3>1, <4>1, FlagsProperties
      <4> QED
        BY <1>1, <2>2, <2>4, <4>1, <4>2 DEF Covered
    <3> QED
      BY <3>2, <3>3
  <2>5. running' => Covered(symbols', assigned', Flags(symbols'))
    BY <1>3, <2>4 DEF u, Covered
  <2> QED
    BY <1>2, <1>3, <2>1, <2>2, <2>5, FlowStatement
<1> QED
  BY <1>1, <1>4, <1>5, DeclareEffect

LEMMA FlowAssign ==
    ASSUME WellFormed, Flow, NEW n \in Names, NEW e, Assign(n, e)
    PROVE  Flow'
<1>1. /\ TypeOK /\ symbols \in Seq(Symbol) /\ Len(symbols) \in Nat
      /\ running => Covered(symbols, assigned, Flags(symbols))
  BY DEF WellFormed, TypeOK, Flow
<1>2. open # <<>>
  BY DEF Assign, Statement
<1>3. /\ UNCHANGED <<bases, failed, open, running>>
      /\ symbols' \in Seq(Symbol) /\ Len(symbols') = Len(symbols)
      /\ assigned \subseteq assigned'
      /\ \A p \in 1 .. Len(symbols) :
             /\ symbols'[p].id = symbols[p].id
             /\ symbols'[p].initialized /\ ~symbols[p].initialized
                => (running => symbols[p].id \in assigned')
  BY <1>1, AssignEffect
<1> DEFINE u == symbols'
<1>4. /\ u \in Seq(Symbol) /\ Len(u) = Len(symbols)
      /\ \A p \in 1 .. Len(symbols) :
             /\ u[p].id = symbols[p].id
             /\ u[p].initialized /\ ~symbols[p].initialized
                => (running => symbols[p].id \in assigned')
  BY <1>3
<1> HIDE DEF u
<1>5. ASSUME running, NEW p \in DOMAIN Flags(u), Flags(u)[p]
      PROVE  u[p].id \in assigned'
  <2>1. p \in 1 .. Len(symbols) /\ u[p].initialized
    BY <1>4, <1>5, FlagsProperties
  <2>2. CASE symbols[p].initialized
    <3>1. p \in DOMAIN Flags(symbols) /\ Flags(symbols)[p]
      BY <1>1, <2>1, <2>2, FlagsProperties
    <3> QED
      BY <1>1, <1>3, <1>4, <1>5, <2>1, <3>1 DEF Covered
  <2> QED
    BY <1>4, <1>5, <2>1, <2>2
<1>6. running' => Covered(symbols', assigned', Flags(symbols'))
  BY <1>3, <1>5 DEF u, Covered
<1> QED
  BY <1>2, <1>3, <1>6, FlowStatement

(* scope_push succeeded, or "out of memory" is in the log.                 *)
LEMMA PushSucceeded ==
    ASSUME ScopePushed, errors' = {}
    PROVE  bases' = Append(bases, Len(symbols)) /\ failed' = failed /\ errors = {}
<1>1. PICK ok \in Pushes :
          /\ bases' = IF ok THEN Append(bases, Len(symbols)) ELSE bases
          /\ failed' = IF ok THEN failed ELSE failed + 1
          /\ errors' = errors \cup OutOfMemory(ok)
  BY DEF ScopePushed, PushScope
<1>2. ok
  BY <1>1 DEF OutOfMemory
<1> QED
  BY <1>1, <1>2

LEMMA FlowOpensSaving ==
    ASSUME WellFormed, Flow, ~SaveFaults, errors' = {}, open # <<>>,
           NEW kind \in {"then", "while"}, NEW into \in BOOLEAN, OpensSaving(kind, into)
    PROVE  Flow'
<1>1. PICK c \in Construct :
          /\ open' = <<c>> \o open
          /\ c.kind = kind /\ c.before \in Saves(symbols)
          /\ c.otherRuns = (running /\ ~into)
  BY OpensSavingEffect DEF WellFormed
<1>2. c.before = Flags(symbols)
  BY <1>1 DEF Saves
<1>3. bases' = Append(bases, Len(symbols)) /\ failed' = failed
  BY PushSucceeded DEF OpensSaving, ScopePushed
<1>4. running' => running
  BY DEF OpensSaving
<1>5. c.otherRuns => running
  BY <1>1
<1>6. UNCHANGED <<symbols, assigned>>
  BY DEF OpensSaving
<1>7. c.kind \in {"block", "then", "while"}
  BY <1>1
<1> QED
  BY <1>1, <1>2, <1>3, <1>4, <1>5, <1>6, <1>7, FlowOpening

(* Nothing is ever taken out of the log.                                   *)
LEMMA ErrorsStay ==
    ASSUME WellFormed, [Next]_vars
    PROVE  errors \subseteq errors'
<1>1. TypeOK
  BY DEF WellFormed
<1>2. ASSUME NEW n \in Names, NEW mutable \in BOOLEAN,
             NEW e \in Expressions \cup {NoValue}, Declare(n, mutable, e)
      PROVE  errors \subseteq errors'
  BY <1>1, <1>2, DeclareEffect
<1>3. ASSUME NEW n \in Names, NEW e \in Expressions, Assign(n, e)
      PROVE  errors \subseteq errors'
  BY <1>1, <1>3, AssignEffect
<1>4. ASSUME NEW e \in Expressions \cup {NoValue}, Return(e)
      PROVE  errors \subseteq errors'
  BY <1>1, <1>4, ReturnEffect
<1>5. ScopePushed => errors \subseteq errors'
  BY DEF ScopePushed, PushScope
<1>6. ASSUME NEW e \in Expressions, NEW taken \in BOOLEAN, OpenIf(e, taken)
      PROVE  errors \subseteq errors'
  BY <1>1, <1>5, <1>6, OpenIfEffect DEF GivenUp, OpensSaving, ScopePushed
<1>7. ASSUME NEW e \in Expressions, NEW entered \in BOOLEAN, OpenWhile(e, entered)
      PROVE  errors \subseteq errors'
  BY <1>1, <1>5, <1>7, OpenWhileEffect DEF GivenUp, OpensSaving, ScopePushed
<1>8. ASSUME NEW params \in SUBSET Names, NEW valued \in BOOLEAN,
             OpenFunction(params, valued)
      PROVE  errors \subseteq errors'
  BY <1>8, OpenFunctionEffect
<1>9. CASE CloseFunction
  BY <1>9, CloseFunctionEffect
<1>10. CASE OpenBlock
  BY <1>5, <1>10 DEF OpenBlock, ScopePushed
<1>11. CASE Else
  BY <1>11, ElseEffect
<1>12. CASE CloseBlock \/ CloseThen \/ CloseElse \/ CloseWhile
  BY <1>12 DEF CloseBlock, CloseThen, CloseElse, CloseWhile, EndIf
<1>13. CASE UNCHANGED vars
  BY <1>13 DEF vars
<1> QED
  BY <1>2, <1>3, <1>4, <1>6, <1>7, <1>8, <1>9, <1>10, <1>11, <1>12, <1>13
     DEF Next, EndOfProgram

LEMMA FlowStep ==
    ASSUME ~NestedFunctions, ~SaveFaults,
           WellFormed, ReturnsEndTheRun, FlowInv, [Next]_vars
    PROVE  FlowInv'
<1> SUFFICES ASSUME errors' = {} PROVE Flow'
  BY DEF FlowInv
<1>1. errors = {} /\ Flow /\ TypeOK
  BY ErrorsStay DEF FlowInv, WellFormed
<1>2. ASSUME NEW n \in Names, NEW mutable \in BOOLEAN,
             NEW e \in Expressions \cup {NoValue}, Declare(n, mutable, e)
      PROVE  Flow'
  BY <1>1, <1>2, FlowDeclare
<1>3. ASSUME NEW n \in Names, NEW e \in Expressions, Assign(n, e)
      PROVE  Flow'
  BY <1>1, <1>3, FlowAssign
<1>4. ASSUME NEW e \in Expressions \cup {NoValue}, Return(e)
      PROVE  Flow'
  <2>1. /\ ~running' /\ open' = Returning(open) /\ open # <<>>
        /\ UNCHANGED <<symbols, bases, failed, assigned>>
    BY <1>4 DEF Return, Statement, scopeVars
  <2> QED
    BY <1>1, <2>1, FlowStatement
<1>5. CASE OpenBlock
  <2>1. /\ ScopePushed /\ open # <<>>
        /\ UNCHANGED <<symbols, assigned>> /\ running' = running
    BY <1>5 DEF OpenBlock, Statement, execution, ScopePushed
  <2>2. bases' = Append(bases, Len(symbols)) /\ failed' = failed
    BY <2>1, PushSucceeded
  <2>3. PICK c \in Construct :
            open' = <<c>> \o open /\ c.kind = "block" /\ ~c.otherRuns
    BY <1>1, <1>5, OpenBlockEffect DEF WellFormed
  <2> QED
    BY <1>1, <2>1, <2>2, <2>3, FlowOpening
<1>6. CASE CloseBlock
  BY <1>1, <1>6, FlowCloseBlock
<1>7. ASSUME NEW e \in Expressions, NEW taken \in BOOLEAN, OpenIf(e, taken)
      PROVE  Flow'
  <2>1. OpensSaving("then", taken) /\ open # <<>>
    BY <1>1, <1>7, OpenIfEffect DEF GivenUp, OpenIf, Statement
  <2> QED
    BY <1>1, <2>1, FlowOpensSaving
<1>8. CASE Else
  BY <1>1, <1>8, FlowElse
<1>9. CASE CloseThen
  BY <1>1, <1>9, FlowCloseThen
<1>10. CASE CloseElse
  BY <1>1, <1>10, FlowCloseElse
<1>11. ASSUME NEW e \in Expressions, NEW entered \in BOOLEAN, OpenWhile(e, entered)
       PROVE  Flow'
  <2>1. OpensSaving("while", entered) /\ open # <<>>
    BY <1>1, <1>11, OpenWhileEffect DEF GivenUp, OpenWhile, Statement
  <2> QED
    BY <1>1, <2>1, FlowOpensSaving
<1>12. CASE CloseWhile
  BY <1>1, <1>12, FlowCloseWhile
<1>13. ASSUME NEW params \in SUBSET Names, NEW valued \in BOOLEAN,
              OpenFunction(params, valued)
       PROVE  Flow'
  BY <1>1, <1>13, FlowOpenFunction
<1>14. CASE CloseFunction
  BY <1>1, <1>14, FlowCloseFunction
<1>15. CASE UNCHANGED vars
  BY <1>1, <1>15 DEF vars, scopeVars, execution, Flow, OneFunction, SavesFit,
     SavesAreSound, Covered, Flags
<1> QED
  BY <1>2, <1>3, <1>4, <1>5, <1>6, <1>7, <1>8, <1>9, <1>10, <1>11, <1>12, <1>13, <1>14,
     <1>15 DEF Next, EndOfProgram

LEMMA FlowInit ==
    ASSUME Init
    PROVE  FlowInv
<1>1. Len(<<0>>) = 1 /\ DOMAIN <<>> = {}
  BY EmptySeq
<1>2. OneFunction /\ ~running /\ open = <<>>
  BY <1>1 DEF Init, OneFunction
<1> QED
  BY <1>1, <1>2 DEF FlowInv, Flow, SavesFit, SavesAreSound

(* No accepted program reads a variable that has no value, whichever way   *)
(* its conditions go: the flow analysis is sound for programs of any size  *)
(* that declare no function inside another, when no save of the flow state *)
(* fails.  Without either condition it is not.                             *)
THEOREM AcceptedReadsAreSound ==
    ASSUME ~NestedFunctions, ~SaveFaults
    PROVE  Spec => []FlowIsSound
<1>1. Init => FlowInv
  BY FlowInit
<1>2. WellFormed /\ ReturnsEndTheRun /\ FlowInv /\ [Next]_vars => FlowInv'
  BY FlowStep
<1>3. WellFormed /\ FlowInv => FlowIsSound
  <2> SUFFICES ASSUME WellFormed, FlowInv, errors = {}, running,
                      NEW i \in DOMAIN symbols, symbols[i].initialized
               PROVE  symbols[i].id \in assigned
    BY DEF FlowIsSound
  <2>1. symbols \in Seq(Symbol) /\ Covered(symbols, assigned, Flags(symbols))
    BY DEF WellFormed, TypeOK, FlowInv, Flow
  <2>2. i \in DOMAIN Flags(symbols) /\ Flags(symbols)[i]
    BY <2>1, FlagsProperties
  <2> QED
    BY <2>1, <2>2 DEF Covered
<1> QED
  BY <1>1, <1>2, <1>3, AlwaysWellFormed, AlwaysReturnsEndTheRun, PTL DEF Spec

=============================================================================
