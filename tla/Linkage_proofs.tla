----------------------------- MODULE Linkage_proofs -----------------------------
(***************************************************************************)
(* From declarations to a linked program, for every program.               *)
(*                                                                         *)
(*   - Link names are read back in one way (mangle.c): no two functions of *)
(*     modules have one, and none is named like a function of the text.    *)
(*   - IInv: names are unique in a symbol table, and every body that code  *)
(*     is generated for is recorded in the entry of its name.              *)
(*   - Tracked: every entry of a table comes from a function of the unit   *)
(*     or from a public one of a module that it imports, all of these have *)
(*     entries, and code has their link names.                             *)
(*   - Of a program whose units were all analysed: it links, and its calls *)
(*     end where the text says.                                            *)
(***************************************************************************)
EXTENDS Linkage, SequenceTheorems, WellFoundedInduction, TLAPS

(* What Append does to a sequence whose elements are not typed. *)
LEMMA AppendIsSequence ==
    ASSUME NEW s, IsSequence(s), NEW x
    PROVE  /\ IsSequence(Append(s, x))
           /\ DOMAIN Append(s, x) = 1 .. Len(s) + 1
           /\ DOMAIN s = 1 .. Len(s) /\ Len(s) \in Nat
           /\ \A i \in DOMAIN s : Append(s, x)[i] = s[i]
           /\ Append(s, x)[Len(s) + 1] = x
<1> DEFINE R == {s[i] : i \in DOMAIN s}
           S == R \cup {x}
           t == Append(s, x)
<1>1. s \in Seq(R)
  BY DEF IsSequence
<1>2. s \in Seq(S) /\ Len(s) \in Nat /\ DOMAIN s = 1 .. Len(s)
  BY <1>1
<1>3. /\ t \in Seq(S)
      /\ Len(t) = Len(s) + 1
      /\ \A i \in 1 .. Len(s) : t[i] = s[i]
      /\ t[Len(s) + 1] = x
  BY <1>2, x \in S, AppendProperties
<1>4. DOMAIN t = 1 .. Len(s) + 1
  BY <1>2, <1>3
<1>5. t \in Seq({t[i] : i \in DOMAIN t})
  <2> DEFINE T == {t[i] : i \in DOMAIN t}
  <2>1. t \in [1 .. Len(t) -> S] /\ Len(t) \in Nat
    BY <1>3, LenProperties
  <2>2. t \in [1 .. Len(t) -> T]
    BY <2>1
  <2>. QED  BY <2>1, <2>2, SeqDef
<1>. QED
  BY <1>2, <1>3, <1>4, <1>5 DEF IsSequence

-----------------------------------------------------------------------------
(* What an insertion (sf_func_symbol_table_insert) leaves behind: the type *)
(* of the table, unique names, and every entry with its name and, once it  *)
(* is set, its mark of a body.                                             *)
Unique(t) == \A i, j \in DOMAIN t : t[i].name = t[j].name => i = j
Symbols(t) == IsSequence(t) /\ \A i \in DOMAIN t : IsSymbol(t[i])

LEMMA InsertKeepsTable ==
    ASSUME NEW t, Symbols(t), Unique(t), NEW sym, IsSymbol(sym)
    PROVE  /\ Symbols(Insert(t, sym)) /\ Unique(Insert(t, sym))
           /\ \A i \in DOMAIN t : /\ i \in DOMAIN Insert(t, sym)
                                  /\ Insert(t, sym)[i].name = t[i].name
                                  /\ t[i].defined => Insert(t, sym)[i].defined
           /\ ~Refused(t, sym) => \E i \in DOMAIN Insert(t, sym) :
                /\ Insert(t, sym)[i].name = sym.name
                /\ sym.defined => Insert(t, sym)[i].defined
<1>1. CASE Refused(t, sym)
  BY <1>1 DEF Insert
<1>2. CASE ~Refused(t, sym) /\ Entries(t, sym.name) = {}
  <2> DEFINE r == Append(t, sym)
  <2>1. Insert(t, sym) = r
    BY <1>2 DEF Insert
  <2>2. /\ IsSequence(r) /\ DOMAIN r = 1 .. Len(t) + 1
        /\ DOMAIN t = 1 .. Len(t) /\ Len(t) \in Nat
        /\ \A i \in DOMAIN t : r[i] = t[i]
        /\ r[Len(t) + 1] = sym
    BY AppendIsSequence DEF Symbols
  <2>3. \A i \in DOMAIN t : t[i].name # sym.name
    BY <1>2 DEF Entries
  <2>4. \A i \in DOMAIN r : i \in DOMAIN t \/ i = Len(t) + 1
    BY <2>2
  <2>5. Symbols(r)
    BY <2>2, <2>4 DEF Symbols
  <2>6. Unique(r)
    BY <2>2, <2>3, <2>4 DEF Unique
  <2>7. Len(t) + 1 \in DOMAIN r /\ \A i \in DOMAIN t : i \in DOMAIN r
    BY <2>2
  <2> HIDE DEF r
  <2>. QED  BY <1>2, <2>1, <2>2, <2>5, <2>6, <2>7
<1>3. CASE ~Refused(t, sym) /\ Entries(t, sym.name) # {}
  <2> DEFINE r == [i \in DOMAIN t |->
                     IF t[i].name = sym.name THEN [t[i] EXCEPT !.defined = @ \/ sym.defined]
                     ELSE t[i]]
  <2>1. Insert(t, sym) = r
    BY <1>3 DEF Insert
  <2>2. DOMAIN r = DOMAIN t
    OBVIOUS
  <2>3. ASSUME NEW i \in DOMAIN t
        PROVE  /\ IsSymbol(r[i]) /\ r[i].name = t[i].name
               /\ t[i].defined => r[i].defined
               /\ t[i].name = sym.name /\ sym.defined => r[i].defined
    <3>1. IsSymbol(t[i])
      BY DEF Symbols
    <3>2. CASE t[i].name = sym.name
      <4>1. r[i] = [t[i] EXCEPT !.defined = @ \/ sym.defined]
        BY <3>2
      <4>2. r[i] = [name |-> t[i].name, sig |-> t[i].sig, quals |-> t[i].quals,
                    defined |-> t[i].defined \/ sym.defined,
                    imported |-> t[i].imported, link |-> t[i].link]
        BY <3>1, <4>1 DEF IsSymbol
      <4>. QED  BY <3>1, <4>2 DEF IsSymbol
    <3>3. CASE t[i].name # sym.name
      BY <3>1, <3>3
    <3>. QED  BY <3>2, <3>3
  <2>4. IsSequence(r)
    <3>1. t \in Seq({t[i] : i \in DOMAIN t})
      BY DEF Symbols, IsSequence
    <3>2. DOMAIN t = 1 .. Len(t) /\ Len(t) \in Nat
      BY <3>1
    <3>3. r \in [1 .. Len(t) -> {r[i] : i \in DOMAIN r}]
      BY <3>2
    <3>. QED  BY <3>2, <3>3, SeqDef DEF IsSequence
  <2> HIDE DEF r
  <2>5. Symbols(r) /\ Unique(r)
    BY <2>2, <2>3, <2>4 DEF Symbols, Unique
  <2>6. PICK e \in DOMAIN t : t[e].name = sym.name
    BY <1>3 DEF Entries
  <2>. QED  BY <1>3, <2>1, <2>2, <2>3, <2>5, <2>6
<1>. QED  BY <1>1, <1>2, <1>3

-----------------------------------------------------------------------------
(* One unit's table is replaced by what an insertion makes of it. *)
LEMMA TableStep ==
    ASSUME Shape, OneEntryEach,
           NEW sym, IsSymbol(sym), NEW u0 \in UnitSet,
           table' = [table EXCEPT ![u0] = Insert(@, sym)]
    PROVE  /\ DOMAIN table' = UnitSet
           /\ \A u \in UnitSet : Symbols(table[u]') /\ Unique(table[u]')
           /\ \A u \in UnitSet : \A i \in DOMAIN table[u] :
                /\ i \in DOMAIN table[u]'
                /\ table[u]'[i].name = table[u][i].name
                /\ table[u][i].defined => table[u]'[i].defined
           /\ ~Refused(table[u0], sym) => \E i \in DOMAIN table[u0]' :
                /\ table[u0]'[i].name = sym.name
                /\ sym.defined => table[u0]'[i].defined
<1>1. \A u \in UnitSet : Symbols(table[u]) /\ Unique(table[u])
  BY DEF Shape, OneEntryEach, Symbols, Unique
<1>2. DOMAIN table = UnitSet
  BY DEF Shape
<1>3. table[u0]' = Insert(table[u0], sym)
  BY <1>2
<1>4. \A u \in UnitSet : u # u0 => table[u]' = table[u]
  BY <1>2
<1>5. DOMAIN table' = UnitSet
  BY <1>2
<1>6. ASSUME NEW u \in UnitSet
      PROVE  /\ Symbols(table[u]') /\ Unique(table[u]')
             /\ \A i \in DOMAIN table[u] :
                /\ i \in DOMAIN table[u]'
                /\ table[u]'[i].name = table[u][i].name
                /\ table[u][i].defined => table[u]'[i].defined
  <2>1. CASE u = u0
    BY <2>1, <1>1, <1>3, InsertKeepsTable
  <2>2. CASE u # u0
    BY <2>2, <1>1, <1>4
  <2>. QED  BY <2>1, <2>2
<1>7. ~Refused(table[u0], sym) => \E i \in DOMAIN table[u0]' :
        table[u0]'[i].name = sym.name /\ (sym.defined => table[u0]'[i].defined)
  BY <1>1, <1>3, InsertKeepsTable
<1>. QED  BY <1>5, <1>6, <1>7

(* If only tables change, and so that names stay unique and entries stay,  *)
(* bodies stay known.                                                      *)
LEMMA KeepsBodies ==
    ASSUME IInv, UNCHANGED <<program, unit, functions>>, next' \in Nat, copied' \in Nat,
           DOMAIN table' = UnitSet,
           \A u \in UnitSet : Symbols(table[u]') /\ Unique(table[u]'),
           \A u \in UnitSet : \A i \in DOMAIN table[u] :
                /\ i \in DOMAIN table[u]'
                /\ table[u]'[i].name = table[u][i].name
                /\ table[u][i].defined => table[u]'[i].defined
    PROVE  IInv'
<1>1. Shape'
  BY DEF IInv, Shape, Symbols
<1>2. OneEntryEach'
  BY DEF OneEntryEach, Unique
<1>3. BodiesAreKnown'
  BY DEF IInv, BodiesAreKnown, Defined
<1>4. OneBodyEach'
  BY DEF IInv, OneBodyEach, Defined
<1>. QED  BY <1>1, <1>2, <1>3, <1>4 DEF IInv

LEMMA UnitsAreTheirSet ==
    /\ ModuleSet \subseteq UnitSet /\ Root \in UnitSet /\ Root \notin ModuleSet
    /\ \A u \in UnitSet : u = Root \/ u \in ModuleSet
    /\ Len(Units) \in Nat /\ DOMAIN Units = 1 .. Len(Units)
    /\ \A i \in DOMAIN Units : Units[i] \in UnitSet
    /\ \A i \in DOMAIN Units : i \in Nat /\ (Units[i] # Root => i + 1 \in DOMAIN Units)
    /\ \A i \in DOMAIN Units : Units[i] = Root => i = Len(Units)
    /\ \A i, j \in DOMAIN Units : Units[i] = Units[j] => i = j
    /\ 1 \in DOMAIN Units
<1>1. Modules \in Seq(ModuleSet)
  BY LinkageAssumption, Zenon
<1>2. Root \notin ModuleSet
  BY LinkageAssumption, Zenon
<1>3. \A i, j \in DOMAIN Modules : i # j => Modules[i] # Modules[j]
  BY LinkageAssumption, Zenon
<1>4. /\ Len(Modules) \in Nat /\ DOMAIN Modules = 1 .. Len(Modules)
      /\ Units \in Seq(ModuleSet \cup {Root})
      /\ Len(Units) = Len(Modules) + 1
      /\ \A i \in 1 .. Len(Modules) : Units[i] = Modules[i]
      /\ Units[Len(Modules) + 1] = Root
  <2>1. Modules \in Seq(ModuleSet \cup {Root})
    BY <1>1
  <2>. QED  BY <1>1, <2>1, AppendProperties, LenProperties DEF Units
<1>5. DOMAIN Units = 1 .. Len(Modules) + 1
  BY <1>4, LenProperties
<1>6. ModuleSet \subseteq UnitSet /\ Root \in UnitSet
  BY <1>4, <1>5 DEF ModuleSet, UnitSet
<1>7. \A i \in DOMAIN Units : (i \in DOMAIN Modules /\ Units[i] \in ModuleSet) \/ i = Len(Units)
  BY <1>4, <1>5 DEF ModuleSet
<1>8. \A i \in DOMAIN Units : Units[i] = Root => i = Len(Units)
  BY <1>2, <1>7
<1>9. ASSUME NEW i \in DOMAIN Units, NEW j \in DOMAIN Units, Units[i] = Units[j]
      PROVE  i = j
  <2>1. CASE Units[i] = Root
    BY <1>8, <1>9, <2>1
  <2>2. CASE Units[i] # Root
    <3>1. i # Len(Units) /\ j # Len(Units)
      BY <1>4, <1>9, <2>2
    <3>. QED  BY <1>3, <1>4, <1>7, <1>9, <3>1
  <2>. QED  BY <2>1, <2>2
<1>10. \A u \in UnitSet : u = Root \/ u \in ModuleSet
  BY <1>4, <1>7 DEF UnitSet
<1>. QED  BY <1>2, <1>4, <1>5, <1>6, <1>8, <1>9, <1>10 DEF UnitSet

LEMMA DependencyIsAModule == Dependency \subseteq ModuleSet
BY DEF Dependency, Found, FoundIn

(* An import changes a table and no function. *)
LEMMA ImportKeepsIInv ==
    ASSUME IInv, ImportSymbol
    PROVE  IInv'
<1>1. PICK m \in Dependency :
        /\ copied < Len(table[m])
        /\ LET s   == table[m][copied + 1]
               sym == AsImported(m, s)
           IN  IF Exported(s)
               THEN /\ table' = [table EXCEPT ![Current] = Insert(@, sym)]
                    /\ failed' = (failed \/ Refused(table[Current], sym))
               ELSE UNCHANGED <<table, failed>>
  BY DEF ImportSymbol
<1> DEFINE s   == table[m][copied + 1]
           sym == AsImported(m, s)
<1>2. UNCHANGED <<program, unit, functions>> /\ next' \in Nat /\ copied' \in Nat
  BY DEF ImportSymbol, IInv, Shape
<1>3. m \in UnitSet /\ Current \in UnitSet
  BY UnitsAreTheirSet, DependencyIsAModule DEF Current, IInv, Shape
<1>4. IsSymbol(s)
  <2>1. table[m] \in Seq({table[m][i] : i \in DOMAIN table[m]})
    BY <1>3 DEF IInv, Shape, IsSequence
  <2>2. copied + 1 \in DOMAIN table[m]
    BY <1>1, <2>1, LenProperties DEF IInv, Shape
  <2>. QED  BY <1>3, <2>2 DEF IInv, Shape
<1>5. IsSymbol(sym)
  <2> DEFINE link == ImportedLink(Current, m, s.name)
  <2>1. sym = [s EXCEPT !.imported = TRUE, !.defined = TRUE, !.link = link]
    BY DEF AsImported
  <2> HIDE DEF link, sym, s
  <2>2. sym = [name |-> s.name, sig |-> s.sig, quals |-> s.quals,
               defined |-> TRUE, imported |-> TRUE, link |-> link]
    BY <1>4, <2>1 DEF IsSymbol
  <2>. QED  BY <2>2 DEF IsSymbol
<1>6. CASE Exported(s)
  <2>1. table' = [table EXCEPT ![Current] = Insert(@, sym)]
    BY <1>1, <1>6
  <2>2. Shape /\ OneEntryEach
    BY DEF IInv
  <2> HIDE DEF sym
  <2>. QED  BY <1>2, <1>3, <1>5, <2>1, <2>2, TableStep, KeepsBodies
<1>7. CASE ~Exported(s)
  <2>1. table' = table
    BY <1>1, <1>7
  <2>. QED  BY <1>2, <2>1 DEF IInv, Shape, OneEntryEach, BodiesAreKnown, OneBodyEach, Defined
<1>. QED  BY <1>6, <1>7

-----------------------------------------------------------------------------
(* A declaration: its symbol is inserted, and code is generated for it     *)
(* only if nothing was refused, so that its body is the first.             *)
LEMMA FuncDeclKeepsIInv ==
    ASSUME IInv, FuncDecl
    PROVE  IInv'
<1> DEFINE sym == Symbol(Item)
           t   == table[Current]
           t2  == Insert(t, sym)
           fn  == Function(t2, sym, Item)
<1>1. /\ UNCHANGED <<program, unit, copied>> /\ next' = next + 1
      /\ table' = IF BadQualifiers(sym) THEN table ELSE [table EXCEPT ![Current] = t2]
      /\ \/ functions' = functions
         \/ /\ ~BadQualifiers(sym) /\ ~Refused(t, sym)
            /\ functions' = [functions EXCEPT ![Current] = Append(@, fn)]
  BY DEF FuncDecl
<1>2. Current \in UnitSet
  BY UnitsAreTheirSet DEF Current, IInv, Shape
<1>3. Item.defined \in BOOLEAN
  <2> DEFINE k == next - Len(Imports(Current))
  <2>1. /\ Len(Imports(Current)) \in Nat /\ Len(Items(Current)) \in Nat
        /\ DOMAIN Items(Current) = 1 .. Len(Items(Current))
        /\ \A i \in DOMAIN Items(Current) : Items(Current)[i].defined \in BOOLEAN
    BY <1>2, LinkageAssumption DEF IInv, Shape, Imports, Items
  <2>2. k \in DOMAIN Items(Current)
    BY <2>1 DEF FuncDecl, IInv, Shape
  <2>. QED  BY <2>1, <2>2 DEF Item
<1>4. IsSymbol(sym) /\ sym.name = Item.name /\ sym.defined = Item.defined
  BY <1>3 DEF Symbol, IsSymbol
<1>5. fn.name = sym.name /\ fn.defined = sym.defined
  BY <1>4 DEF Function
<1> HIDE DEF sym, fn
<1>6. /\ DOMAIN table' = UnitSet
      /\ \A u \in UnitSet : Symbols(table[u]') /\ Unique(table[u]')
      /\ \A u \in UnitSet : \A i \in DOMAIN table[u] :
           /\ i \in DOMAIN table[u]'
           /\ table[u]'[i].name = table[u][i].name
           /\ table[u][i].defined => table[u]'[i].defined
      /\ ~BadQualifiers(sym) /\ ~Refused(t, sym) =>
           \E i \in DOMAIN table[Current]' :
                /\ table[Current]'[i].name = sym.name
                /\ sym.defined => table[Current]'[i].defined
  <2>1. CASE BadQualifiers(sym)
    <3>1. table' = table
      BY <1>1, <2>1
    <3>2. /\ DOMAIN table = UnitSet
          /\ \A u \in UnitSet : Symbols(table[u]) /\ Unique(table[u])
      BY DEF IInv, Shape, OneEntryEach, Symbols, Unique
    <3>3. DOMAIN table' = UnitSet
      BY <3>1, <3>2
    <3>4. \A u \in UnitSet : table[u]' = table[u]
      BY <3>1
    <3>5. \A u \in UnitSet : Symbols(table[u]') /\ Unique(table[u]')
      BY <3>2, <3>4
    <3>6. \A u \in UnitSet : \A i \in DOMAIN table[u] :
             /\ i \in DOMAIN table[u]'
             /\ table[u]'[i].name = table[u][i].name
             /\ table[u][i].defined => table[u]'[i].defined
      BY <3>4
    <3>. QED  BY <2>1, <3>3, <3>5, <3>6, Zenon
  <2>2. CASE ~BadQualifiers(sym)
    <3>1. table' = [table EXCEPT ![Current] = Insert(@, sym)]
      BY <1>1, <1>2, <2>2
    <3>2. Shape /\ OneEntryEach
      BY DEF IInv
    <3>3. Current' = Current
      BY <1>1 DEF Current
    <3> HIDE DEF t
    <3>4. /\ DOMAIN table' = UnitSet
          /\ \A u \in UnitSet : Symbols(table[u]') /\ Unique(table[u]')
          /\ \A u \in UnitSet : \A i \in DOMAIN table[u] :
               /\ i \in DOMAIN table[u]'
               /\ table[u]'[i].name = table[u][i].name
               /\ table[u][i].defined => table[u]'[i].defined
      BY <1>2, <1>4, <3>1, <3>2, TableStep
    <3>5. ~Refused(table[Current], sym) => \E i \in DOMAIN table'[Current] :
               /\ table'[Current][i].name = sym.name
               /\ sym.defined => table'[Current][i].defined
      BY <1>2, <1>4, <3>1, <3>2, TableStep
    <3>. QED  BY <3>3, <3>4, <3>5 DEF t
  <2>. QED  BY <2>1, <2>2
<1>7. next' \in Nat /\ copied' \in Nat
  BY <1>1 DEF IInv, Shape
<1>8. CASE functions' = functions
  BY <1>1, <1>6, <1>7, <1>8, KeepsBodies
<1>9. CASE /\ ~BadQualifiers(sym) /\ ~Refused(t, sym)
           /\ functions' = [functions EXCEPT ![Current] = Append(@, fn)]
  <2> DEFINE fs == functions[Current]
  <2>1. /\ IsSequence(Append(fs, fn))
        /\ DOMAIN Append(fs, fn) = 1 .. Len(fs) + 1
        /\ DOMAIN fs = 1 .. Len(fs) /\ Len(fs) \in Nat
        /\ \A i \in DOMAIN fs : Append(fs, fn)[i] = fs[i]
        /\ Append(fs, fn)[Len(fs) + 1] = fn
    BY <1>2, AppendIsSequence DEF IInv, Shape
  <2>2. /\ DOMAIN functions' = UnitSet
        /\ functions'[Current] = Append(fs, fn)
        /\ \A u \in UnitSet : u # Current => functions'[u] = functions[u]
    BY <1>2, <1>9 DEF IInv, Shape
  <2>3. \A i \in DOMAIN functions'[Current] :
            \/ i \in DOMAIN fs /\ functions'[Current][i] = fs[i]
            \/ i = Len(fs) + 1 /\ functions'[Current][i] = fn
    BY <2>1, <2>2
  <2>4. sym.defined => \A e \in DOMAIN t : t[e].name = sym.name => ~t[e].defined
    BY <1>9 DEF Refused, Entries
  <2>5. sym.defined => \A i \in Defined(Current) : fs[i].name # sym.name
    BY <1>2, <2>4 DEF IInv, BodiesAreKnown
  <2>6. Shape'
    <3>1. \A i \in DOMAIN functions'[Current] : functions'[Current][i].defined \in BOOLEAN
      BY <1>2, <1>3, <1>4, <1>5, <2>3 DEF IInv, Shape
    <3>2. IsSequence(functions'[Current])
      BY <2>1, <2>2
    <3>3. \A u \in UnitSet : IsSequence(functions'[u])
                            /\ \A i \in DOMAIN functions'[u] : functions'[u][i].defined \in BOOLEAN
      BY <2>2, <3>1, <3>2 DEF IInv, Shape
    <3>4. /\ DOMAIN table' = UnitSet
          /\ \A u \in UnitSet : /\ IsSequence(table'[u])
                                /\ \A i \in DOMAIN table'[u] : IsSymbol(table'[u][i])
      BY <1>6 DEF Symbols
    <3>5. program' \in Programs /\ unit' \in DOMAIN Units
      BY <1>1 DEF IInv, Shape
    <3>. QED  BY <1>7, <2>2, <3>3, <3>4, <3>5 DEF Shape
  <2>7. OneEntryEach'
    BY <1>6 DEF OneEntryEach, Unique
  <2>8. ASSUME NEW u \in UnitSet, NEW i \in Defined(u)'
        PROVE  \E e \in DOMAIN table[u]' :
                    table[u]'[e].name = functions'[u][i].name /\ table[u]'[e].defined
    <3>1. CASE u = Current /\ functions'[u][i] = fn /\ sym.defined
      <4>1. PICK e \in DOMAIN table[Current]' :
                /\ table[Current]'[e].name = sym.name
                /\ sym.defined => table[Current]'[e].defined
        BY <1>6, <1>9
      <4>2. table[Current]' = table[u]'
        BY <1>1, <3>1 DEF Current
      <4>. QED  BY <1>5, <3>1, <4>1, <4>2
    <3>2. CASE i \in Defined(u) /\ functions'[u][i] = functions[u][i]
      BY <1>6, <3>2 DEF IInv, BodiesAreKnown
    <3>. QED  BY <1>5, <2>2, <2>3, <3>1, <3>2 DEF Defined
  <2>9. ASSUME NEW u \in UnitSet, NEW i \in Defined(u)', NEW j \in Defined(u)',
               functions'[u][i].name = functions'[u][j].name
        PROVE  i = j
    <3>1. CASE u # Current
      BY <2>2, <2>9, <3>1 DEF IInv, OneBodyEach, Defined
    <3>2. CASE u = Current
      BY <1>2, <1>5, <2>2, <2>3, <2>5, <2>9, <3>2 DEF IInv, OneBodyEach, Defined
    <3>. QED  BY <3>1, <3>2
  <2>. QED  BY <2>6, <2>7, <2>8, <2>9 DEF IInv, BodiesAreKnown, OneBodyEach
<1>. QED  BY <1>1, <1>8, <1>9

-----------------------------------------------------------------------------
LEMMA InitGivesIInv == Init => IInv
<1> SUFFICES ASSUME Init PROVE IInv
  OBVIOUS
<1>1. \A u \in UnitSet : table[u] = <<>> /\ functions[u] = <<>>
  BY DEF Init
<1>2. IsSequence(<<>>)
  BY DEF IsSequence
<1>3. Shape
  BY <1>1, <1>2, UnitsAreTheirSet DEF Init, Shape
<1>. QED  BY <1>1, <1>3 DEF IInv, OneEntryEach, BodiesAreKnown, OneBodyEach, Defined

LEMMA NextKeepsIInv == IInv /\ [Next]_vars => IInv'
<1> SUFFICES ASSUME IInv, [Next]_vars PROVE IInv'
  OBVIOUS
<1>1. CASE ImportSymbol
  BY <1>1, ImportKeepsIInv
<1>2. CASE FuncDecl
  BY <1>2, FuncDeclKeepsIInv
<1>3. ASSUME UNCHANGED <<program, table, functions>>, unit' \in DOMAIN Units,
             next' \in Nat, copied' \in Nat
      PROVE  IInv'
  BY <1>3 DEF IInv, Shape, OneEntryEach, BodiesAreKnown, OneBodyEach, Defined
<1>4. CASE ImportEnds
  BY <1>3, <1>4 DEF ImportEnds, IInv, Shape
<1>5. CASE UnitEnds
  <2>1. UNCHANGED <<program, table, functions, copied>>
    BY <1>5 DEF UnitEnds
  <2>2. unit' \in DOMAIN Units /\ next' \in Nat
    BY <1>5, UnitsAreTheirSet DEF UnitEnds, Current, IInv, Shape
  <2>. QED  BY <1>3, <2>1, <2>2 DEF IInv, Shape
<1>6. CASE Link
  BY <1>3, <1>6 DEF Link, IInv, Shape
<1>7. CASE UNCHANGED vars
  BY <1>3, <1>7 DEF vars, IInv, Shape
<1>. QED  BY <1>1, <1>2, <1>4, <1>5, <1>6, <1>7 DEF Next, Ended

(***************************************************************************)
(* For every program: the functions of a unit that code is generated for   *)
(* have one body for each name (sf_func_symbol_table_insert).              *)
(***************************************************************************)
THEOREM BodiesAreUnique == Spec => []OneBodyEach
<1>1. IInv => OneBodyEach
  BY DEF IInv
<1>. QED  BY InitGivesIInv, NextKeepsIInv, <1>1, PTL DEF Spec

(***************************************************************************)
(* And a lookup by name has one answer: names are unique in every table    *)
(* (sf_func_symbol_table_lookup returns the first).                        *)
(***************************************************************************)
THEOREM NamesAreUnique == Spec => []OneEntryEach
<1>1. IInv => OneEntryEach
  BY DEF IInv
<1>. QED  BY InitGivesIInv, NextKeepsIInv, <1>1, PTL DEF Spec

-----------------------------------------------------------------------------
(* A set of naturals that has 0 and, with each number, its successor. *)
LEMMA InductiveSet ==
    ASSUME NEW S, 0 \in S, \A n \in Nat : n \in S => n + 1 \in S
    PROVE  \A n \in Nat : n \in S
<1> DEFINE T == {n \in Nat : n \notin S}
           R == OpToRel(<, Nat)
<1> SUFFICES ASSUME T # {} PROVE FALSE
  OBVIOUS
<1>1. IsWellFoundedOn(R, Nat)
  BY NatLessThanWellFounded
<1>2. PICK x \in T : \A y \in T : ~(<<y, x>> \in R)
  <2> HIDE DEF R
  <2>. QED  BY <1>1, WFMin
<1>3. \A y \in T : ~(y < x)
  BY <1>2 DEF OpToRel
<1>4. x \in Nat /\ x \notin S
  OBVIOUS
<1>5. x # 0
  BY <1>4
<1>6. x - 1 \in Nat /\ x - 1 < x
  BY <1>4, <1>5
<1>7. x - 1 \in S
  <2>1. x - 1 \notin T
    BY <1>3, <1>6
  <2>. QED  BY <1>6, <2>1
<1>8. (x - 1) + 1 = x
  BY <1>4
<1>. QED  BY <1>4, <1>6, <1>7, <1>8

Text == Seq(Characters)

(* What the loop of sf_mangle_module_prefix has written after each part. *)
WrittenUpTo(parts, n, w) ==
    /\ w \in [0 .. n -> Text]
    /\ w[0] = <<>>
    /\ \A i \in 1 .. n : w[i] = w[i - 1] \o parts[i]

Written(parts, w) == WrittenUpTo(parts, Len(parts), w)

LEMMA WrittenExists ==
    ASSUME NEW parts \in Seq(Text)
    PROVE  \E w : Written(parts, w)
<1> DEFINE N == Len(parts)
           S == {n \in Nat : n <= N => \E w : WrittenUpTo(parts, n, w)}
<1>1. N \in Nat
  BY LenProperties
<1>2. 0 \in S
  <2> DEFINE w == [i \in 0 .. 0 |-> <<>>]
  <2>1. WrittenUpTo(parts, 0, w)
    BY DEF Text, WrittenUpTo
  <2>. QED  BY <2>1
<1>3. ASSUME NEW n \in Nat, n \in S
      PROVE  n + 1 \in S
  <2> SUFFICES ASSUME n + 1 <= N PROVE \E w : WrittenUpTo(parts, n + 1, w)
    OBVIOUS
  <2>1. n <= N
    BY <1>1
  <2>2. PICK w : WrittenUpTo(parts, n, w)
    BY <1>3, <2>1
  <2>3. n + 1 \in 1 .. N
    BY <1>1
  <2>4. parts[n + 1] \in Text
    BY <2>3, ElementOfSeq
  <2> DEFINE v == [i \in 0 .. n + 1 |-> IF i <= n THEN w[i] ELSE w[n] \o parts[n + 1]]
  <2>5. w[n] \o parts[n + 1] \in Text
    BY <2>2, <2>4, ConcatProperties DEF Text, WrittenUpTo
  <2>6. v \in [0 .. n + 1 -> Text]
    BY <2>2, <2>5 DEF WrittenUpTo
  <2>7. v[0] = <<>>
    BY <2>2 DEF WrittenUpTo
  <2>8. ASSUME NEW i \in 1 .. n + 1 PROVE v[i] = v[i - 1] \o parts[i]
    <3>1. i - 1 \in 0 .. n /\ v[i - 1] = w[i - 1]
      OBVIOUS
    <3>2. CASE i <= n
      <4>1. i \in 1 .. n /\ v[i] = w[i]
        BY <3>2
      <4>. QED  BY <2>2, <3>1, <4>1 DEF WrittenUpTo
    <3>3. CASE i = n + 1
      <4>1. v[i] = w[n] \o parts[i] /\ i - 1 = n
        BY <3>3
      <4>2. v[i - 1] = w[n]
        BY <3>1, <4>1
      <4> HIDE DEF v
      <4>. QED  BY <4>1, <4>2
    <3>4. i <= n \/ i = n + 1
      OBVIOUS
    <3> HIDE DEF v
    <3>. QED  BY <3>2, <3>3, <3>4
  <2>9. WrittenUpTo(parts, n + 1, v)
    BY <2>6, <2>7, <2>8 DEF WrittenUpTo
  <2>. QED  BY <2>9
<1>4. N \in S
  <2> HIDE DEF S
  <2>. QED  BY <1>1, <1>2, <1>3, InductiveSet
<1>. QED  BY <1>1, <1>4 DEF Written

LEMMA WrittenIsUnique ==
    ASSUME NEW parts1 \in Seq(Text), NEW parts2 \in Seq(Text),
           NEW w1, NEW w2, Written(parts1, w1), Written(parts2, w2),
           NEW k \in Nat, k <= Len(parts1), k <= Len(parts2),
           \A i \in 1 .. k : parts1[i] = parts2[i]
    PROVE  w1[k] = w2[k]
<1> DEFINE S == {n \in Nat : n <= k => w1[n] = w2[n]}
<1>1. Len(parts1) \in Nat /\ Len(parts2) \in Nat
  BY LenProperties
<1>2. 0 \in S
  BY DEF Written, WrittenUpTo
<1>3. ASSUME NEW n \in Nat, n \in S
      PROVE  n + 1 \in S
  <2> SUFFICES ASSUME n + 1 <= k PROVE w1[n + 1] = w2[n + 1]
    OBVIOUS
  <2>1. /\ n + 1 \in 1 .. k /\ n + 1 \in 1 .. Len(parts1) /\ n + 1 \in 1 .. Len(parts2)
        /\ (n + 1) - 1 = n /\ n <= k
    BY <1>1
  <2>2. w1[n] = w2[n]
    BY <1>3, <2>1
  <2>3. w1[n + 1] = w1[n] \o parts1[n + 1] /\ w2[n + 1] = w2[n] \o parts2[n + 1]
    BY <2>1 DEF Written, WrittenUpTo
  <2>. QED  BY <2>1, <2>2, <2>3
<1>4. k \in S
  <2> HIDE DEF S
  <2>. QED  BY <1>2, <1>3, InductiveSet
<1>. QED  BY <1>4

LEMMA JoinedIsWritten ==
    ASSUME NEW parts \in Seq(Text)
    PROVE  \E w : Written(parts, w) /\ Joined(parts) = w[Len(parts)]
<1> DEFINE N == Len(parts)
           Rec(f) == f = [i \in 0 .. N |-> IF i = 0 THEN <<>> ELSE f[i - 1] \o parts[i]]
           upTo == CHOOSE f : Rec(f)
<1>1. N \in Nat
  BY LenProperties
<1>2. PICK w : Written(parts, w)
  BY WrittenExists
<1>3. Rec(w)
  BY <1>1, <1>2 DEF Written, WrittenUpTo
<1>4. Rec(upTo)
  <2> HIDE DEF Rec
  <2>. QED  BY <1>3
<1>5. Joined(parts) = upTo[N]
  BY DEF Joined
<1> HIDE DEF upTo
<1>6. ASSUME NEW n \in Nat, n <= N PROVE upTo[n] = w[n]
  <2> DEFINE S == {k \in Nat : k <= N => upTo[k] = w[k]}
  <2>1. 0 \in S
    BY <1>1, <1>3, <1>4
  <2>2. ASSUME NEW k \in Nat, k \in S PROVE k + 1 \in S
    <3> SUFFICES ASSUME k + 1 <= N PROVE upTo[k + 1] = w[k + 1]
      OBVIOUS
    <3>1. k + 1 \in 0 .. N /\ k + 1 # 0 /\ (k + 1) - 1 = k /\ k <= N
      BY <1>1
    <3>2. upTo[k] = w[k]
      BY <2>2, <3>1
    <3>3. upTo[k + 1] = upTo[k] \o parts[k + 1] /\ w[k + 1] = w[k] \o parts[k + 1]
      BY <1>3, <1>4, <3>1
    <3>. QED  BY <3>2, <3>3
  <2>3. n \in S
    <3> HIDE DEF S
    <3>. QED  BY <2>1, <2>2, InductiveSet
  <2>. QED  BY <1>6, <2>3
<1>. QED  BY <1>1, <1>2, <1>5, <1>6

LEMMA JoinedAppend ==
    ASSUME NEW parts \in Seq(Text), NEW x \in Text
    PROVE  /\ Joined(parts) \in Text
           /\ Joined(Append(parts, x)) = Joined(parts) \o x
<1> DEFINE N == Len(parts)
           more == Append(parts, x)
<1>1. /\ N \in Nat /\ more \in Seq(Text) /\ Len(more) = N + 1
      /\ \A i \in 1 .. N : more[i] = parts[i]
      /\ more[N + 1] = x
  BY AppendProperties, LenProperties
<1> HIDE DEF more
<1>2. PICK w : Written(parts, w) /\ Joined(parts) = w[N]
  BY JoinedIsWritten
<1>3. PICK v : Written(more, v) /\ Joined(more) = v[N + 1]
  BY <1>1, JoinedIsWritten
<1>4. v[N] = w[N]
  BY <1>1, <1>2, <1>3, WrittenIsUnique
<1>5. v[N + 1] = v[N] \o x
  <2>1. N + 1 \in 1 .. Len(more) /\ (N + 1) - 1 = N
    BY <1>1
  <2>2. v[N + 1] = v[(N + 1) - 1] \o more[N + 1]
    BY <1>3, <2>1 DEF Written, WrittenUpTo
  <2>. QED  BY <1>1, <2>1, <2>2
<1>6. w[N] \in Text
  BY <1>1, <1>2 DEF Written, WrittenUpTo
<1>. QED  BY <1>2, <1>3, <1>4, <1>5, <1>6 DEF more

(* What is written later keeps what was written before.                    *)
LEMMA WrittenStays ==
    ASSUME NEW parts \in Seq(Text), NEW w, Written(parts, w),
           NEW i \in Nat, NEW j \in Nat, i <= j, j <= Len(parts)
    PROVE  /\ w[i] \in Text /\ w[j] \in Text /\ Len(w[i]) <= Len(w[j])
           /\ \A k \in 1 .. Len(w[i]) : w[j][k] = w[i][k]
<1> DEFINE N == Len(parts)
           Stays(n) == Len(w[i]) <= Len(w[n]) /\ \A k \in 1 .. Len(w[i]) : w[n][k] = w[i][k]
           S == {n \in Nat : i <= n /\ n <= N => Stays(n)}
<1>1. N \in Nat
  BY LenProperties
<1>2. ASSUME NEW n \in Nat, n <= N PROVE w[n] \in Text /\ Len(w[n]) \in Nat
  <2>1. w \in [0 .. N -> Text] /\ n \in 0 .. N
    BY <1>1, <1>2 DEF Written, WrittenUpTo
  <2>2. w[n] \in Text
    BY <2>1
  <2>. QED  BY <2>2, LenProperties DEF Text
<1>3. 0 \in S
  BY <1>1, <1>2
<1>4. ASSUME NEW n \in Nat, n \in S PROVE n + 1 \in S
  <2> SUFFICES ASSUME i <= n + 1, n + 1 <= N PROVE Stays(n + 1)
    OBVIOUS
  <2>1. CASE i = n + 1
    BY <1>1, <1>2, <2>1
  <2>2. CASE i <= n
    <3>1. n + 1 \in 1 .. N /\ n <= N /\ (n + 1) - 1 = n
      BY <1>1
    <3>2. Stays(n)
      BY <1>4, <2>2, <3>1
    <3>3. w[n + 1] = w[n] \o parts[n + 1]
      BY <3>1 DEF Written, WrittenUpTo
    <3>4. parts[n + 1] \in Text
      BY <3>1, ElementOfSeq
    <3>5. /\ Len(w[n + 1]) = Len(w[n]) + Len(parts[n + 1])
          /\ \A k \in 1 .. Len(w[n]) : w[n + 1][k] = w[n][k]
      <4> DEFINE a == w[n]
                 b == parts[n + 1]
      <4>1. a \in Text /\ b \in Text
        BY <1>2, <3>1, <3>4
      <4> HIDE DEF a, b
      <4>2. /\ Len(a \o b) = Len(a) + Len(b) /\ Len(a) \in Nat /\ Len(b) \in Nat
            /\ \A k \in 1 .. Len(a) : (a \o b)[k] = a[k]
        BY <4>1, ConcatProperties, LenProperties DEF Text
      <4>. QED  BY <3>3, <4>2 DEF a, b
    <3>6. Len(w[n]) \in Nat /\ Len(w[i]) \in Nat /\ Len(parts[n + 1]) \in Nat
      BY <1>1, <1>2, <2>2, <3>1, <3>4, LenProperties DEF Text
    <3>7. Len(w[i]) <= Len(w[n + 1])
      <4> DEFINE a == Len(w[i])
                 b == Len(w[n])
                 c == Len(parts[n + 1])
      <4>1. a <= b
        BY <3>2
      <4>2. Len(w[n + 1]) = b + c
        BY <3>5
      <4>3. a \in Nat /\ b \in Nat /\ c \in Nat
        BY <3>6
      <4>4. a <= b + c
        <5> HIDE DEF a, b, c
        <5>. QED  BY <4>1, <4>3
      <4>. QED  BY <4>2, <4>4
    <3>8. \A k \in 1 .. Len(w[i]) : k \in 1 .. Len(w[n])
      BY <3>2, <3>6
    <3>. QED  BY <3>2, <3>5, <3>7, <3>8
  <2>3. i = n + 1 \/ i <= n
    OBVIOUS
  <2>. QED  BY <2>1, <2>2, <2>3
<1>5. j \in S
  <2> HIDE DEF S
  <2>. QED  BY <1>3, <1>4, InductiveSet
<1>. QED  BY <1>1, <1>2, <1>5

-----------------------------------------------------------------------------
(* A name with its length before it is read back in one way: the digits    *)
(* end where the name begins.                                              *)
LEMMA MeasuredIsText ==
    ASSUME NEW a, IsIdentifier(a)
    PROVE  /\ a \in Text /\ Len(a) \in Nat \ {0}
           /\ Digits[Len(a)] \in Seq(DigitCharacters)
           /\ Len(Digits[Len(a)]) \in Nat \ {0}
           /\ Measured(a) \in Text
           /\ Len(Measured(a)) = Len(Digits[Len(a)]) + Len(a)
           /\ \A k \in 1 .. Len(Digits[Len(a)]) :
                Measured(a)[k] = Digits[Len(a)][k] /\ Measured(a)[k] \in DigitCharacters
           /\ \A k \in 1 .. Len(a) : Measured(a)[Len(Digits[Len(a)]) + k] = a[k]
           /\ Measured(a)[Len(Digits[Len(a)]) + 1] \notin DigitCharacters
<1> DEFINE d == Digits[Len(a)]
<1>1. a \in Text /\ Len(a) \in DOMAIN Digits /\ a # <<>> /\ a[1] \notin DigitCharacters
  BY DEF IsIdentifier, IsName, Text
<1>2. d \in Seq(DigitCharacters) /\ d # <<>> /\ DigitCharacters \subseteq Characters
  BY <1>1, LinkageAssumption
<1> HIDE DEF d
<1>3. d \in Text
  BY <1>2, SeqMonotonic DEF Text
<1>4. Len(a) \in Nat \ {0} /\ Len(d) \in Nat \ {0}
  BY <1>1, <1>2, EmptySeq DEF Text
<1>5. /\ d \o a \in Text /\ Len(d \o a) = Len(d) + Len(a)
      /\ \A k \in 1 .. Len(d) + Len(a) :
            (d \o a)[k] = IF k <= Len(d) THEN d[k] ELSE a[k - Len(d)]
  BY <1>1, <1>3, ConcatProperties DEF Text
<1>6. \A k \in 1 .. Len(d) : (d \o a)[k] = d[k] /\ d[k] \in DigitCharacters
  BY <1>2, <1>4, <1>5, ElementOfSeq
<1>7. \A k \in 1 .. Len(a) : (d \o a)[Len(d) + k] = a[k]
  <2> TAKE k \in 1 .. Len(a)
  <2>1. Len(d) + k \in 1 .. Len(d) + Len(a) /\ ~(Len(d) + k <= Len(d)) /\ Len(d) + k - Len(d) = k
    BY <1>4
  <2>. QED  BY <1>5, <2>1
<1>8. (d \o a)[Len(d) + 1] \notin DigitCharacters
  BY <1>1, <1>4, <1>7
<1>9. Measured(a) = d \o a
  BY DEF Measured, d
<1>. QED  BY <1>1, <1>2, <1>4, <1>5, <1>6, <1>7, <1>8, <1>9 DEF d

LEMMA DigitsEnd ==
    ASSUME NEW a, IsIdentifier(a), NEW b, IsIdentifier(b), NEW x,
           \A k \in 1 .. Len(Measured(a)) : x[k] = Measured(a)[k],
           \A k \in 1 .. Len(Measured(b)) : x[k] = Measured(b)[k]
    PROVE  Len(Digits[Len(a)]) <= Len(Digits[Len(b)])
<1> DEFINE d == Len(Digits[Len(a)])
           e == Len(Digits[Len(b)])
<1> SUFFICES ASSUME e < d PROVE FALSE
  BY MeasuredIsText
<1>1. /\ d \in Nat \ {0} /\ e \in Nat \ {0} /\ Len(a) \in Nat \ {0} /\ Len(b) \in Nat \ {0}
      /\ Len(Measured(a)) = d + Len(a) /\ Len(Measured(b)) = e + Len(b)
  BY MeasuredIsText
<1>2. Measured(a)[e + 1] \in DigitCharacters
  <2>1. e + 1 \in 1 .. d
    BY <1>1
  <2>. QED  BY <2>1, MeasuredIsText
<1>3. Measured(b)[e + 1] \notin DigitCharacters
  BY MeasuredIsText
<1>4. e + 1 \in 1 .. Len(Measured(a)) /\ e + 1 \in 1 .. Len(Measured(b))
  <2> HIDE DEF d, e
  <2>. QED  BY <1>1
<1>. QED  BY <1>2, <1>3, <1>4

LEMMA MeasuredIsRead ==
    ASSUME NEW a, IsIdentifier(a), NEW b, IsIdentifier(b), NEW x,
           \A k \in 1 .. Len(Measured(a)) : x[k] = Measured(a)[k],
           \A k \in 1 .. Len(Measured(b)) : x[k] = Measured(b)[k]
    PROVE  a = b
<1> DEFINE d == Digits[Len(a)]
           e == Digits[Len(b)]
<1>1. /\ d \in Seq(DigitCharacters) /\ e \in Seq(DigitCharacters)
      /\ Len(d) \in Nat /\ Len(e) \in Nat
      /\ a \in Text /\ b \in Text /\ Len(a) \in Nat /\ Len(b) \in Nat
      /\ Len(Measured(a)) = Len(d) + Len(a) /\ Len(Measured(b)) = Len(e) + Len(b)
      /\ \A k \in 1 .. Len(d) : Measured(a)[k] = d[k]
      /\ \A k \in 1 .. Len(e) : Measured(b)[k] = e[k]
      /\ \A k \in 1 .. Len(a) : Measured(a)[Len(d) + k] = a[k]
      /\ \A k \in 1 .. Len(b) : Measured(b)[Len(e) + k] = b[k]
  BY MeasuredIsText
<1>2. Len(d) = Len(e)
  <2>1. Len(d) <= Len(e)
    BY DigitsEnd
  <2>2. Len(e) <= Len(d)
    BY DigitsEnd
  <2>. QED  BY <1>1, <2>1, <2>2
<1>3. Len(a) \in DOMAIN Digits /\ Len(b) \in DOMAIN Digits
  BY DEF IsIdentifier, IsName
<1> HIDE DEF d, e
<1>4. d = e
  <2>1. \A k \in 1 .. Len(d) : k \in 1 .. Len(Measured(a)) /\ k \in 1 .. Len(Measured(b))
    BY <1>1, <1>2
  <2>2. \A k \in 1 .. Len(d) : d[k] = e[k]
    BY <1>1, <1>2, <2>1
  <2>. QED  BY <1>1, <1>2, <2>2, SeqEqual
<1>5. Len(a) = Len(b)
  BY <1>3, <1>4, LinkageAssumption DEF d, e
<1>6. \A k \in 1 .. Len(a) : a[k] = b[k]
  <2> TAKE k \in 1 .. Len(a)
  <2>1. Len(d) + k \in 1 .. Len(Measured(a)) /\ Len(d) + k \in 1 .. Len(Measured(b))
    BY <1>1, <1>2, <1>5
  <2>2. Measured(a)[Len(d) + k] = Measured(b)[Len(d) + k]
    BY <2>1
  <2>. QED  BY <1>1, <1>2, <1>5, <2>2
<1>. QED  BY <1>1, <1>5, <1>6, SeqEqual DEF Text

-----------------------------------------------------------------------------
(* The parts of a path, each with its length, are read back in one way.    *)
IsPath(p) == p \in Seq(Text) /\ \A k \in 1 .. Len(p) : IsIdentifier(p[k])
Parts(p) == [i \in DOMAIN p |-> Measured(p[i])]

LEMMA PartsAreTexts ==
    ASSUME NEW p, IsPath(p)
    PROVE  /\ Len(p) \in Nat /\ DOMAIN p = 1 .. Len(p)
           /\ Parts(p) \in Seq(Text) /\ Len(Parts(p)) = Len(p)
           /\ \A i \in 1 .. Len(p) : Parts(p)[i] = Measured(p[i])
<1>1. Len(p) \in Nat /\ DOMAIN p = 1 .. Len(p)
  BY LenProperties DEF IsPath
<1>2. \A i \in 1 .. Len(p) : Measured(p[i]) \in Text
  BY MeasuredIsText DEF IsPath
<1>3. Parts(p) \in [1 .. Len(p) -> Text]
  BY <1>1, <1>2 DEF Parts
<1>4. Parts(p) \in Seq(Text)
  BY <1>1, <1>3, SeqDef
<1>5. Len(Parts(p)) = Len(p)
  BY <1>1, <1>3, <1>4, LenProperties
<1>. QED  BY <1>1, <1>4, <1>5 DEF Parts

(* After i parts, what is written goes on with the next part.              *)
LEMMA NextPart ==
    ASSUME NEW p, IsPath(p), NEW w, Written(Parts(p), w), NEW i \in Nat, i < Len(p)
    PROVE  /\ IsIdentifier(p[i + 1])
           /\ Len(w[i]) \in Nat /\ Len(w[i]) < Len(w[Len(p)])
           /\ \A k \in 1 .. Len(Measured(p[i + 1])) :
                w[Len(p)][Len(w[i]) + k] = Measured(p[i + 1])[k]
<1> DEFINE N == Len(p)
           m == Measured(p[i + 1])
<1>1. N \in Nat /\ i + 1 \in 1 .. N /\ (i + 1) - 1 = i
  BY PartsAreTexts
<1>2. IsIdentifier(p[i + 1])
  BY <1>1 DEF IsPath
<1>3. m \in Text /\ Len(m) \in Nat \ {0}
  <2> DEFINE a == Len(p[i + 1])
             d == Len(Digits[Len(p[i + 1])])
  <2>1. m \in Text /\ a \in Nat \ {0} /\ d \in Nat \ {0} /\ Len(m) = d + a
    BY <1>2, MeasuredIsText
  <2> HIDE DEF a, d, m
  <2>. QED  BY <2>1
<1>4. w[i + 1] = w[i] \o m
  BY <1>1, PartsAreTexts DEF Written, WrittenUpTo
<1>5. /\ w[i] \in Text /\ w[i + 1] \in Text /\ w[N] \in Text
      /\ Len(w[i + 1]) <= Len(w[N])
      /\ \A k \in 1 .. Len(w[i + 1]) : w[N][k] = w[i + 1][k]
  <2>1. Parts(p) \in Seq(Text) /\ Len(Parts(p)) = N
    BY PartsAreTexts
  <2>2. i + 1 \in Nat /\ N \in Nat /\ i <= N /\ i + 1 <= N
    BY <1>1
  <2>. QED  BY <2>1, <2>2, WrittenStays
<1> HIDE DEF m, N
<1>6. /\ Len(w[i]) \in Nat /\ Len(w[N]) \in Nat /\ Len(w[i + 1]) = Len(w[i]) + Len(m)
      /\ \A k \in 1 .. Len(w[i]) + Len(m) :
            (w[i] \o m)[k] = IF k <= Len(w[i]) THEN w[i][k] ELSE m[k - Len(w[i])]
  BY <1>3, <1>4, <1>5, ConcatProperties, LenProperties DEF Text
<1>7. ASSUME NEW k \in 1 .. Len(m) PROVE w[N][Len(w[i]) + k] = m[k]
  <2>1. /\ Len(w[i]) + k \in 1 .. Len(w[i]) + Len(m)
        /\ ~(Len(w[i]) + k <= Len(w[i])) /\ Len(w[i]) + k - Len(w[i]) = k
    BY <1>3, <1>6
  <2>2. (w[i] \o m)[Len(w[i]) + k] = m[k]
    BY <1>6, <2>1
  <2>. QED  BY <1>4, <1>5, <1>6, <2>1, <2>2
<1>8. Len(w[i]) < Len(w[N])
  BY <1>3, <1>5, <1>6
<1>. QED  BY <1>2, <1>6, <1>7, <1>8 DEF m, N

LEMMA PartsAreRead ==
    ASSUME NEW p, IsPath(p), NEW q, IsPath(q), Joined(Parts(p)) = Joined(Parts(q)),
           NEW n \in Nat, n <= Len(p), n <= Len(q)
    PROVE  \A i \in 1 .. n : p[i] = q[i]
<1> DEFINE S == {k \in Nat : k <= n => \A i \in 1 .. k : p[i] = q[i]}
<1>1. PICK v : Written(Parts(p), v) /\ Joined(Parts(p)) = v[Len(p)]
  BY PartsAreTexts, JoinedIsWritten
<1>2. PICK w : Written(Parts(q), w) /\ Joined(Parts(q)) = w[Len(q)]
  BY PartsAreTexts, JoinedIsWritten
<1>3. 0 \in S
  OBVIOUS
<1>4. ASSUME NEW k \in Nat, k \in S PROVE k + 1 \in S
  <2> SUFFICES ASSUME k + 1 <= n PROVE \A i \in 1 .. k + 1 : p[i] = q[i]
    OBVIOUS
  <2>1. Len(p) \in Nat /\ Len(q) \in Nat /\ k < Len(p) /\ k < Len(q) /\ k <= n
    BY PartsAreTexts
  <2>2. \A i \in 1 .. k : p[i] = q[i]
    BY <1>4, <2>1
  <2>3. v[k] = w[k]
    <3>1. \A i \in 1 .. k : Parts(p)[i] = Parts(q)[i]
      BY <2>1, <2>2, PartsAreTexts
    <3>. QED  BY <1>1, <1>2, <2>1, <3>1, PartsAreTexts, WrittenIsUnique
  <2>4. p[k + 1] = q[k + 1]
    <3> DEFINE x == [j \in Nat |-> v[Len(p)][Len(v[k]) + j]]
               a == p[k + 1]
               b == q[k + 1]
    <3>1. /\ IsIdentifier(a)
          /\ \A j \in 1 .. Len(Measured(a)) : v[Len(p)][Len(v[k]) + j] = Measured(a)[j]
      BY <1>1, <2>1, NextPart
    <3>2. /\ IsIdentifier(b)
          /\ \A j \in 1 .. Len(Measured(b)) : w[Len(q)][Len(w[k]) + j] = Measured(b)[j]
      BY <1>2, <2>1, NextPart
    <3>3. v[Len(p)] = w[Len(q)]
      BY <1>1, <1>2
    <3>4. \A j \in Nat : x[j] = v[Len(p)][Len(v[k]) + j] /\ x[j] = w[Len(q)][Len(w[k]) + j]
      BY <2>3, <3>3
    <3>5. /\ \A j \in 1 .. Len(Measured(a)) : j \in Nat
          /\ \A j \in 1 .. Len(Measured(b)) : j \in Nat
      OBVIOUS
    <3> HIDE DEF x, a, b
    <3>6. \A j \in 1 .. Len(Measured(a)) : x[j] = Measured(a)[j]
      BY <3>1, <3>4, <3>5
    <3>7. \A j \in 1 .. Len(Measured(b)) : x[j] = Measured(b)[j]
      BY <3>2, <3>4, <3>5
    <3>8. IsIdentifier(a) /\ IsIdentifier(b)
      BY <3>1, <3>2
    <3>9. a = b
      BY <3>6, <3>7, <3>8, MeasuredIsRead
    <3>. QED  BY <3>9 DEF a, b
  <2>. QED  BY <2>2, <2>4
<1>5. n \in S
  <2> HIDE DEF S
  <2>. QED  BY <1>3, <1>4, InductiveSet
<1>. QED  BY <1>5

LEMMA PathsEnd ==
    ASSUME NEW p, IsPath(p), NEW q, IsPath(q), Joined(Parts(p)) = Joined(Parts(q))
    PROVE  Len(q) <= Len(p)
<1>1. Len(p) \in Nat /\ Len(q) \in Nat
  BY PartsAreTexts
<1> SUFFICES ASSUME Len(p) < Len(q) PROVE FALSE
  BY <1>1
<1>2. PICK v : Written(Parts(p), v) /\ Joined(Parts(p)) = v[Len(p)]
  BY PartsAreTexts, JoinedIsWritten
<1>3. PICK w : Written(Parts(q), w) /\ Joined(Parts(q)) = w[Len(q)]
  BY PartsAreTexts, JoinedIsWritten
<1>4. v[Len(p)] = w[Len(p)]
  <2>1. \A i \in 1 .. Len(p) : p[i] = q[i]
    BY <1>1, PartsAreRead
  <2>2. \A i \in 1 .. Len(p) : Parts(p)[i] = Parts(q)[i]
    BY <1>1, <2>1, PartsAreTexts
  <2>. QED  BY <1>1, <1>2, <1>3, <2>2, PartsAreTexts, WrittenIsUnique
<1>5. Len(w[Len(p)]) \in Nat /\ Len(w[Len(p)]) < Len(w[Len(q)])
  BY <1>1, <1>3, NextPart
<1>6. w[Len(p)] = w[Len(q)]
  BY <1>2, <1>3, <1>4
<1>. QED  BY <1>5, <1>6

LEMMA PathIsRead ==
    ASSUME NEW p, IsPath(p), NEW q, IsPath(q), Joined(Parts(p)) = Joined(Parts(q))
    PROVE  p = q
<1>1. Len(p) \in Nat /\ Len(q) \in Nat
  BY PartsAreTexts
<1>2. Len(p) <= Len(q)
  BY PathsEnd
<1>3. Len(q) <= Len(p)
  BY PathsEnd
<1>4. Len(p) = Len(q)
  BY <1>1, <1>2, <1>3
<1>5. \A i \in 1 .. Len(p) : p[i] = q[i]
  BY <1>1, <1>4, PartsAreRead
<1>. QED  BY <1>4, <1>5, SeqEqual DEF IsPath

(* sf_mangle_function after sf_mangle_module_prefix. *)
Mangled(p, f) == MangleFunction(MangleModulePrefix(p), f, FALSE)
SF == <<"_", "S", "F">>

LEMMA SFIsText == SF \in Text /\ Len(SF) = 3 /\ SF[2] = "S" /\ Start[2] = "s"
<1>1. DigitCharacters \cup {"_", "S", "F", "s"} \subseteq Characters
  BY LinkageAssumption
<1>2. ASSUME NEW S, NEW a \in S, NEW b \in S, NEW c \in S
      PROVE  <<a, b, c>> \in Seq(S)
  OBVIOUS
<1>3. "_" \in Characters /\ "S" \in Characters /\ "F" \in Characters
  BY <1>1
<1>4. SF \in Seq(Characters)
  BY <1>2, <1>3, Zenon DEF SF
<1>5. Len(SF) = 3 /\ SF[2] = "S"
  BY DEF SF
<1>6. Start[2] = "s"
  BY DEF Start
<1>. QED  BY <1>4, <1>5, <1>6 DEF Text

LEMMA MangledIsAPath ==
    ASSUME NEW p, IsPath(p), NEW f, IsIdentifier(f)
    PROVE  /\ IsPath(Append(p, f))
           /\ Joined(Parts(Append(p, f))) \in Text
           /\ Mangled(p, f) = SF \o Joined(Parts(Append(p, f)))
<1> DEFINE m == Measured(f)
           r == Append(p, f)
           j == Joined(Parts(p))
<1>1. /\ Len(p) \in Nat /\ p \in Seq(Text) /\ Parts(p) \in Seq(Text) /\ Len(Parts(p)) = Len(p)
      /\ \A i \in 1 .. Len(p) : Parts(p)[i] = Measured(p[i])
  BY PartsAreTexts DEF IsPath
<1>2. f \in Text /\ m \in Text
  BY MeasuredIsText
<1>3. /\ r \in Seq(Text) /\ Len(r) = Len(p) + 1
      /\ \A i \in 1 .. Len(p) : r[i] = p[i]
      /\ r[Len(p) + 1] = f
  BY <1>1, <1>2, AppendProperties
<1> HIDE DEF m, r
<1>4. IsPath(r)
  <2>1. \A i \in 1 .. Len(r) : i \in 1 .. Len(p) \/ i = Len(p) + 1
    BY <1>1, <1>3
  <2>. QED  BY <1>3, <2>1 DEF IsPath
<1>5. Parts(r) = Append(Parts(p), m)
  <2>1. /\ Parts(r) \in Seq(Text) /\ Len(Parts(r)) = Len(r)
        /\ \A i \in 1 .. Len(r) : Parts(r)[i] = Measured(r[i])
    BY <1>4, PartsAreTexts
  <2>2. /\ Append(Parts(p), m) \in Seq(Text) /\ Len(Append(Parts(p), m)) = Len(p) + 1
        /\ \A i \in 1 .. Len(p) : Append(Parts(p), m)[i] = Parts(p)[i]
        /\ Append(Parts(p), m)[Len(p) + 1] = m
    BY <1>1, <1>2, AppendProperties
  <2>3. ASSUME NEW i \in 1 .. Len(r) PROVE Parts(r)[i] = Append(Parts(p), m)[i]
    <3>1. CASE i \in 1 .. Len(p)
      BY <1>1, <1>3, <2>1, <2>2, <3>1
    <3>2. CASE i = Len(p) + 1
      BY <1>3, <2>1, <2>2, <3>2 DEF m
    <3>. QED  BY <1>1, <1>3, <3>1, <3>2
  <2>. QED  BY <1>3, <2>1, <2>2, <2>3, SeqEqual
<1>6. j \in Text /\ Joined(Parts(r)) = j \o m
  BY <1>1, <1>2, <1>5, JoinedAppend
<1>7. SF \in Text /\ Len(SF) = 3
  BY SFIsText
<1> HIDE DEF j
<1>8. SF \o j \in Text /\ Len(SF \o j) = 3 + Len(j) /\ Len(j) \in Nat /\ j \o m \in Text
  <2>1. SF \o j \in Text /\ Len(SF \o j) = Len(SF) + Len(j)
    BY <1>6, <1>7, ConcatProperties DEF Text
  <2>2. j \o m \in Text
    BY <1>2, <1>6, ConcatProperties DEF Text
  <2>3. Len(j) \in Nat
    BY <1>6, LenProperties DEF Text
  <2>. QED  BY <1>7, <2>1, <2>2, <2>3
<1>9. MangleModulePrefix(p) = SF \o j
  BY DEF MangleModulePrefix, Parts, SF, j
<1>10. SF \o j # NoPrefix
  BY <1>8 DEF NoPrefix
<1>11. Mangled(p, f) = (SF \o j) \o m
  BY <1>9, <1>10 DEF Mangled, MangleFunction, m
<1>12. (SF \o j) \o m = SF \o (j \o m)
  <2>1. SF \in Seq(Characters) /\ j \in Seq(Characters) /\ m \in Seq(Characters)
    BY <1>2, <1>6, <1>7 DEF Text
  <2>. QED  BY <2>1, ConcatAssociative
<1>. QED  BY <1>4, <1>6, <1>8, <1>11, <1>12 DEF r

(***************************************************************************)
(* No two functions of modules get one link name.                          *)
(***************************************************************************)
THEOREM MangledNamesDiffer ==
    ASSUME NEW p, IsPath(p), NEW q, IsPath(q), NEW f, IsIdentifier(f), NEW g, IsIdentifier(g),
           Mangled(p, f) = Mangled(q, g)
    PROVE  p = q /\ f = g
<1> DEFINE a == Joined(Parts(Append(p, f)))
           b == Joined(Parts(Append(q, g)))
<1>1. /\ IsPath(Append(p, f)) /\ a \in Text /\ Mangled(p, f) = SF \o a
      /\ IsPath(Append(q, g)) /\ b \in Text /\ Mangled(q, g) = SF \o b
  BY MangledIsAPath
<1>2. SF \in Text
  BY SFIsText
<1>3. a = b
  <2> HIDE DEF a, b
  <2>. QED  BY <1>1, <1>2, ConcatSimplifications DEF Text
<1>4. Append(p, f) = Append(q, g)
  BY <1>1, <1>3, PathIsRead
<1>5. p \in Seq(Text) /\ q \in Seq(Text) /\ f \in Text /\ g \in Text
  BY MeasuredIsText DEF IsPath
<1>. QED  BY <1>4, <1>5, AppendInjective

LEMMA MangledNamesLookIt ==
    ASSUME NEW p, IsPath(p), NEW f, IsIdentifier(f)
    PROVE  LooksMangled(Mangled(p, f)) /\ Mangled(p, f) # Start
<1> DEFINE a == Joined(Parts(Append(p, f)))
           x == Mangled(p, f)
<1>1. a \in Text /\ x = SF \o a
  BY MangledIsAPath
<1>2. SF \in Text /\ Len(SF) = 3
  BY SFIsText
<1> HIDE DEF a, x
<1>3. /\ Len(x) = 3 + Len(a) /\ Len(a) \in Nat /\ x \in Text
      /\ \A k \in 1 .. 3 : x[k] = SF[k]
  <2>1. /\ Len(SF \o a) = Len(SF) + Len(a) /\ SF \o a \in Text /\ Len(a) \in Nat
        /\ \A k \in 1 .. Len(SF) + Len(a) :
              (SF \o a)[k] = IF k <= Len(SF) THEN SF[k] ELSE a[k - Len(SF)]
    BY <1>1, <1>2, ConcatProperties, LenProperties DEF Text
  <2>2. \A k \in 1 .. 3 : k \in 1 .. Len(SF) + Len(a) /\ k <= Len(SF)
    BY <1>2, <2>1
  <2>. QED  BY <1>1, <1>2, <2>1, <2>2
<1>4. SubSeq(x, 1, 3) = SF
  <2>1. \A k \in 1 .. 3 : x[k] \in Characters
    BY <1>3, ElementOfSeq DEF Text
  <2>2. /\ SubSeq(x, 1, 3) \in Text /\ Len(SubSeq(x, 1, 3)) = 3
        /\ \A k \in 1 .. 3 : SubSeq(x, 1, 3)[k] = x[k]
    BY <2>1, SubSeqProperties DEF Text
  <2>. QED  BY <1>2, <1>3, <2>2, SeqEqual DEF Text
<1>5. x[2] # Start[2]
  <2>1. 2 \in 1 .. 3
    OBVIOUS
  <2>2. x[2] = "S" /\ Start[2] = "s"
    BY <1>3, <2>1, SFIsText
  <2>. QED  BY <2>2
<1>6. LooksMangled(x)
  <2>1. Len(x) >= 3
    BY <1>3
  <2>2. SubSeq(x, 1, 3) = <<"_", "S", "F">>
    BY <1>4 DEF SF
  <2>. QED  BY <2>1, <2>2, Zenon DEF LooksMangled
<1>7. x # Start
  BY <1>5
<1>. QED  BY <1>6, <1>7 DEF x

-----------------------------------------------------------------------------
(* How far the analysis has come: what a unit has seen of its imports and  *)
(* functions, and of the symbols of one import.                            *)
Analysed == {Units[i] : i \in 1 .. unit - 1}

Reached(u) ==
    IF u \in Analysed THEN Len(Imports(u)) + Len(Items(u)) + 1
    ELSE IF u = Current THEN next ELSE 1

ItemsDone(u) == {i \in DOMAIN Items(u) : Len(Imports(u)) + i < Reached(u)}

SymbolsDone(u, k, m) ==
    {e \in DOMAIN table[m] : k < Reached(u) \/ (u = Current /\ k = next /\ e <= copied)}

SameSymbol(s1, s2) == s1.name = s2.name /\ s1.sig = s2.sig /\ s1.quals = s2.quals

(* Every entry of a table is there because of a function of the unit or of *)
(* a symbol of an import, whose link name it has ...                       *)
FromItem(u, s) ==
    /\ ~s.imported
    /\ \E i \in ItemsDone(u) : SameSymbol(s, Items(u)[i]) /\ s.link = OwnLink(u, Items(u)[i])

FromImport(u, s) ==
    /\ s.imported /\ s.defined
    /\ \E k \in DOMAIN Imports(u) : \E m \in Found(Imports(u)[k]) :
        /\ \E e \in SymbolsDone(u, k, m) : Exported(table[m][e]) /\ SameSymbol(s, table[m][e])
        /\ s.link = ImportedLink(u, m, s.name)

EntriesHaveSources ==
    \A u \in UnitSet : \A e \in DOMAIN table[u] :
        FromItem(u, table[u][e]) \/ FromImport(u, table[u][e])

(* ... every function and every symbol seen has its entry ...              *)
Entered(u, item) ==
    /\ ~BadQualifiers(item) /\ ~("extern" \in item.quals /\ item.defined)
    /\ \E e \in DOMAIN table[u] :
        /\ table[u][e].name = item.name /\ table[u][e].sig = item.sig
        /\ item.defined => ~table[u][e].imported

ItemsAreEntered == \A u \in UnitSet : \A i \in ItemsDone(u) : Entered(u, Items(u)[i])

ImportedAs(u, m, s) ==
    \E e \in DOMAIN table[u] :
        /\ table[u][e].imported /\ SameSymbol(table[u][e], s)
        /\ table[u][e].link = ImportedLink(u, m, s.name)

ImportsAreEntered ==
    \A u \in UnitSet : \A k \in DOMAIN Imports(u) : \A m \in Found(Imports(u)[k]) :
        \A e \in SymbolsDone(u, k, m) : Exported(table[m][e]) => ImportedAs(u, m, table[m][e])

(* ... and the code of a function has the link names of these entries.     *)
CodeIsOf(u, code, item) ==
    /\ code.name = item.name /\ code.link = OwnLink(u, item)
    /\ code.defined = item.defined /\ code.pub = ("pub" \in item.quals)
    /\ DOMAIN code.calls = DOMAIN item.calls
    /\ \A k \in DOMAIN item.calls : \E e \in DOMAIN table[u] :
        /\ table[u][e].name = item.calls[k].name /\ table[u][e].sig = item.calls[k].sig
        /\ table[u][e].link = code.calls[k]

CodeIsGenerated ==
    \A u \in UnitSet :
        /\ DOMAIN functions[u] = ItemsDone(u)
        /\ \A i \in ItemsDone(u) : CodeIsOf(u, functions[u][i], Items(u)[i])

Progress ==
    /\ next \in 1 .. Len(Imports(Current)) + Len(Items(Current)) + 1
    /\ next > Len(Imports(Current)) => copied = 0

Outcome ==
    /\ phase \in {"analyze", "rejected", "generated", "linked", "unlinked"}
    /\ phase \in {"generated", "linked", "unlinked"} =>
        /\ ~failed /\ MainOK
        /\ Current = Root /\ next = Len(Imports(Root)) + Len(Items(Root)) + 1
    /\ phase = "linked" => Resolves /\ \A u \in UnitSet : Assembles(u)
    /\ phase = "unlinked" => ~(Resolves /\ \A u \in UnitSet : Assembles(u))

Known == EntriesHaveSources /\ ItemsAreEntered /\ ImportsAreEntered /\ CodeIsGenerated

Tracked == Progress /\ Outcome /\ (~failed => Known)

-----------------------------------------------------------------------------
(* The program of a state, as the assumption has it. *)
LEMMA ProgramIsTyped ==
    ASSUME Shape, NEW u \in UnitSet
    PROVE  /\ Len(Imports(u)) \in Nat /\ DOMAIN Imports(u) = 1 .. Len(Imports(u))
           /\ Len(Items(u)) \in Nat /\ DOMAIN Items(u) = 1 .. Len(Items(u))
           /\ \A i \in DOMAIN Items(u) : /\ IsIdentifier(Items(u)[i].name)
                                         /\ Items(u)[i].defined \in BOOLEAN
<1>1. program \in Programs
  BY DEF Shape
<1>. QED  BY <1>1, LinkageAssumption DEF Imports, Items

LEMMA ProgramIsInOrder == Shape => ModulesAreInOrder(program)
BY LinkageAssumption DEF Shape

(* What a unit imports is a module before it, and one only. *)
LEMMA ImportsAreEarlier ==
    ASSUME Shape, NEW i \in DOMAIN Units, NEW k \in DOMAIN Imports(Units[i]),
           NEW m \in Found(Imports(Units[i])[k])
    PROVE  /\ m \in ModuleSet /\ m \in UnitSet
           /\ \E j \in 1 .. i - 1 : j \in DOMAIN Units /\ m = Units[j]
           /\ \A m2 \in Found(Imports(Units[i])[k]) : m2 = m
<1>1. ModulesAreInOrder(program)
  BY ProgramIsInOrder
<1>2. \E j \in 1 .. i - 1 : m = Units[j]
  <2>1. \A a \in DOMAIN Units : \A b \in DOMAIN program.imports[Units[a]] :
            \A c \in FoundIn(program, program.imports[Units[a]][b]) : \E j \in 1 .. a - 1 : c = Units[j]
    BY <1>1 DEF ModulesAreInOrder
  <2>. QED  BY <2>1 DEF Found, Imports
<1>3. \A j \in 1 .. i - 1 : j \in DOMAIN Units
  BY UnitsAreTheirSet
<1>4. /\ m \in ModuleSet
      /\ \A m2 \in Found(Imports(Units[i])[k]) : m2 \in ModuleSet /\ program.file[m2] = program.file[m]
  BY DEF Found, FoundIn
<1>5. \A m2 \in Found(Imports(Units[i])[k]) : m2 = m
  BY <1>1, <1>4 DEF ModulesAreInOrder
<1>. QED  BY <1>2, <1>3, <1>4, <1>5, UnitsAreTheirSet

(* Imports that have been gone through are modules analysed before. *)
LEMMA ReachedAreAnalysed ==
    ASSUME Shape, NEW u \in UnitSet, NEW k \in DOMAIN Imports(u), NEW m \in Found(Imports(u)[k]),
           k < Reached(u) \/ u = Current
    PROVE  m # Current /\ m \in Analysed /\ m \in UnitSet
<1>1. PICK i \in DOMAIN Units : u = Units[i]
  BY DEF UnitSet
<1>2. PICK j \in 1 .. i - 1 : j \in DOMAIN Units /\ m = Units[j]
  BY <1>1, ImportsAreEarlier
<1>3. unit \in DOMAIN Units /\ unit \in Nat /\ i \in Nat /\ j \in Nat
  BY <1>1, <1>2, UnitsAreTheirSet DEF Shape
<1>4. k \in Nat /\ k >= 1
  BY ProgramIsTyped
<1>5. i <= unit
  <2>1. CASE u \in Analysed
    <3>1. PICK n \in 1 .. unit - 1 : u = Units[n]
      BY <2>1 DEF Analysed
    <3>2. n \in DOMAIN Units
      BY <1>3, UnitsAreTheirSet
    <3>3. n = i
      BY <1>1, <3>1, <3>2, UnitsAreTheirSet
    <3>. QED  BY <1>3, <3>3
  <2>2. CASE u = Current
    <3>1. Units[i] = Units[unit]
      BY <1>1, <2>2 DEF Current
    <3>2. i = unit
      BY <1>3, <3>1, UnitsAreTheirSet
    <3>. QED  BY <1>3, <3>2
  <2>3. CASE u \notin Analysed /\ u # Current
    <3>1. Reached(u) = 1
      BY <2>3 DEF Reached
    <3>. QED  BY <1>4, <2>3, <3>1
  <2>. QED  BY <2>1, <2>2, <2>3
<1>6. j < unit
  BY <1>3, <1>5
<1>7. m # Current
  BY <1>2, <1>3, <1>6, UnitsAreTheirSet DEF Current
<1>8. m \in Analysed
  BY <1>2, <1>3, <1>6 DEF Analysed
<1>. QED  BY <1>2, <1>7, <1>8, UnitsAreTheirSet

LEMMA SymbolsAreAnalysed ==
    ASSUME Shape, NEW u \in UnitSet, NEW k \in DOMAIN Imports(u), NEW m \in Found(Imports(u)[k]),
           SymbolsDone(u, k, m) # {}
    PROVE  m # Current /\ m \in Analysed /\ m \in UnitSet
BY ReachedAreAnalysed DEF SymbolsDone

LEMMA CurrentIsAUnit ==
    ASSUME Shape
    PROVE  /\ Current \in UnitSet /\ Current \notin Analysed
           /\ unit \in DOMAIN Units /\ unit \in Nat
<1>1. unit \in DOMAIN Units /\ unit \in Nat
  BY UnitsAreTheirSet DEF Shape
<1>2. Current \in UnitSet
  BY <1>1, UnitsAreTheirSet DEF Current
<1>3. ASSUME NEW n \in 1 .. unit - 1 PROVE Units[n] # Current
  <2>1. n \in DOMAIN Units /\ n # unit
    BY <1>1, UnitsAreTheirSet
  <2>. QED  BY <1>1, <2>1, UnitsAreTheirSet DEF Current
<1>. QED  BY <1>1, <1>2, <1>3 DEF Analysed

-----------------------------------------------------------------------------
(* An insertion adds an entry, or lets one of that name know of a body. *)
Keeps(a, b) ==
    /\ SameSymbol(a, b) /\ a.imported = b.imported /\ a.link = b.link
    /\ a.defined => b.defined

LEMMA InsertGrows ==
    ASSUME NEW t, Symbols(t), NEW sym, IsSymbol(sym), ~Refused(t, sym)
    PROVE  /\ \A e \in DOMAIN t : e \in DOMAIN Insert(t, sym) /\ Keeps(t[e], Insert(t, sym)[e])
           /\ Entries(t, sym.name) = {} =>
                /\ Len(t) \in Nat /\ Insert(t, sym)[Len(t) + 1] = sym
                /\ Len(t) + 1 \in DOMAIN Insert(t, sym)
                /\ \A e \in DOMAIN Insert(t, sym) : e \in DOMAIN t \/ e = Len(t) + 1
           /\ Entries(t, sym.name) # {} => DOMAIN Insert(t, sym) = DOMAIN t
<1>1. CASE Entries(t, sym.name) = {}
  <2> DEFINE r == Append(t, sym)
  <2>1. Insert(t, sym) = r
    BY <1>1 DEF Insert
  <2>2. /\ IsSequence(r) /\ DOMAIN r = 1 .. Len(t) + 1
        /\ DOMAIN t = 1 .. Len(t) /\ Len(t) \in Nat
        /\ \A i \in DOMAIN t : r[i] = t[i]
        /\ r[Len(t) + 1] = sym
    BY AppendIsSequence DEF Symbols
  <2> HIDE DEF r
  <2>3. \A e \in DOMAIN t : e \in DOMAIN r /\ Keeps(t[e], r[e])
    BY <2>2 DEF Keeps, SameSymbol
  <2>4. Len(t) + 1 \in DOMAIN r /\ \A e \in DOMAIN r : e \in DOMAIN t \/ e = Len(t) + 1
    BY <2>2
  <2>. QED  BY <1>1, <2>1, <2>2, <2>3, <2>4
<1>2. CASE Entries(t, sym.name) # {}
  <2> DEFINE r == [i \in DOMAIN t |->
                     IF t[i].name = sym.name THEN [t[i] EXCEPT !.defined = @ \/ sym.defined]
                     ELSE t[i]]
  <2>1. Insert(t, sym) = r
    BY <1>2 DEF Insert
  <2>2. ASSUME NEW i \in DOMAIN t PROVE Keeps(t[i], r[i])
    <3>1. IsSymbol(t[i])
      BY DEF Symbols
    <3>2. CASE t[i].name = sym.name
      <4>1. r[i] = [t[i] EXCEPT !.defined = @ \/ sym.defined]
        BY <3>2
      <4>2. r[i] = [name |-> t[i].name, sig |-> t[i].sig, quals |-> t[i].quals,
                    defined |-> t[i].defined \/ sym.defined,
                    imported |-> t[i].imported, link |-> t[i].link]
        BY <3>1, <4>1 DEF IsSymbol
      <4> HIDE DEF r
      <4>. QED  BY <3>1, <4>2 DEF IsSymbol, Keeps, SameSymbol
    <3>3. CASE t[i].name # sym.name
      BY <3>1, <3>3 DEF Keeps, SameSymbol
    <3>. QED  BY <3>2, <3>3
  <2>3. DOMAIN r = DOMAIN t
    OBVIOUS
  <2> HIDE DEF r
  <2>. QED  BY <1>2, <2>1, <2>2, <2>3
<1>. QED  BY <1>1, <1>2

-----------------------------------------------------------------------------
(* The program does not change, and nor do the names that it gives. *)
LEMMA NamesStay ==
    ASSUME program' = program
    PROVE  /\ \A u : Imports(u)' = Imports(u) /\ Items(u)' = Items(u)
           /\ \A path : Found(path)' = Found(path)
           /\ \A u, item : OwnLink(u, item)' = OwnLink(u, item)
           /\ \A u, m, name : ImportedLink(u, m, name)' = ImportedLink(u, m, name)
<1>1. \A u : Imports(u)' = Imports(u) /\ Items(u)' = Items(u)
  BY DEF Imports, Items
<1>2. \A path : Found(path)' = Found(path)
  BY DEF Found
<1>3. \A u, item : OwnLink(u, item)' = OwnLink(u, item)
  BY DEF OwnLink, Prefix, NameFromPath
<1>4. \A u : PathsFrom(u)' = PathsFrom(u)
  BY DEF PathsFrom, Imports, Found
<1>5. \A u, m : NameIn(u, m)' = NameIn(u, m)
  BY <1>2, <1>4 DEF NameIn
<1>6. \A u, m, name : ImportedLink(u, m, name)' = ImportedLink(u, m, name)
  BY <1>5 DEF ImportedLink
<1>. QED  BY <1>1, <1>2, <1>3, <1>6

-----------------------------------------------------------------------------
(* A step inside a unit: its table keeps what it has, and the analysis     *)
(* goes on with its imports or functions.                                  *)
Grows ==
    /\ UNCHANGED <<program, unit>>
    /\ \/ next' = next /\ copied' = copied + 1
       \/ next' = next + 1 /\ copied' = copied
    /\ DOMAIN table' = UnitSet
    /\ \A u \in UnitSet : u # Current => table'[u] = table[u]
    /\ \A e \in DOMAIN table[Current] :
        e \in DOMAIN table'[Current] /\ Keeps(table[Current][e], table'[Current][e])

LEMMA ProgressGrows ==
    ASSUME Shape, Grows, NEW u \in UnitSet
    PROVE  /\ Reached(u) \in Nat /\ Reached(u)' \in Nat /\ Reached(u) <= Reached(u)'
           /\ ItemsDone(u) \subseteq ItemsDone(u)'
           /\ \A k \in DOMAIN Imports(u) : \A m \in Found(Imports(u)[k]) :
                \A e \in SymbolsDone(u, k, m) :
                    e \in SymbolsDone(u, k, m)' /\ table'[m][e] = table[m][e]
           /\ \A e \in DOMAIN table[u] :
                e \in DOMAIN table'[u] /\ Keeps(table[u][e], table'[u][e])
<1>1. /\ Imports(u)' = Imports(u) /\ Items(u)' = Items(u)
      /\ Len(Imports(u)) \in Nat /\ Len(Items(u)) \in Nat
      /\ DOMAIN Imports(u) = 1 .. Len(Imports(u)) /\ DOMAIN Items(u) = 1 .. Len(Items(u))
  BY NamesStay, ProgramIsTyped DEF Grows
<1>2. next \in Nat /\ copied \in Nat /\ next' \in Nat /\ copied' \in Nat
      /\ next <= next' /\ copied <= copied' /\ (next' = next \/ copied' = copied)
  BY DEF Shape, Grows
<1>3. Current' = Current /\ Analysed' = Analysed
  BY DEF Current, Analysed, Grows
<1>4. Reached(u) \in Nat /\ Reached(u)' \in Nat /\ Reached(u) <= Reached(u)'
  <2>1. CASE u \in Analysed
    BY <1>1, <1>3, <2>1 DEF Reached
  <2>2. CASE u \notin Analysed /\ u = Current
    BY <1>2, <1>3, <2>2 DEF Reached
  <2>3. CASE u \notin Analysed /\ u # Current
    BY <1>3, <2>3 DEF Reached
  <2>. QED  BY <2>1, <2>2, <2>3
<1>5. ItemsDone(u) \subseteq ItemsDone(u)'
  BY <1>1, <1>4 DEF ItemsDone
<1>6. ASSUME NEW k \in DOMAIN Imports(u), NEW m \in Found(Imports(u)[k]),
             NEW e \in SymbolsDone(u, k, m)
      PROVE  e \in SymbolsDone(u, k, m)' /\ table'[m][e] = table[m][e]
  <2>1. m # Current /\ m \in UnitSet
    BY SymbolsAreAnalysed
  <2>2. table'[m] = table[m]
    BY <2>1 DEF Grows
  <2>3. e \in DOMAIN table[m] /\ e \in Nat /\ k \in Nat
    <3>1. \A i \in DOMAIN table[m] : i \in Nat
      BY <2>1, AppendIsSequence DEF Shape
    <3>. QED  BY <1>1, <3>1 DEF SymbolsDone
  <2>4. CASE k < Reached(u)
    <3>1. k < Reached(u)'
      BY <1>4, <2>3, <2>4
    <3>. QED  BY <2>2, <2>3, <3>1 DEF SymbolsDone
  <2>5. CASE ~(k < Reached(u)) /\ u = Current /\ k = next /\ e <= copied
    <3>1. CASE next' = next
      <4>1. e <= copied' /\ k = next'
        BY <1>2, <2>3, <2>5, <3>1
      <4>. QED  BY <1>3, <2>2, <2>3, <2>5, <4>1 DEF SymbolsDone
    <3>2. CASE next' # next
      <4>1. Current \notin Analysed
        BY CurrentIsAUnit
      <4>2. Reached(u)' = next' /\ next' = next + 1
        BY <1>3, <2>5, <3>2, <4>1 DEF Reached, Grows
      <4>3. k < Reached(u)'
        BY <1>2, <2>5, <4>2
      <4>. QED  BY <2>2, <2>3, <4>3 DEF SymbolsDone
    <3>. QED  BY <3>1, <3>2
  <2>. QED  BY <2>4, <2>5 DEF SymbolsDone
<1>7. ASSUME NEW e \in DOMAIN table[u]
      PROVE  e \in DOMAIN table'[u] /\ Keeps(table[u][e], table'[u][e])
  BY DEF Grows, Keeps, SameSymbol
<1>. QED  BY <1>4, <1>5, <1>6, <1>7

(* What has an entry, keeps one. *)
LEMMA EntriesStay ==
    ASSUME Shape, Grows, NEW u \in UnitSet, NEW e \in DOMAIN table[u],
           FromItem(u, table[u][e]) \/ FromImport(u, table[u][e])
    PROVE  FromItem(u, table[u][e])' \/ FromImport(u, table[u][e])'
<1> DEFINE a == table[u][e]
           b == table'[u][e]
<1>1. Keeps(a, b)
  BY ProgressGrows
<1>2. program' = program
  BY DEF Grows
<1> HIDE DEF a, b
<1>3. CASE FromItem(u, a)
  <2>1. PICK i \in ItemsDone(u) : SameSymbol(a, Items(u)[i]) /\ a.link = OwnLink(u, Items(u)[i])
    BY <1>3 DEF FromItem
  <2>2. i \in ItemsDone(u)' /\ Items(u)' = Items(u)
    BY <1>2, ProgressGrows, NamesStay
  <2>3. OwnLink(u, Items(u)[i])' = OwnLink(u, Items(u)[i])
    BY <1>2, <2>2, NamesStay
  <2>4. ~b.imported /\ SameSymbol(b, Items(u)[i]) /\ b.link = a.link
    BY <1>1, <1>3, <2>1 DEF Keeps, SameSymbol, FromItem
  <2>5. FromItem(u, table[u][e])'
    BY <2>1, <2>2, <2>3, <2>4 DEF FromItem, b
  <2>. QED  BY <2>5
<1>4. CASE FromImport(u, a)
  <2>1. PICK k \in DOMAIN Imports(u) : \E m \in Found(Imports(u)[k]) :
            /\ \E n \in SymbolsDone(u, k, m) : Exported(table[m][n]) /\ SameSymbol(a, table[m][n])
            /\ a.link = ImportedLink(u, m, a.name)
    BY <1>4 DEF FromImport
  <2>2. PICK m \in Found(Imports(u)[k]) :
            /\ \E n \in SymbolsDone(u, k, m) : Exported(table[m][n]) /\ SameSymbol(a, table[m][n])
            /\ a.link = ImportedLink(u, m, a.name)
    BY <2>1
  <2>3. PICK n \in SymbolsDone(u, k, m) : Exported(table[m][n]) /\ SameSymbol(a, table[m][n])
    BY <2>2
  <2>4. n \in SymbolsDone(u, k, m)' /\ table'[m][n] = table[m][n]
    BY ProgressGrows
  <2>5. /\ Imports(u)' = Imports(u) /\ Found(Imports(u)[k])' = Found(Imports(u)[k])
        /\ \A name : ImportedLink(u, m, name)' = ImportedLink(u, m, name)
    BY <1>2, NamesStay
  <2>6. b.imported /\ b.defined /\ SameSymbol(b, table'[m][n]) /\ b.link = ImportedLink(u, m, b.name)
    BY <1>1, <1>4, <2>2, <2>3, <2>4 DEF Keeps, SameSymbol, FromImport
  <2>7. Exported(table'[m][n])
    BY <2>3, <2>4
  <2>8. FromImport(u, table[u][e])'
    BY <2>4, <2>5, <2>6, <2>7 DEF FromImport, Exported, SameSymbol, b
  <2>. QED  BY <2>8
<1>. QED  BY <1>3, <1>4 DEF a

LEMMA EnteredStays ==
    ASSUME Shape, Grows, NEW u \in UnitSet, NEW i, Entered(u, Items(u)[i])
    PROVE  Entered(u, Items(u)[i])'
<1>1. Items(u)' = Items(u)
  BY NamesStay DEF Grows
<1>2. \A e \in DOMAIN table[u] : e \in DOMAIN table'[u] /\ Keeps(table[u][e], table'[u][e])
  BY ProgressGrows
<1>. QED  BY <1>1, <1>2 DEF Entered, Keeps, SameSymbol, BadQualifiers

LEMMA ImportedStays ==
    ASSUME Shape, Grows, NEW u \in UnitSet, NEW m, NEW s, ImportedAs(u, m, s)
    PROVE  ImportedAs(u, m, s)'
<1>1. \A name : ImportedLink(u, m, name)' = ImportedLink(u, m, name)
  BY NamesStay DEF Grows
<1>2. \A e \in DOMAIN table[u] : e \in DOMAIN table'[u] /\ Keeps(table[u][e], table'[u][e])
  BY ProgressGrows
<1>. QED  BY <1>1, <1>2 DEF ImportedAs, Keeps, SameSymbol

LEMMA CodeStays ==
    ASSUME Shape, Grows, NEW u \in UnitSet, NEW code, NEW item, CodeIsOf(u, code, item)
    PROVE  CodeIsOf(u, code, item)'
<1>1. OwnLink(u, item)' = OwnLink(u, item)
  BY NamesStay DEF Grows
<1>2. \A e \in DOMAIN table[u] : e \in DOMAIN table'[u] /\ Keeps(table[u][e], table'[u][e])
  BY ProgressGrows
<1>. QED  BY <1>1, <1>2 DEF CodeIsOf, Keeps, SameSymbol

(* A step that enters nothing and gets no further. *)
LEMMA KnownStays ==
    ASSUME Shape, Known, UNCHANGED <<program, table, functions>>,
           \A u \in UnitSet :
                /\ ItemsDone(u)' = ItemsDone(u)
                /\ \A k \in DOMAIN Imports(u) : \A m \in Found(Imports(u)[k]) :
                    SymbolsDone(u, k, m)' = SymbolsDone(u, k, m)
    PROVE  Known'
<1>1. /\ \A u : Imports(u)' = Imports(u) /\ Items(u)' = Items(u)
      /\ \A path : Found(path)' = Found(path)
      /\ \A u, item : OwnLink(u, item)' = OwnLink(u, item)
      /\ \A u, m, name : ImportedLink(u, m, name)' = ImportedLink(u, m, name)
  BY NamesStay
<1>2. EntriesHaveSources'
  <2> SUFFICES ASSUME NEW u \in UnitSet, NEW e \in DOMAIN table[u]
               PROVE  (FromItem(u, table[u][e]) \/ FromImport(u, table[u][e]))'
    BY DEF EntriesHaveSources
  <2>1. FromItem(u, table[u][e]) => FromItem(u, table[u][e])'
    BY <1>1 DEF FromItem
  <2>2. FromImport(u, table[u][e]) => FromImport(u, table[u][e])'
    BY <1>1 DEF FromImport
  <2>. QED  BY <2>1, <2>2 DEF Known, EntriesHaveSources
<1>3. ItemsAreEntered'
  BY <1>1 DEF Known, ItemsAreEntered, Entered, BadQualifiers
<1>4. ImportsAreEntered'
  BY <1>1 DEF Known, ImportsAreEntered, ImportedAs
<1>5. CodeIsGenerated'
  BY <1>1 DEF Known, CodeIsGenerated, CodeIsOf
<1>. QED  BY <1>2, <1>3, <1>4, <1>5 DEF Known

-----------------------------------------------------------------------------
LEMMA NumbersOfCurrent ==
    ASSUME Shape
    PROVE  /\ Len(Imports(Current)) \in Nat /\ DOMAIN Imports(Current) = 1 .. Len(Imports(Current))
           /\ Len(Items(Current)) \in Nat /\ DOMAIN Items(Current) = 1 .. Len(Items(Current))
           /\ next \in Nat /\ copied \in Nat
           /\ Reached(Current) = next
BY CurrentIsAUnit, ProgramIsTyped DEF Shape, Reached

(* Between imports: all symbols of one are through, and none of the next.  *)
LEMMA ImportEndsKeepsKnown ==
    ASSUME Shape, Known, ImportEnds, ~failed'
    PROVE  Known'
<1>1. /\ UNCHANGED <<program, unit, table, functions>>
      /\ next' = next + 1 /\ copied' = 0 /\ next <= Len(Imports(Current))
      /\ \A m \in Dependency : copied = Len(table[m])
  BY DEF ImportEnds, Importing
<1>2. /\ \A u : Imports(u)' = Imports(u) /\ Items(u)' = Items(u)
      /\ Current' = Current /\ Analysed' = Analysed
  BY <1>1, NamesStay DEF Current, Analysed
<1>3. Reached(Current) = next /\ Reached(Current)' = next + 1 /\ next \in Nat
  BY <1>1, <1>2, NumbersOfCurrent, CurrentIsAUnit DEF Reached
<1>4. \A u \in UnitSet : u # Current => Reached(u)' = Reached(u)
  BY <1>2 DEF Reached
<1>5. ASSUME NEW u \in UnitSet
      PROVE  ItemsDone(u)' = ItemsDone(u)
  <2>1. CASE u = Current
    <3>1. \A i \in DOMAIN Items(u) : i \in Nat /\ i >= 1
      BY <2>1, NumbersOfCurrent
    <3>2. \A i \in DOMAIN Items(u) : ~(Len(Imports(u)) + i < next + 1)
      BY <1>1, <1>3, <2>1, <3>1, NumbersOfCurrent
    <3>3. \A i \in DOMAIN Items(u) : ~(Len(Imports(u)) + i < next)
      BY <1>1, <1>3, <2>1, <3>1, NumbersOfCurrent
    <3>. QED  BY <1>2, <1>3, <2>1, <3>2, <3>3 DEF ItemsDone
  <2>2. CASE u # Current
    BY <1>2, <1>4, <2>2 DEF ItemsDone
  <2>. QED  BY <2>1, <2>2
<1>6. ASSUME NEW u \in UnitSet, NEW k \in DOMAIN Imports(u), NEW m \in Found(Imports(u)[k])
      PROVE  SymbolsDone(u, k, m)' = SymbolsDone(u, k, m)
  <2>1. CASE u = Current
    <3>1. k \in Nat /\ m \in UnitSet
      <4>1. m \in ModuleSet
        BY DEF Found, FoundIn
      <4>. QED  BY <2>1, <4>1, NumbersOfCurrent, UnitsAreTheirSet
    <3>2. \A e \in DOMAIN table[m] : e \in Nat /\ e >= 1 /\ e <= Len(table[m])
      BY <3>1, AppendIsSequence DEF Shape
    <3>3. k = next => copied = Len(table[m])
      BY <1>1, <2>1 DEF Dependency
    <3>4. \A e \in DOMAIN table[m] :
            (k < next + 1 \/ (k = next + 1 /\ e <= 0)) <=> (k < next \/ (k = next /\ e <= copied))
      BY <1>3, <3>1, <3>2, <3>3
    <3>5. SymbolsDone(u, k, m)' =
            {e \in DOMAIN table[m] : k < next + 1 \/ (k = next + 1 /\ e <= 0)}
      BY <1>1, <1>2, <1>3, <2>1 DEF SymbolsDone
    <3>6. SymbolsDone(u, k, m) =
            {e \in DOMAIN table[m] : k < next \/ (k = next /\ e <= copied)}
      BY <1>3, <2>1 DEF SymbolsDone
    <3>. QED  BY <3>4, <3>5, <3>6
  <2>2. CASE u # Current
    BY <1>1, <1>2, <1>4, <2>2 DEF SymbolsDone
  <2>. QED  BY <2>1, <2>2
<1>. QED  BY <1>1, <1>5, <1>6, KnownStays

(* Between units: the one that ends has been analysed as a whole.          *)
LEMMA UnitEndsKeepsKnown ==
    ASSUME Shape, Progress, Known, UnitEnds, ~failed'
    PROVE  Known'
<1>1. /\ UNCHANGED <<program, table, functions>> /\ copied' = copied
      /\ next > Len(Imports(Current)) + Len(Items(Current))
      /\ \/ UNCHANGED <<unit, next>>
         \/ Current # Root /\ unit' = unit + 1 /\ next' = 1
  BY DEF UnitEnds
<1>2. CASE UNCHANGED <<unit, next>>
  BY <1>1, <1>2, KnownStays
     DEF ItemsDone, SymbolsDone, Reached, Analysed, Current, Imports, Items
<1>3. CASE Current # Root /\ unit' = unit + 1 /\ next' = 1
  <2>1. /\ next \in Nat /\ next = Len(Imports(Current)) + Len(Items(Current)) + 1
        /\ copied' = 0 /\ copied = 0 /\ Reached(Current) = next
    BY <1>1, NumbersOfCurrent DEF Progress
  <2>2. /\ unit \in DOMAIN Units /\ unit \in Nat /\ unit + 1 \in DOMAIN Units
        /\ Current \in UnitSet /\ Current \notin Analysed
    BY <1>3, CurrentIsAUnit, UnitsAreTheirSet DEF Current
  <2>3. Analysed' = Analysed \cup {Current}
    <3>1. 1 .. (unit + 1) - 1 = 1 .. (unit - 1) \cup {unit}
      BY <2>2, UnitsAreTheirSet
    <3>. QED  BY <1>3, <3>1 DEF Analysed, Current
  <2>4. /\ \A u : Imports(u)' = Imports(u) /\ Items(u)' = Items(u)
        /\ Current' = Units[unit + 1]
    BY <1>1, <1>3, NamesStay DEF Current
  <2>5. Current' \notin Analysed /\ Current' # Current
    <3>1. ASSUME NEW n \in 1 .. unit PROVE Units[n] # Units[unit + 1]
      BY <2>2, UnitsAreTheirSet
    <3>2. unit \in 1 .. unit /\ \A n \in 1 .. unit - 1 : n \in 1 .. unit
      BY <2>2, UnitsAreTheirSet
    <3>. QED  BY <2>4, <3>1, <3>2 DEF Analysed, Current
  <2>6. ASSUME NEW u \in UnitSet PROVE Reached(u)' = Reached(u)
    <3>1. CASE u \in Analysed
      BY <2>3, <2>4, <3>1 DEF Reached
    <3>2. CASE u = Current
      BY <2>1, <2>3, <2>4, <3>2 DEF Reached
    <3>3. CASE u \notin Analysed /\ u # Current
      <4>1. Reached(u) = 1 /\ u \notin Analysed'
        BY <2>3, <3>3 DEF Reached
      <4>2. Reached(u)' = 1
        BY <1>3, <4>1 DEF Reached
      <4>. QED  BY <4>1, <4>2
    <3>. QED  BY <3>1, <3>2, <3>3
  <2>7. \A u \in UnitSet : ItemsDone(u)' = ItemsDone(u)
    BY <2>4, <2>6 DEF ItemsDone
  <2>8. ASSUME NEW u \in UnitSet, NEW k \in DOMAIN Imports(u), NEW m \in Found(Imports(u)[k])
        PROVE  SymbolsDone(u, k, m)' = SymbolsDone(u, k, m)
    <3>1. m \in UnitSet
      BY UnitsAreTheirSet DEF Found, FoundIn
    <3>2. \A e \in DOMAIN table[m] : ~(e <= 0)
      BY <3>1, AppendIsSequence DEF Shape
    <3>. QED  BY <1>1, <2>1, <2>6, <3>2 DEF SymbolsDone
  <2>. QED  BY <1>1, <2>7, <2>8, KnownStays
<1>. QED  BY <1>1, <1>2, <1>3

-----------------------------------------------------------------------------
(* A step that enters a symbol into the table of the current unit.         *)
LEMMA EnteringGrows ==
    ASSUME Shape, OneEntryEach, UNCHANGED <<program, unit>>,
           \/ next' = next /\ copied' = copied + 1
           \/ next' = next + 1 /\ copied' = copied,
           NEW sym, IsSymbol(sym), ~Refused(table[Current], sym),
           table' = [table EXCEPT ![Current] = Insert(@, sym)]
    PROVE  Grows /\ table'[Current] = Insert(table[Current], sym)
<1>1. Current \in UnitSet /\ DOMAIN table = UnitSet
  BY CurrentIsAUnit DEF Shape
<1>2. Symbols(table[Current])
  BY <1>1 DEF Shape, Symbols
<1>3. /\ DOMAIN table' = UnitSet
      /\ table'[Current] = Insert(table[Current], sym)
      /\ \A u \in UnitSet : u # Current => table'[u] = table[u]
  BY <1>1
<1>4. \A e \in DOMAIN table[Current] :
        e \in DOMAIN table'[Current] /\ Keeps(table[Current][e], table'[Current][e])
  BY <1>2, <1>3, InsertGrows
<1>. QED  BY <1>3, <1>4 DEF Grows

(* While a unit imports, its table has imported symbols only, which have   *)
(* bodies elsewhere: a second one of a name is refused.                    *)
LEMMA ImportsAreAppended ==
    ASSUME Shape, Known, Importing, NEW sym, sym.defined, ~Refused(table[Current], sym)
    PROVE  Entries(table[Current], sym.name) = {}
<1> SUFFICES ASSUME NEW e \in Entries(table[Current], sym.name) PROVE FALSE
  OBVIOUS
<1>1. e \in DOMAIN table[Current] /\ table[Current][e].name = sym.name
  BY DEF Entries
<1>2. FromItem(Current, table[Current][e]) \/ FromImport(Current, table[Current][e])
  BY <1>1, CurrentIsAUnit DEF Known, EntriesHaveSources
<1>3. ItemsDone(Current) = {}
  <2>1. \A i \in DOMAIN Items(Current) : ~(Len(Imports(Current)) + i < next)
    BY NumbersOfCurrent DEF Importing
  <2>. QED  BY <2>1, NumbersOfCurrent DEF ItemsDone
<1>4. FromImport(Current, table[Current][e])
  BY <1>2, <1>3 DEF FromItem
<1>5. table[Current][e].defined
  BY <1>4 DEF FromImport
<1>. QED  BY <1>5 DEF Refused

LEMMA AsImportedIsSymbol ==
    ASSUME NEW m, NEW s, IsSymbol(s)
    PROVE  /\ IsSymbol(AsImported(m, s)) /\ SameSymbol(AsImported(m, s), s)
           /\ AsImported(m, s).imported /\ AsImported(m, s).defined
           /\ AsImported(m, s).link = ImportedLink(Current, m, s.name)
<1> DEFINE link == ImportedLink(Current, m, s.name)
           sym == AsImported(m, s)
<1>1. sym = [s EXCEPT !.imported = TRUE, !.defined = TRUE, !.link = link]
  BY DEF AsImported
<1> HIDE DEF link, sym
<1>2. sym = [name |-> s.name, sig |-> s.sig, quals |-> s.quals,
             defined |-> TRUE, imported |-> TRUE, link |-> link]
  BY <1>1 DEF IsSymbol
<1>. QED  BY <1>2 DEF IsSymbol, SameSymbol, sym, link

LEMMA ImportSymbolKeepsKnown ==
    ASSUME IInv, Progress, Known, ImportSymbol, ~failed'
    PROVE  Known'
<1> DEFINE d == Current
           n == copied + 1
<1>1. PICK m0 \in Dependency :
        /\ copied < Len(table[m0])
        /\ LET s   == table[m0][copied + 1]
               sym == AsImported(m0, s)
           IN  IF Exported(s)
               THEN /\ table' = [table EXCEPT ![Current] = Insert(@, sym)]
                    /\ failed' = (failed \/ Refused(table[Current], sym))
               ELSE UNCHANGED <<table, failed>>
  BY DEF ImportSymbol
<1> DEFINE s   == table[m0][n]
           sym == AsImported(m0, s)
<1>2. /\ UNCHANGED <<program, unit, next, functions>> /\ copied' = copied + 1
      /\ Importing /\ next <= Len(Imports(d))
  BY DEF ImportSymbol, Importing
<1>3. /\ Shape /\ OneEntryEach /\ d \in UnitSet /\ next \in Nat /\ copied \in Nat
      /\ d \notin Analysed /\ Reached(d) = next
  BY CurrentIsAUnit, NumbersOfCurrent DEF IInv, Shape
<1>4. next \in DOMAIN Imports(d) /\ m0 \in Found(Imports(d)[next])
  BY <1>2, <1>3, NumbersOfCurrent DEF Dependency, Progress
<1>5. m0 \in UnitSet /\ m0 # d /\ \A m \in Found(Imports(d)[next]) : m = m0
  <2>1. unit \in DOMAIN Units /\ unit \in Nat /\ d = Units[unit]
    BY CurrentIsAUnit DEF IInv, Current
  <2>2. PICK j \in 1 .. unit - 1 : j \in DOMAIN Units /\ m0 = Units[j]
    BY <1>3, <1>4, <2>1, ImportsAreEarlier
  <2>3. m0 # d
    BY <2>1, <2>2, UnitsAreTheirSet
  <2>. QED  BY <1>3, <1>4, <2>1, <2>3, ImportsAreEarlier
<1>6. n \in DOMAIN table[m0] /\ IsSymbol(s)
  <2>1. DOMAIN table[m0] = 1 .. Len(table[m0]) /\ Len(table[m0]) \in Nat
    BY <1>3, <1>5, AppendIsSequence DEF Shape
  <2>2. n \in DOMAIN table[m0]
    BY <1>1, <1>3, <2>1
  <2>. QED  BY <1>3, <1>5, <2>2 DEF Shape
<1>7. /\ IsSymbol(sym) /\ SameSymbol(sym, s) /\ sym.imported /\ sym.defined
      /\ sym.link = ImportedLink(d, m0, s.name)
  BY <1>6, AsImportedIsSymbol
<1>8. /\ Grows
      /\ Exported(s) => /\ ~Refused(table[d], sym)
                        /\ table'[d] = Insert(table[d], sym)
      /\ ~Exported(s) => table' = table
  <2>1. CASE Exported(s)
    <3>1. table' = [table EXCEPT ![Current] = Insert(@, sym)] /\ ~Refused(table[d], sym)
      BY <1>1, <2>1
    <3> HIDE DEF sym
    <3>. QED  BY <1>2, <1>3, <1>7, <2>1, <3>1, EnteringGrows
  <2>2. CASE ~Exported(s)
    <3>1. table' = table
      BY <1>1, <2>2
    <3>. QED  BY <1>2, <1>3, <2>2, <3>1 DEF Grows, Shape, Keeps, SameSymbol
  <2>. QED  BY <2>1, <2>2
<1>9. /\ \A u : Imports(u)' = Imports(u) /\ Items(u)' = Items(u)
      /\ \A path : Found(path)' = Found(path)
      /\ \A u, m, name : ImportedLink(u, m, name)' = ImportedLink(u, m, name)
      /\ Current' = Current /\ Analysed' = Analysed
  BY <1>2, NamesStay DEF Current, Analysed
<1>10. /\ \A u : Reached(u)' = Reached(u)
       /\ \A u : ItemsDone(u)' = ItemsDone(u)
  <2>1. \A u : Reached(u)' = Reached(u)
    BY <1>2, <1>9 DEF Reached
  <2>. QED  BY <1>9, <2>1 DEF ItemsDone
<1> HIDE DEF s, sym
<1>11. n \in SymbolsDone(d, next, m0)' /\ table'[m0][n] = s
  <2>1. table'[m0] = table[m0]
    BY <1>5, <1>8 DEF Grows
  <2>. QED  BY <1>2, <1>3, <1>6, <1>9, <2>1 DEF SymbolsDone, s
<1>12. Exported(s) => /\ Len(table[d]) + 1 \in DOMAIN table'[d]
                      /\ table'[d][Len(table[d]) + 1] = sym
                      /\ \A e \in DOMAIN table'[d] : e \in DOMAIN table[d] \/ e = Len(table[d]) + 1
  <2> SUFFICES ASSUME Exported(s)
               PROVE  /\ Len(table[d]) + 1 \in DOMAIN table'[d]
                      /\ table'[d][Len(table[d]) + 1] = sym
                      /\ \A e \in DOMAIN table'[d] : e \in DOMAIN table[d] \/ e = Len(table[d]) + 1
    OBVIOUS
  <2>1. Entries(table[d], sym.name) = {}
    BY <1>2, <1>3, <1>7, <1>8, ImportsAreAppended
  <2>2. Symbols(table[d])
    BY <1>3 DEF Shape, Symbols
  <2>. QED  BY <1>7, <1>8, <2>1, <2>2, InsertGrows
<1>13. EntriesHaveSources'
  <2> SUFFICES ASSUME NEW u \in UnitSet, NEW e \in DOMAIN table'[u]
               PROVE  (FromItem(u, table[u][e]) \/ FromImport(u, table[u][e]))'
    BY DEF EntriesHaveSources
  <2>1. CASE e \in DOMAIN table[u]
    BY <1>3, <1>8, <2>1, EntriesStay DEF Known, EntriesHaveSources
  <2>2. CASE e \notin DOMAIN table[u]
    <3>1. u = d /\ Exported(s) /\ table'[u][e] = sym
      BY <1>8, <1>12, <2>2 DEF Grows
    <3>2. PICK x, k, y : x = sym /\ k = next /\ y = s
      OBVIOUS
    <3>3. /\ x.imported /\ x.defined /\ SameSymbol(x, y)
          /\ x.link = ImportedLink(u, m0, x.name) /\ Exported(y)
      BY <1>7, <3>1, <3>2 DEF SameSymbol
    <3>4. k \in DOMAIN Imports(u) /\ m0 \in Found(Imports(u)[k])
      BY <1>4, <3>1, <3>2
    <3>5. \E z \in SymbolsDone(u, k, m0)' : table'[m0][z] = y
      BY <1>2, <1>9, <1>11, <3>1, <3>2
    <3>6. FromImport(u, x)'
      BY <1>9, <3>3, <3>4, <3>5 DEF FromImport
    <3>. QED  BY <3>1, <3>2, <3>6 DEF FromImport
  <2>. QED  BY <2>1, <2>2
<1>14. ItemsAreEntered'
  <2> SUFFICES ASSUME NEW u \in UnitSet, NEW i \in ItemsDone(u)
               PROVE  Entered(u, Items(u)[i])'
    BY <1>10 DEF ItemsAreEntered
  <2>. QED  BY <1>3, <1>8, EnteredStays DEF Known, ItemsAreEntered
<1>15. ImportsAreEntered'
  <2> SUFFICES ASSUME NEW u \in UnitSet, NEW k \in DOMAIN Imports(u),
                      NEW m \in Found(Imports(u)[k]), NEW e \in SymbolsDone(u, k, m)',
                      Exported(table'[m][e])
               PROVE  ImportedAs(u, m, table[m][e])'
    BY <1>9 DEF ImportsAreEntered
  <2>1. CASE e \in SymbolsDone(u, k, m)
    <3>1. table'[m][e] = table[m][e]
      BY <1>3, <1>8, <2>1, ProgressGrows
    <3>2. ImportedAs(u, m, table[m][e])
      BY <2>1, <3>1 DEF Known, ImportsAreEntered
    <3>3. \A x : ImportedAs(u, m, x) => ImportedAs(u, m, x)'
      BY <1>3, <1>8, ImportedStays
    <3>4. PICK x : x = table[m][e]
      OBVIOUS
    <3>5. ImportedAs(u, m, x)'
      BY <3>2, <3>3, <3>4
    <3>. QED  BY <3>1, <3>4, <3>5 DEF ImportedAs
  <2>2. CASE e \notin SymbolsDone(u, k, m)
    <3>1. u = d /\ k = next /\ e = n /\ m = m0
      <4>1. /\ e \in DOMAIN table'[m]
            /\ k < Reached(u) \/ (u = d /\ k = next /\ e <= n)
        BY <1>2, <1>9, <1>10 DEF SymbolsDone
      <4>2. m \in UnitSet
        BY UnitsAreTheirSet DEF Found, FoundIn
      <4>3. m # d
        BY <1>3, <4>1, ReachedAreAnalysed
      <4>4. e \in DOMAIN table[m]
        BY <1>8, <4>1, <4>2, <4>3 DEF Grows
      <4>5. ~(k < Reached(u)) /\ u = d /\ k = next /\ ~(e <= copied)
        BY <2>2, <4>1, <4>4 DEF SymbolsDone
      <4>6. e \in Nat
        BY <1>3, <4>2, <4>4, AppendIsSequence DEF Shape
      <4>. QED  BY <1>3, <1>5, <4>1, <4>5, <4>6
    <3>2. PICK x : x = s
      OBVIOUS
    <3>3. table'[m][e] = x /\ Exported(x)
      BY <1>11, <3>1, <3>2
    <3>4. /\ SameSymbol(sym, x) /\ sym.imported
          /\ sym.link = ImportedLink(u, m, x.name)
      BY <1>7, <3>1, <3>2
    <3>5. ImportedLink(u, m, x.name)' = ImportedLink(u, m, x.name)
      BY <1>9
    <3>6. ImportedAs(u, m, x)'
      BY <1>12, <3>1, <3>2, <3>3, <3>4, <3>5 DEF ImportedAs
    <3>. QED  BY <3>3, <3>6 DEF ImportedAs
  <2>. QED  BY <2>1, <2>2
<1>16. CodeIsGenerated'
  <2> SUFFICES ASSUME NEW u \in UnitSet
               PROVE  /\ DOMAIN functions[u] = ItemsDone(u)
                      /\ \A i \in ItemsDone(u) : CodeIsOf(u, functions[u][i], Items(u)[i])'
    BY <1>2, <1>10 DEF CodeIsGenerated
  <2>1. ASSUME NEW i \in ItemsDone(u) PROVE CodeIsOf(u, functions[u][i], Items(u)[i])'
    <3>1. CodeIsOf(u, functions[u][i], Items(u)[i])
      BY DEF Known, CodeIsGenerated
    <3>2. \A c, x : CodeIsOf(u, c, x) => CodeIsOf(u, c, x)'
      BY <1>3, <1>8, CodeStays
    <3>3. PICK c, x : c = functions[u][i] /\ x = Items(u)[i]
      OBVIOUS
    <3>4. CodeIsOf(u, c, x)'
      BY <3>1, <3>2, <3>3
    <3>5. c = functions'[u][i] /\ x = Items(u)[i]'
      BY <1>2, <1>9, <3>3
    <3>. QED  BY <1>9, <3>4, <3>5 DEF CodeIsOf
  <2>. QED  BY <2>1 DEF Known, CodeIsGenerated
<1>. QED  BY <1>13, <1>14, <1>15, <1>16 DEF Known

-----------------------------------------------------------------------------
LEMMA FuncDeclKeepsKnown ==
    ASSUME IInv, Progress, Known, FuncDecl, ~failed'
    PROVE  Known'
<1> DEFINE d   == Current
           n   == next - Len(Imports(d))
           sym == Symbol(Item)
           t   == table[d]
           t2  == Insert(t, sym)
           fn  == Function(t2, sym, Item)
<1>1. /\ UNCHANGED <<program, unit, copied>> /\ next' = next + 1
      /\ next > Len(Imports(d)) /\ next <= Len(Imports(d)) + Len(Items(d))
      /\ ~BadQualifiers(sym) /\ ~Refused(t, sym)
      /\ \A k \in DOMAIN Item.calls : CallOK(t2, Item.calls[k])
      /\ table' = [table EXCEPT ![Current] = t2]
      /\ functions' = [functions EXCEPT ![Current] = Append(@, fn)]
  BY DEF FuncDecl
<1>2. /\ Shape /\ OneEntryEach /\ d \in UnitSet /\ next \in Nat
      /\ d \notin Analysed /\ Reached(d) = next
      /\ Len(Imports(d)) \in Nat /\ DOMAIN Imports(d) = 1 .. Len(Imports(d))
      /\ Len(Items(d)) \in Nat /\ DOMAIN Items(d) = 1 .. Len(Items(d))
  BY CurrentIsAUnit, NumbersOfCurrent DEF IInv
<1>3. n \in DOMAIN Items(d) /\ n \in Nat /\ Item = Items(d)[n] /\ Item.defined \in BOOLEAN
  <2>1. n \in DOMAIN Items(d) /\ n \in Nat
    BY <1>1, <1>2
  <2>. QED  BY <1>2, <2>1, ProgramIsTyped DEF Item
<1>4. /\ IsSymbol(sym) /\ SameSymbol(sym, Item) /\ sym.defined = Item.defined
      /\ ~sym.imported /\ sym.link = OwnLink(d, Item)
  BY <1>3 DEF Symbol, IsSymbol, SameSymbol
<1>5. /\ fn.name = Item.name /\ fn.link = sym.link /\ fn.defined = Item.defined
      /\ fn.pub = ("pub" \in Item.quals) /\ DOMAIN fn.calls = DOMAIN Item.calls
      /\ \A k \in DOMAIN Item.calls : fn.calls[k] = Lookup(t2, Item.calls[k].name).link
  BY DEF Function
<1> HIDE DEF sym, fn
<1>6. Grows /\ table'[d] = t2
  BY <1>1, <1>2, <1>4, EnteringGrows
<1>7. /\ \A u : Imports(u)' = Imports(u) /\ Items(u)' = Items(u)
      /\ \A path : Found(path)' = Found(path)
      /\ \A u, m, name : ImportedLink(u, m, name)' = ImportedLink(u, m, name)
      /\ \A u, item : OwnLink(u, item)' = OwnLink(u, item)
      /\ Current' = Current /\ Analysed' = Analysed
  BY <1>1, NamesStay DEF Current, Analysed
<1>8. /\ Reached(d)' = next + 1
      /\ \A u : u # d => Reached(u)' = Reached(u)
  BY <1>1, <1>2, <1>7 DEF Reached
<1>9. /\ ItemsDone(d) = 1 .. n - 1 /\ ItemsDone(d)' = 1 .. n
      /\ \A u : u # d => ItemsDone(u)' = ItemsDone(u)
  <2>1. \A i \in DOMAIN Items(d) : /\ Len(Imports(d)) + i < next <=> i \in 1 .. n - 1
                                   /\ Len(Imports(d)) + i < next + 1 <=> i \in 1 .. n
    BY <1>2, <1>3
  <2>2. 1 .. n - 1 \subseteq DOMAIN Items(d) /\ 1 .. n \subseteq DOMAIN Items(d)
    BY <1>2, <1>3
  <2>3. ItemsDone(d) = {i \in DOMAIN Items(d) : Len(Imports(d)) + i < next}
    BY <1>2 DEF ItemsDone
  <2>4. ItemsDone(d)' = {i \in DOMAIN Items(d) : Len(Imports(d)) + i < next + 1}
    BY <1>7, <1>8 DEF ItemsDone
  <2>5. ItemsDone(d) = 1 .. n - 1
    BY <2>1, <2>2, <2>3
  <2>6. ItemsDone(d)' = 1 .. n
    BY <2>1, <2>2, <2>4
  <2>. QED  BY <1>7, <1>8, <2>5, <2>6 DEF ItemsDone
<1>10. \A u \in UnitSet : \A i \in ItemsDone(u)' : i \in ItemsDone(u) \/ (u = d /\ i = n)
  <2>1. \A i \in 1 .. n : i \in 1 .. n - 1 \/ i = n
    BY <1>3
  <2>. QED  BY <1>7, <1>9, <2>1
<1>11. n \in ItemsDone(d)'
  <2>1. n \in 1 .. n
    BY <1>2, <1>3
  <2>. QED  BY <1>9, <2>1
<1>12. Symbols(t)
  BY <1>2 DEF Shape, Symbols
<1>13. EntriesHaveSources'
  <2> SUFFICES ASSUME NEW u \in UnitSet, NEW e \in DOMAIN table'[u]
               PROVE  (FromItem(u, table[u][e]) \/ FromImport(u, table[u][e]))'
    BY DEF EntriesHaveSources
  <2>1. CASE e \in DOMAIN table[u]
    BY <1>2, <1>6, <2>1, EntriesStay DEF Known, EntriesHaveSources
  <2>2. CASE e \notin DOMAIN table[u]
    <3>1. u = d
      BY <1>6, <2>2 DEF Grows
    <3>2. Entries(t, sym.name) = {}
      <4>1. DOMAIN t2 # DOMAIN t
        BY <1>6, <2>2, <3>1
      <4>. QED  BY <1>1, <1>4, <1>12, <4>1, InsertGrows
    <3>3. table'[u][e] = sym
      BY <1>1, <1>4, <1>6, <1>12, <2>2, <3>1, <3>2, InsertGrows
    <3>4. PICK x, i : x = sym /\ i = n
      OBVIOUS
    <3>5. /\ ~x.imported /\ SameSymbol(x, Items(u)[i]) /\ x.link = OwnLink(u, Items(u)[i])
          /\ OwnLink(u, Items(u)[i])' = OwnLink(u, Items(u)[i])
      BY <1>3, <1>4, <1>7, <3>1, <3>4
    <3>6. i \in ItemsDone(u)'
      BY <1>7, <1>11, <3>1, <3>4
    <3>7. FromItem(u, x)'
      BY <1>7, <3>5, <3>6 DEF FromItem
    <3>. QED  BY <3>3, <3>4, <3>7 DEF FromItem
  <2>. QED  BY <2>1, <2>2
<1>14. ItemsAreEntered'
  <2> SUFFICES ASSUME NEW u \in UnitSet, NEW i \in ItemsDone(u)'
               PROVE  Entered(u, Items(u)[i])'
    BY DEF ItemsAreEntered
  <2>1. CASE i \in ItemsDone(u)
    BY <1>2, <1>6, <2>1, EnteredStays DEF Known, ItemsAreEntered
  <2>2. CASE u = d /\ i = n
    <3>1. ~BadQualifiers(Item) /\ ~("extern" \in Item.quals /\ Item.defined)
      BY <1>1, <1>4 DEF BadQualifiers, Refused, SameSymbol
    <3>2. \E e \in DOMAIN t2 : /\ t2[e].name = Item.name /\ t2[e].sig = Item.sig
                               /\ Item.defined => ~t2[e].imported
      <4>1. CASE Entries(t, sym.name) = {}
        <5>1. Len(t) + 1 \in DOMAIN t2 /\ t2[Len(t) + 1] = sym
          BY <1>1, <1>4, <1>12, <4>1, InsertGrows
        <5>. QED  BY <1>4, <5>1 DEF SameSymbol
      <4>2. CASE Entries(t, sym.name) # {}
        <5>1. PICK e \in DOMAIN t : t[e].name = sym.name
          BY <4>2 DEF Entries
        <5>2. t[e].sig = sym.sig /\ ~(t[e].defined /\ sym.defined)
          BY <1>1, <5>1 DEF Refused, Entries
        <5>3. e \in DOMAIN t2 /\ Keeps(t[e], t2[e])
          BY <1>1, <1>4, <1>12, InsertGrows
        <5>4. Item.defined => ~t[e].imported
          BY <1>2, <1>4, <5>2 DEF Known, EntriesHaveSources, FromItem, FromImport
        <5>. QED  BY <1>4, <5>1, <5>2, <5>3, <5>4 DEF Keeps, SameSymbol
      <4>. QED  BY <4>1, <4>2
    <3>3. PICK x : x = Item
      OBVIOUS
    <3>4. Items(u)'[i] = x
      BY <1>3, <1>7, <2>2, <3>3
    <3>5. table'[u] = t2
      BY <1>6, <2>2
    <3> HIDE DEF t2
    <3>. QED  BY <3>1, <3>2, <3>3, <3>4, <3>5 DEF Entered, BadQualifiers
  <2>. QED  BY <1>10, <2>1, <2>2
<1>15. ImportsAreEntered'
  <2> SUFFICES ASSUME NEW u \in UnitSet, NEW k \in DOMAIN Imports(u),
                      NEW m \in Found(Imports(u)[k]), NEW e \in SymbolsDone(u, k, m)',
                      Exported(table'[m][e])
               PROVE  ImportedAs(u, m, table[m][e])'
    BY <1>7 DEF ImportsAreEntered
  <2>1. m \in UnitSet
    BY UnitsAreTheirSet DEF Found, FoundIn
  <2>2. /\ e \in DOMAIN table'[m]
        /\ k < Reached(u)' \/ (u = d /\ k = next + 1)
    BY <1>1, <1>7 DEF SymbolsDone
  <2>3. k < Reached(u)
    <3>1. CASE u = d
      BY <1>1, <1>2, <3>1
    <3>2. CASE u # d
      BY <1>8, <2>2, <3>2
    <3>. QED  BY <3>1, <3>2
  <2>4. m # d
    BY <1>2, <2>3, ReachedAreAnalysed
  <2>5. table'[m] = table[m] /\ e \in SymbolsDone(u, k, m)
    BY <1>6, <2>1, <2>2, <2>3, <2>4 DEF Grows, SymbolsDone
  <2>6. PICK x : x = table[m][e]
    OBVIOUS
  <2>7. ImportedAs(u, m, x)
    BY <2>5, <2>6 DEF Known, ImportsAreEntered
  <2>8. ImportedAs(u, m, x)'
    BY <1>2, <1>6, <2>7, ImportedStays
  <2>. QED  BY <2>5, <2>6, <2>8 DEF ImportedAs
<1>16. CodeIsGenerated'
  <2> DEFINE fs == functions[d]
  <2>1. /\ DOMAIN functions' = UnitSet /\ functions'[d] = Append(fs, fn)
        /\ \A u \in UnitSet : u # d => functions'[u] = functions[u]
    BY <1>1, <1>2 DEF Shape
  <2>2. /\ DOMAIN Append(fs, fn) = 1 .. Len(fs) + 1
        /\ DOMAIN fs = 1 .. Len(fs) /\ Len(fs) \in Nat
        /\ \A i \in DOMAIN fs : Append(fs, fn)[i] = fs[i]
        /\ Append(fs, fn)[Len(fs) + 1] = fn
    BY <1>2, AppendIsSequence DEF Shape
  <2>3. DOMAIN fs = 1 .. n - 1
    BY <1>2, <1>9 DEF Known, CodeIsGenerated
  <2>4. Len(fs) + 1 = n
    <3>1. CASE Len(fs) < n - 1
      <4>1. n - 1 \in 1 .. n - 1
        BY <1>3, <2>2, <3>1
      <4>. QED  BY <1>3, <2>2, <2>3, <3>1, <4>1
    <3>2. CASE Len(fs) > n - 1
      <4>1. Len(fs) \in 1 .. Len(fs)
        BY <1>2, <1>3, <2>2, <3>2
      <4>. QED  BY <1>3, <2>2, <2>3, <3>2, <4>1
    <3>. QED  BY <1>3, <2>2, <3>1, <3>2
  <2>5. ASSUME NEW u \in UnitSet, NEW c, NEW x, u = d, c = fn, x = Item
        PROVE  CodeIsOf(u, c, x)'
    <3>1. ASSUME NEW k \in DOMAIN x.calls
          PROVE  \E e \in DOMAIN t2 :
                    /\ t2[e].name = x.calls[k].name /\ t2[e].sig = x.calls[k].sig
                    /\ t2[e].link = c.calls[k]
      <4> DEFINE call == x.calls[k]
                 e == CHOOSE e \in Entries(t2, call.name) : TRUE
      <4>1. CallOK(t2, call) /\ c.calls[k] = Lookup(t2, call.name).link
        BY <1>1, <1>5, <2>5
      <4> HIDE DEF t2, call
      <4>2. e \in Entries(t2, call.name) /\ Lookup(t2, call.name) = t2[e]
        BY <4>1 DEF CallOK, Lookup
      <4>. QED  BY <4>1, <4>2 DEF CallOK, Entries, call
    <3>2. table'[u] = t2
      BY <1>6, <2>5
    <3>3. OwnLink(u, x)' = OwnLink(u, x)
      BY <1>7
    <3>4. /\ c.name = x.name /\ c.link = OwnLink(u, x) /\ c.defined = x.defined
          /\ c.pub = ("pub" \in x.quals) /\ DOMAIN c.calls = DOMAIN x.calls
      BY <1>4, <1>5, <2>5
    <3> HIDE DEF t2
    <3>. QED  BY <3>1, <3>2, <3>3, <3>4 DEF CodeIsOf
  <2>6. ASSUME NEW u \in UnitSet
        PROVE  DOMAIN functions'[u] = ItemsDone(u)'
    <3>1. CASE u = d
      BY <1>7, <1>9, <2>1, <2>2, <2>4, <3>1
    <3>2. CASE u # d
      BY <1>9, <2>1, <3>2 DEF Known, CodeIsGenerated
    <3>. QED  BY <3>1, <3>2
  <2>7. ASSUME NEW u \in UnitSet, NEW i \in ItemsDone(u)'
        PROVE  CodeIsOf(u, functions[u][i], Items(u)[i])'
    <3>1. PICK c, x : c = functions'[u][i] /\ x = Items(u)[i]
      OBVIOUS
    <3>2. CodeIsOf(u, c, x)'
      <4>1. CASE i \in ItemsDone(u)
        <5>1. functions'[u][i] = functions[u][i]
          BY <1>9, <2>1, <2>2, <2>3, <4>1
        <5>2. CodeIsOf(u, c, x)
          BY <3>1, <4>1, <5>1 DEF Known, CodeIsGenerated
        <5>. QED  BY <1>2, <1>6, <5>2, CodeStays
      <4>2. CASE u = d /\ i = n
        <5>1. c = fn /\ x = Item
          BY <1>3, <2>1, <2>2, <2>4, <3>1, <4>2
        <5>. QED  BY <2>5, <4>2, <5>1
      <4>. QED  BY <1>10, <4>1, <4>2
    <3>3. Items(u)' = Items(u)
      BY <1>7
    <3>. QED  BY <3>1, <3>2, <3>3 DEF CodeIsOf
  <2>. QED  BY <2>6, <2>7 DEF CodeIsGenerated
<1>. QED  BY <1>13, <1>14, <1>15, <1>16 DEF Known

-----------------------------------------------------------------------------
LEMMA InitGivesTracked == Init => Tracked
<1> SUFFICES ASSUME Init PROVE Tracked
  OBVIOUS
<1>1. IInv
  BY InitGivesIInv
<1>2. Shape /\ unit = 1 /\ next = 1 /\ copied = 0 /\ ~failed /\ phase = "analyze"
  BY <1>1 DEF Init, IInv
<1>3. \A u \in UnitSet : table[u] = <<>> /\ functions[u] = <<>>
  BY DEF Init
<1>4. Progress
  BY <1>2, NumbersOfCurrent DEF Progress
<1>5. Outcome
  BY <1>2 DEF Outcome
<1>6. \A u \in UnitSet : Reached(u) = 1
  BY <1>2 DEF Reached, Analysed
<1>7. ASSUME NEW u \in UnitSet PROVE ItemsDone(u) = {}
  BY <1>6, ProgramIsTyped, <1>2 DEF ItemsDone
<1>8. ASSUME NEW u \in UnitSet, NEW k \in DOMAIN Imports(u), NEW m \in Found(Imports(u)[k])
      PROVE  SymbolsDone(u, k, m) = {}
  <2>1. m \in UnitSet
    BY UnitsAreTheirSet DEF Found, FoundIn
  <2>. QED  BY <1>3, <2>1 DEF SymbolsDone
<1>9. Known
  <2>1. EntriesHaveSources
    BY <1>3 DEF EntriesHaveSources
  <2>2. ItemsAreEntered
    BY <1>7 DEF ItemsAreEntered
  <2>3. ImportsAreEntered
    BY <1>8 DEF ImportsAreEntered
  <2>4. CodeIsGenerated
    <3>1. \A u \in UnitSet : DOMAIN functions[u] = {}
      BY <1>3
    <3>. QED  BY <1>7, <3>1 DEF CodeIsGenerated
  <2>. QED  BY <2>1, <2>2, <2>3, <2>4 DEF Known
<1>. QED  BY <1>4, <1>5, <1>9 DEF Tracked

LEMMA NextKeepsProgress ==
    ASSUME Shape, Progress, [Next]_vars
    PROVE  Progress'
<1>1. /\ next \in Nat /\ copied \in Nat
      /\ Len(Imports(Current)) \in Nat /\ Len(Items(Current)) \in Nat
  BY NumbersOfCurrent
<1>2. ASSUME UNCHANGED <<program, unit>> PROVE Current' = Current
                /\ Imports(Current)' = Imports(Current) /\ Items(Current)' = Items(Current)
  BY <1>2 DEF Current, Imports, Items
<1>3. CASE ImportSymbol
  BY <1>1, <1>2, <1>3 DEF ImportSymbol, Importing, Progress
<1>4. CASE ImportEnds
  BY <1>1, <1>2, <1>4 DEF ImportEnds, Importing, Progress
<1>5. CASE FuncDecl
  BY <1>1, <1>2, <1>5 DEF FuncDecl, Progress
<1>6. CASE UnitEnds
  <2>1. CASE UNCHANGED <<unit, next>>
    BY <1>1, <1>2, <1>6, <2>1 DEF UnitEnds, Progress
  <2>2. CASE Current # Root /\ unit' = unit + 1 /\ next' = 1
    <3>1. Current' \in UnitSet
      BY <2>2, UnitsAreTheirSet DEF Shape, Current
    <3>2. program' = program /\ copied' = 0
      BY <1>1, <1>6 DEF UnitEnds, Progress
    <3>3. \A u \in UnitSet : Len(Imports(u)') \in Nat /\ Len(Items(u)') \in Nat
      BY <3>2, NamesStay, ProgramIsTyped
    <3>4. Len(Imports(Current)') \in Nat /\ Len(Items(Current)') \in Nat
      BY <3>1, <3>3
    <3>. QED  BY <2>2, <3>2, <3>4 DEF Progress
  <2>. QED  BY <1>6, <2>1, <2>2 DEF UnitEnds
<1>7. CASE UNCHANGED <<program, unit, next, copied>>
  BY <1>2, <1>7 DEF Progress
<1>. QED  BY <1>3, <1>4, <1>5, <1>6, <1>7 DEF Next, Link, Ended, vars

LEMMA NextKeepsOutcome ==
    ASSUME Shape, Progress, Outcome, [Next]_vars
    PROVE  Outcome'
<1>1. CASE phase = "analyze" /\ phase' = "analyze"
  BY <1>1 DEF Outcome
<1>2. CASE UnitEnds /\ phase' # "analyze"
  <2>1. CASE phase' = "rejected"
    BY <2>1 DEF Outcome
  <2>2. CASE phase' = "generated"
    <3>1. /\ UNCHANGED <<program, unit, next, table, functions>> /\ ~failed' /\ Current = Root
          /\ MainOK /\ next > Len(Imports(Root)) + Len(Items(Root))
      BY <1>2, <2>2 DEF UnitEnds
    <3>2. next = Len(Imports(Root)) + Len(Items(Root)) + 1
      BY <3>1, NumbersOfCurrent DEF Progress
    <3>. QED  BY <2>2, <3>1, <3>2 DEF Outcome, MainOK, Current, Imports, Items
  <2>. QED  BY <1>2, <2>1, <2>2 DEF UnitEnds
<1>3. CASE Link
  <2>1. /\ UNCHANGED <<program, unit, next, table, functions, failed>> /\ phase = "generated"
        /\ phase' = IF Resolves /\ \A u \in UnitSet : Assembles(u) THEN "linked" ELSE "unlinked"
    BY <1>3 DEF Link
  <2>2. ~failed' /\ MainOK' /\ Current' = Root
        /\ next' = Len(Imports(Root)') + Len(Items(Root)') + 1
    BY <2>1 DEF Outcome, MainOK, Current, Imports, Items
  <2>3. /\ Resolves' <=> Resolves
        /\ \A u : Assembles(u)' <=> Assembles(u)
    BY <2>1 DEF Resolves, Assembles, Globals, Externs, Labels, Calls, Defined
  <2>. QED  BY <2>1, <2>2, <2>3 DEF Outcome
<1>4. CASE UNCHANGED vars
  <2>1. MainOK' <=> MainOK
    BY <1>4 DEF vars, MainOK
  <2>2. /\ Resolves' <=> Resolves
        /\ \A u : Assembles(u)' <=> Assembles(u)
    BY <1>4 DEF vars, Resolves, Assembles, Globals, Externs, Labels, Calls, Defined
  <2>. QED  BY <1>4, <2>1, <2>2 DEF vars, Outcome, Current, Imports, Items
<1>. QED  BY <1>1, <1>2, <1>3, <1>4
          DEF Next, ImportSymbol, ImportEnds, Importing, FuncDecl, UnitEnds, Ended

LEMMA NextKeepsTracked == IInv /\ Tracked /\ [Next]_vars => Tracked'
<1> SUFFICES ASSUME IInv, Tracked, [Next]_vars PROVE Tracked'
  OBVIOUS
<1>1. Shape /\ Progress /\ Outcome
  BY DEF IInv, Tracked
<1>2. Progress' /\ Outcome'
  BY <1>1, NextKeepsProgress, NextKeepsOutcome
<1>3. ~failed' => Known'
  <2> SUFFICES ASSUME ~failed' PROVE Known'
    OBVIOUS
  <2>1. Known
    BY DEF Tracked, Next, ImportSymbol, ImportEnds, FuncDecl, UnitEnds, Link, Ended, vars
  <2>2. CASE ImportSymbol
    BY <1>1, <2>1, <2>2, ImportSymbolKeepsKnown
  <2>3. CASE ImportEnds
    BY <1>1, <2>1, <2>3, ImportEndsKeepsKnown
  <2>4. CASE FuncDecl
    BY <1>1, <2>1, <2>4, FuncDeclKeepsKnown
  <2>5. CASE UnitEnds
    BY <1>1, <2>1, <2>5, UnitEndsKeepsKnown
  <2>6. CASE UNCHANGED <<program, unit, next, copied, table, functions>>
    BY <1>1, <2>1, <2>6, KnownStays
       DEF ItemsDone, SymbolsDone, Reached, Analysed, Current, Imports, Items
  <2>. QED  BY <2>2, <2>3, <2>4, <2>5, <2>6 DEF Next, Link, Ended, vars
<1>. QED  BY <1>2, <1>3 DEF Tracked

-----------------------------------------------------------------------------
(***************************************************************************)
(* What is left to show is about a state in which code was generated: the  *)
(* units have been analysed as a whole.                                    *)
(***************************************************************************)

(* A module's name is what its file has after a directory, a path of names. *)
LEMMA ModuleNamesArePaths ==
    ASSUME Shape, PlainNames, NEW m \in ModuleSet
    PROVE  IsPath(ModuleName(m)) /\ Prefix(m) = MangleModulePrefix(ModuleName(m))
<1> DEFINE file == program.file[m]
           first == CHOOSE i \in DOMAIN program.dirs :
                      /\ Below(program.dirs[i], file)
                      /\ \A j \in 1 .. i - 1 : ~Below(program.dirs[j], file)
           dir == program.dirs[first]
           S == {i \in DOMAIN program.dirs : Below(program.dirs[i], file)}
<1>1. /\ program \in Programs /\ ModulesAreInOrder(program)
      /\ DOMAIN program.dirs = 1 .. Len(program.dirs) /\ Len(program.dirs) \in Nat
  BY ProgramIsInOrder, LinkageAssumption DEF Shape
<1>2. /\ file \in Seq(Text) /\ \A k \in DOMAIN file : IsName(file[k])
      /\ \E i \in DOMAIN program.dirs : Below(program.dirs[i], file)
  BY <1>1 DEF ModulesAreInOrder, Text
<1>3. \E i \in DOMAIN program.dirs :
        /\ Below(program.dirs[i], file)
        /\ \A j \in 1 .. i - 1 : ~Below(program.dirs[j], file)
  <2> DEFINE R == OpToRel(<, Nat)
  <2>1. S \subseteq Nat /\ S # {}
    BY <1>1, <1>2
  <2>2. PICK i \in S : \A j \in S : ~(<<j, i>> \in R)
    <3>1. IsWellFoundedOn(R, Nat)
      BY NatLessThanWellFounded
    <3> HIDE DEF R, S
    <3>. QED  BY <2>1, <3>1, WFMin
  <2>3. \A j \in S : ~(j < i)
    BY <2>1, <2>2 DEF OpToRel
  <2>4. \A j \in 1 .. i - 1 : j \in DOMAIN program.dirs /\ j < i
    BY <1>1, <2>1
  <2>. QED  BY <2>3, <2>4
<1>4. first \in DOMAIN program.dirs /\ Below(dir, file)
  BY <1>3
<1>5. ModuleName(m) = SubSeq(file, Len(dir) + 1, Len(file))
  BY DEF ModuleName, NameFromPath, Under
<1> HIDE DEF file, first, dir
<1>6. Len(file) \in Nat /\ DOMAIN file = 1 .. Len(file)
  BY <1>2, LenProperties
<1>7. Len(dir) \in Nat /\ Len(dir) < Len(file)
  BY <1>1, <1>4, LinkageAssumption DEF Below, dir
<1> DEFINE name == SubSeq(file, Len(dir) + 1, Len(file))
           n == Len(file) - Len(dir)
<1>8. n \in Nat /\ Len(dir) + 1 \in 1 .. Len(file) /\ Len(file) - (Len(dir) + 1) + 1 = n
  BY <1>6, <1>7
<1>9. /\ name \in Seq(Text) /\ Len(name) = n
      /\ \A k \in 1 .. n : name[k] = file[Len(dir) + 1 + k - 1]
  <2>1. \A k \in Len(dir) + 1 .. Len(file) : file[k] \in Text
    BY <1>2, <1>6, <1>7, ElementOfSeq
  <2>. QED  BY <1>6, <1>8, <2>1, SubSeqProperties
<1> HIDE DEF name
<1>10. \A k \in 1 .. n : Len(dir) + 1 + k - 1 \in DOMAIN file
  BY <1>6, <1>7
<1>11. \A k \in 1 .. n : IsName(name[k])
  BY <1>2, <1>9, <1>10
<1>12. \A k \in 1 .. Len(name) : IsIdentifier(name[k])
  <2>1. DOMAIN name = 1 .. n /\ name = ModuleName(m)
    BY <1>5, <1>8, <1>9, LenProperties DEF name
  <2>. QED  BY <1>9, <1>11, <2>1 DEF PlainNames, IsIdentifier
<1>13. IsPath(ModuleName(m))
  BY <1>5, <1>9, <1>12 DEF IsPath, name
<1>14. m # Root
  BY UnitsAreTheirSet
<1>. QED  BY <1>13, <1>14 DEF Prefix, ModuleName

LEMMA LinkNames ==
    ASSUME Shape, PlainNames, NEW u \in UnitSet, NEW i \in DOMAIN Items(u)
    PROVE  LET item == Items(u)[i]
           IN  /\ IsIdentifier(item.name) /\ item.name # Start /\ ~LooksMangled(item.name)
               /\ u = Root \/ "extern" \in item.quals => OwnLink(u, item) = item.name
               /\ u # Root /\ "extern" \notin item.quals =>
                    /\ u \in ModuleSet /\ IsPath(ModuleName(u))
                    /\ OwnLink(u, item) = Mangled(ModuleName(u), item.name)
<1> DEFINE item == Items(u)[i]
<1>1. IsIdentifier(item.name) /\ item.name # Start /\ ~LooksMangled(item.name)
  BY ProgramIsTyped DEF PlainNames
<1>2. u = Root \/ "extern" \in item.quals => OwnLink(u, item) = item.name
  BY DEF OwnLink, MangleFunction, Prefix
<1>3. ASSUME u # Root, "extern" \notin item.quals
      PROVE  /\ u \in ModuleSet /\ IsPath(ModuleName(u))
             /\ OwnLink(u, item) = Mangled(ModuleName(u), item.name)
  <2>1. u \in ModuleSet
    BY <1>3, UnitsAreTheirSet
  <2>2. IsPath(ModuleName(u)) /\ Prefix(u) = MangleModulePrefix(ModuleName(u))
    BY <2>1, ModuleNamesArePaths
  <2>. QED  BY <1>3, <2>1, <2>2 DEF OwnLink, Mangled, MangleFunction
<1>. QED  BY <1>1, <1>2, <1>3

(* Every unit has been analysed as a whole. *)
Whole ==
    /\ Shape /\ OneEntryEach /\ OneBodyEach /\ Known
    /\ \A u \in UnitSet :
        /\ ItemsDone(u) = DOMAIN Items(u)
        /\ \A k \in DOMAIN Imports(u) : \A m \in Found(Imports(u)[k]) :
            SymbolsDone(u, k, m) = DOMAIN table[m]

LEMMA GeneratedIsWhole ==
    ASSUME IInv, Tracked, phase \in {"generated", "linked", "unlinked"}
    PROVE  Whole /\ MainOK
<1>1. /\ Shape /\ OneEntryEach /\ OneBodyEach /\ Known /\ MainOK
      /\ Current = Root /\ next = Len(Imports(Root)) + Len(Items(Root)) + 1
  BY DEF IInv, Tracked, Outcome
<1>2. unit = Len(Units) /\ unit \in Nat
  BY <1>1, CurrentIsAUnit, UnitsAreTheirSet DEF Current
<1>3. ASSUME NEW u \in UnitSet PROVE u \in Analysed \/ u = Root
  <2>1. PICK i \in DOMAIN Units : u = Units[i]
    BY DEF UnitSet
  <2>2. i \in 1 .. unit - 1 \/ i = unit
    BY <1>2, <2>1, UnitsAreTheirSet
  <2>. QED  BY <1>1, <2>1, <2>2 DEF Analysed, Current
<1>4. ASSUME NEW u \in UnitSet
      PROVE  /\ Reached(u) = Len(Imports(u)) + Len(Items(u)) + 1
             /\ Len(Imports(u)) \in Nat /\ DOMAIN Imports(u) = 1 .. Len(Imports(u))
             /\ Len(Items(u)) \in Nat /\ DOMAIN Items(u) = 1 .. Len(Items(u))
  BY <1>1, <1>3, ProgramIsTyped DEF Reached
<1>5. ASSUME NEW u \in UnitSet PROVE ItemsDone(u) = DOMAIN Items(u)
  <2>1. \A i \in DOMAIN Items(u) : Len(Imports(u)) + i < Reached(u)
    BY <1>4
  <2>. QED  BY <2>1 DEF ItemsDone
<1>6. ASSUME NEW u \in UnitSet, NEW k \in DOMAIN Imports(u), NEW m \in Found(Imports(u)[k])
      PROVE  SymbolsDone(u, k, m) = DOMAIN table[m]
  <2>1. k < Reached(u)
    BY <1>4
  <2>. QED  BY <2>1 DEF SymbolsDone
<1>. QED  BY <1>1, <1>5, <1>6 DEF Whole

OwnEntry(u, s, i) ==
    ~s.imported /\ SameSymbol(s, Items(u)[i]) /\ s.link = OwnLink(u, Items(u)[i])

ImportedEntry(u, s, m) ==
    /\ s.imported /\ \E k \in DOMAIN Imports(u) : m \in Found(Imports(u)[k])
    /\ \E e \in DOMAIN table[m] : Exported(table[m][e]) /\ SameSymbol(s, table[m][e])
    /\ s.link = Mangled(ModuleName(m), s.name)

LEMMA TablesAreWhole ==
    ASSUME Whole, NamedApart, PlainNames, NEW u \in UnitSet
    PROVE  /\ \A e \in DOMAIN table[u] :
                \/ \E i \in DOMAIN Items(u) : OwnEntry(u, table[u][e], i)
                \/ \E m \in ModuleSet : m # u /\ ImportedEntry(u, table[u][e], m)
           /\ \A i \in DOMAIN Items(u) : Entered(u, Items(u)[i])
           /\ \A k \in DOMAIN Imports(u) : \A m \in Found(Imports(u)[k]) :
                \A e \in DOMAIN table[m] : Exported(table[m][e]) =>
                    \E e2 \in DOMAIN table[u] :
                        /\ table[u][e2].imported /\ SameSymbol(table[u][e2], table[m][e])
                        /\ table[u][e2].link = Mangled(ModuleName(m), table[m][e].name)
           /\ DOMAIN functions[u] = DOMAIN Items(u)
           /\ \A i \in DOMAIN Items(u) : CodeIsOf(u, functions[u][i], Items(u)[i])
<1>1. /\ ItemsDone(u) = DOMAIN Items(u)
      /\ \A k \in DOMAIN Imports(u) : \A m \in Found(Imports(u)[k]) :
            SymbolsDone(u, k, m) = DOMAIN table[m]
  BY DEF Whole
<1>2. ASSUME NEW k \in DOMAIN Imports(u), NEW m \in Found(Imports(u)[k])
      PROVE  /\ m \in ModuleSet /\ m # u
             /\ \A name : ImportedLink(u, m, name) = Mangled(ModuleName(m), name)
  <2>1. PICK i \in DOMAIN Units : u = Units[i]
    BY DEF UnitSet
  <2>2. m \in ModuleSet /\ \E j \in 1 .. i - 1 : j \in DOMAIN Units /\ m = Units[j]
    BY <2>1, ImportsAreEarlier DEF Whole
  <2>3. m # u
    BY <2>1, <2>2, UnitsAreTheirSet
  <2>4. NameIn(u, m) = ModuleName(m)
    BY DEF NamedApart
  <2>. QED  BY <2>2, <2>3, <2>4 DEF ImportedLink, Mangled
<1>3. ASSUME NEW e \in DOMAIN table[u]
      PROVE  \/ \E i \in DOMAIN Items(u) : OwnEntry(u, table[u][e], i)
             \/ \E m \in ModuleSet : m # u /\ ImportedEntry(u, table[u][e], m)
  <2> DEFINE s == table[u][e]
  <2>1. FromItem(u, s) \/ FromImport(u, s)
    BY DEF Whole, Known, EntriesHaveSources
  <2> HIDE DEF s
  <2>2. CASE FromItem(u, s)
    BY <1>1, <2>2 DEF FromItem, OwnEntry, s
  <2>3. CASE FromImport(u, s)
    <3>1. PICK k \in DOMAIN Imports(u) : \E m \in Found(Imports(u)[k]) :
            /\ \E n \in SymbolsDone(u, k, m) : Exported(table[m][n]) /\ SameSymbol(s, table[m][n])
            /\ s.link = ImportedLink(u, m, s.name)
      BY <2>3 DEF FromImport
    <3>2. PICK m \in Found(Imports(u)[k]) :
            /\ \E n \in SymbolsDone(u, k, m) : Exported(table[m][n]) /\ SameSymbol(s, table[m][n])
            /\ s.link = ImportedLink(u, m, s.name)
      BY <3>1
    <3>3. ImportedEntry(u, s, m)
      BY <1>1, <1>2, <2>3, <3>2 DEF ImportedEntry, FromImport
    <3>. QED  BY <1>2, <3>3 DEF s
  <2>. QED  BY <2>1, <2>2, <2>3
<1>4. \A i \in DOMAIN Items(u) : Entered(u, Items(u)[i])
  BY <1>1 DEF Whole, Known, ItemsAreEntered
<1>5. ASSUME NEW k \in DOMAIN Imports(u), NEW m \in Found(Imports(u)[k]),
             NEW e \in DOMAIN table[m], Exported(table[m][e])
      PROVE  \E e2 \in DOMAIN table[u] :
                /\ table[u][e2].imported /\ SameSymbol(table[u][e2], table[m][e])
                /\ table[u][e2].link = Mangled(ModuleName(m), table[m][e].name)
  <2>1. ImportedAs(u, m, table[m][e])
    BY <1>1, <1>5 DEF Whole, Known, ImportsAreEntered
  <2>. QED  BY <1>2, <2>1 DEF ImportedAs
<1>6. /\ DOMAIN functions[u] = DOMAIN Items(u)
      /\ \A i \in DOMAIN Items(u) : CodeIsOf(u, functions[u][i], Items(u)[i])
  BY <1>1 DEF Whole, Known, CodeIsGenerated
<1>. QED  BY <1>3, <1>4, <1>5, <1>6

-----------------------------------------------------------------------------
(* The function that an imported symbol comes from. *)
LEMMA ImportsHaveOrigins ==
    ASSUME Whole, NamedApart, PlainNames, NEW u \in UnitSet,
           NEW s, NEW m \in ModuleSet, ImportedEntry(u, s, m)
    PROVE  /\ m \in Exporters(u, s.name)
           /\ \E e \in DOMAIN table[m] : \E i \in DOMAIN Items(m) :
                /\ OwnEntry(m, table[m][e], i) /\ SameSymbol(s, table[m][e])
                /\ Items(m)[i].name = s.name
                /\ "pub" \in Items(m)[i].quals /\ "extern" \notin Items(m)[i].quals
<1>1. PICK e \in DOMAIN table[m] : Exported(table[m][e]) /\ SameSymbol(s, table[m][e])
  BY DEF ImportedEntry
<1>2. m \in UnitSet
  BY UnitsAreTheirSet
<1>3. PICK i \in DOMAIN Items(m) : OwnEntry(m, table[m][e], i)
  <2>1. ~table[m][e].imported
    BY <1>1 DEF Exported
  <2>. QED  BY <1>2, <2>1, TablesAreWhole DEF ImportedEntry
<1>4. "pub" \in Items(m)[i].quals /\ Items(m)[i].name = s.name
  BY <1>1, <1>3 DEF OwnEntry, SameSymbol, Exported
<1>5. "extern" \notin Items(m)[i].quals
  <2>1. Entered(m, Items(m)[i])
    BY <1>2, TablesAreWhole
  <2>. QED  BY <1>4, <2>1 DEF Entered, BadQualifiers
<1>6. m \in Exporters(u, s.name)
  BY <1>4 DEF Exporters, Declares, ImportedEntry
<1>. QED  BY <1>1, <1>3, <1>4, <1>5, <1>6

(* A public function of a module is exported, unless it only declares what *)
(* the module imports.                                                     *)
LEMMA PublicIsExported ==
    ASSUME Whole, NamedApart, PlainNames, SameQualifiers,
           NEW m \in ModuleSet, NEW name, Declares(m, name, "pub"),
           HasBody(m, name) \/ Exporters(m, name) = {}
    PROVE  \E e \in DOMAIN table[m] : Exported(table[m][e]) /\ table[m][e].name = name
<1>1. m \in UnitSet
  BY UnitsAreTheirSet
<1>2. PICK i \in DOMAIN Items(m) : Items(m)[i].name = name /\ "pub" \in Items(m)[i].quals
  BY DEF Declares
<1>3. \E e \in DOMAIN table[m] : table[m][e].name = name /\ ~table[m][e].imported
  <2>1. CASE HasBody(m, name)
    <3>1. PICK j \in DOMAIN Items(m) : Items(m)[j].name = name /\ Items(m)[j].defined
      BY <2>1 DEF HasBody
    <3>2. Entered(m, Items(m)[j])
      BY <1>1, TablesAreWhole
    <3>. QED  BY <3>1, <3>2 DEF Entered
  <2>2. CASE Exporters(m, name) = {}
    <3>1. Entered(m, Items(m)[i])
      BY <1>1, TablesAreWhole
    <3>2. PICK e \in DOMAIN table[m] : table[m][e].name = name
      BY <1>2, <3>1 DEF Entered
    <3>3. ~\E m2 \in ModuleSet : ImportedEntry(m, table[m][e], m2)
      BY <1>1, <2>2, <3>2, ImportsHaveOrigins
    <3>4. ~table[m][e].imported
      BY <1>1, <3>3, TablesAreWhole DEF OwnEntry
    <3>. QED  BY <3>2, <3>4
  <2>. QED  BY <2>1, <2>2
<1>4. PICK e \in DOMAIN table[m] : table[m][e].name = name /\ ~table[m][e].imported
  BY <1>3
<1>5. PICK j \in DOMAIN Items(m) : OwnEntry(m, table[m][e], j)
  BY <1>1, <1>4, TablesAreWhole DEF ImportedEntry
<1>6. Items(m)[j].quals = Items(m)[i].quals /\ Items(m)[j].quals = table[m][e].quals
  BY <1>1, <1>2, <1>4, <1>5 DEF OwnEntry, SameSymbol, SameQualifiers
<1>. QED  BY <1>2, <1>4, <1>6 DEF Exported

LEMMA ExportersAreEntered ==
    ASSUME Whole, NamedApart, PlainNames, SameQualifiers, NEW u \in UnitSet,
           NEW name, NEW m \in Exporters(u, name), HasBody(m, name) \/ Exporters(m, name) = {}
    PROVE  \E e \in DOMAIN table[u] :
                /\ table[u][e].name = name /\ table[u][e].imported
                /\ table[u][e].link = Mangled(ModuleName(m), name)
<1>1. /\ m \in ModuleSet /\ Declares(m, name, "pub")
      /\ \E k \in DOMAIN Imports(u) : m \in Found(Imports(u)[k])
  BY DEF Exporters
<1>2. PICK e \in DOMAIN table[m] : Exported(table[m][e]) /\ table[m][e].name = name
  BY <1>1, PublicIsExported
<1>. QED  BY <1>1, <1>2, TablesAreWhole DEF SameSymbol

LEMMA NamesOfATableDiffer ==
    ASSUME Whole, NEW u \in UnitSet, NEW e \in DOMAIN table[u], NEW e2 \in DOMAIN table[u],
           table[u][e].name = table[u][e2].name
    PROVE  e = e2
BY DEF Whole, OneEntryEach

(* The function of an item. *)
LEMMA FunctionsAreItems ==
    ASSUME Whole, NamedApart, PlainNames, NEW u \in UnitSet, NEW i \in DOMAIN functions[u]
    PROVE  LET fn   == functions[u][i]
               item == Items(u)[i]
           IN  /\ i \in DOMAIN Items(u) /\ Entered(u, item)
               /\ fn.name = item.name /\ fn.link = OwnLink(u, item)
               /\ fn.defined = item.defined /\ fn.pub = ("pub" \in item.quals)
               /\ fn.defined => /\ "extern" \notin item.quals
                                /\ u = Root => fn.link = item.name
                                /\ u # Root => /\ IsPath(ModuleName(u))
                                               /\ fn.link = Mangled(ModuleName(u), item.name)
<1>1. i \in DOMAIN Items(u) /\ CodeIsOf(u, functions[u][i], Items(u)[i]) /\ Entered(u, Items(u)[i])
  BY TablesAreWhole
<1>2. "extern" \in Items(u)[i].quals => ~Items(u)[i].defined
  BY <1>1 DEF Entered
<1>. QED  BY <1>1, <1>2, LinkNames DEF CodeIsOf, Whole

(* No label of a program is taken twice. *)
LEMMA LinksDiffer ==
    ASSUME Whole, NamedApart, PlainNames, NEW u \in UnitSet, NEW v \in UnitSet,
           NEW i \in Defined(u), NEW j \in Defined(v), functions[u][i].link = functions[v][j].link
    PROVE  u = v /\ Items(u)[i].name = Items(v)[j].name /\ i = j
<1> DEFINE f == Items(u)[i].name
           g == Items(v)[j].name
<1>1. /\ i \in DOMAIN functions[u] /\ functions[u][i].defined
      /\ j \in DOMAIN functions[v] /\ functions[v][j].defined
  BY DEF Defined
<1>2. /\ i \in DOMAIN Items(u) /\ functions[u][i].name = f
      /\ j \in DOMAIN Items(v) /\ functions[v][j].name = g
      /\ u = Root => functions[u][i].link = f
      /\ v = Root => functions[v][j].link = g
      /\ u # Root => IsPath(ModuleName(u)) /\ functions[u][i].link = Mangled(ModuleName(u), f)
      /\ v # Root => IsPath(ModuleName(v)) /\ functions[v][j].link = Mangled(ModuleName(v), g)
  BY <1>1, FunctionsAreItems
<1>3. /\ IsIdentifier(f) /\ ~LooksMangled(f)
      /\ IsIdentifier(g) /\ ~LooksMangled(g)
  BY <1>2, LinkNames DEF Whole
<1> HIDE DEF f, g
<1>4. u = v /\ f = g
  <2>1. CASE u = Root /\ v = Root
    BY <1>2, <2>1
  <2>2. CASE u = Root /\ v # Root
    BY <1>2, <1>3, <2>2, MangledNamesLookIt
  <2>3. CASE u # Root /\ v = Root
    BY <1>2, <1>3, <2>3, MangledNamesLookIt
  <2>4. CASE u # Root /\ v # Root
    <3>1. ModuleName(u) = ModuleName(v) /\ f = g
      BY <1>2, <1>3, <2>4, MangledNamesDiffer
    <3>. QED  BY <2>4, <3>1, UnitsAreTheirSet DEF NamedApart
  <2>. QED  BY <2>1, <2>2, <2>3, <2>4
<1>5. i = j
  BY <1>2, <1>4 DEF Whole, OneBodyEach
<1>. QED  BY <1>4, <1>5 DEF f, g

LEMMA StartIsNoFunction ==
    ASSUME Whole, NamedApart, PlainNames, NEW u \in UnitSet, NEW i \in Defined(u)
    PROVE  functions[u][i].link # Start
<1>1. i \in DOMAIN functions[u] /\ functions[u][i].defined
  BY DEF Defined
<1>. QED  BY <1>1, FunctionsAreItems, LinkNames, MangledNamesLookIt DEF Whole

(* The body of a public function is a global symbol. *)
LEMMA PublicIsGlobal ==
    ASSUME Whole, NamedApart, PlainNames, SameQualifiers,
           NEW u \in UnitSet, NEW name, HasBody(u, name), Declares(u, name, "pub")
    PROVE  \E j \in DOMAIN functions[u] :
                /\ IsGlobal(functions[u][j]) /\ functions[u][j].name = name
                /\ u = Root => functions[u][j].link = name
                /\ u # Root => functions[u][j].link = Mangled(ModuleName(u), name)
<1>1. PICK i \in DOMAIN Items(u) : Items(u)[i].name = name /\ "pub" \in Items(u)[i].quals
  BY DEF Declares
<1>2. PICK j \in DOMAIN Items(u) : Items(u)[j].name = name /\ Items(u)[j].defined
  BY DEF HasBody
<1>3. "pub" \in Items(u)[j].quals
  BY <1>1, <1>2 DEF SameQualifiers
<1>4. j \in DOMAIN functions[u]
  BY TablesAreWhole
<1>. QED  BY <1>2, <1>3, <1>4, FunctionsAreItems DEF IsGlobal

-----------------------------------------------------------------------------
(* A call names an entry of its unit's table. *)
LEMMA CallsAreEntries ==
    ASSUME Whole, NamedApart, PlainNames, NEW u \in UnitSet, NEW i \in Defined(u),
           NEW k \in DOMAIN functions[u][i].calls
    PROVE  /\ i \in DOMAIN Items(u) /\ k \in DOMAIN Items(u)[i].calls
           /\ \E e \in DOMAIN table[u] :
                /\ table[u][e].name = Items(u)[i].calls[k].name
                /\ table[u][e].sig = Items(u)[i].calls[k].sig
                /\ table[u][e].link = functions[u][i].calls[k]
<1>1. i \in DOMAIN Items(u) /\ CodeIsOf(u, functions[u][i], Items(u)[i])
  BY TablesAreWhole DEF Defined
<1>. QED  BY <1>1 DEF CodeIsOf

LEMMA StartIsNotCalled ==
    ASSUME Whole, NamedApart, PlainNames, NEW u \in UnitSet, NEW e \in DOMAIN table[u]
    PROVE  table[u][e].link # Start
<1>1. CASE \E i \in DOMAIN Items(u) : OwnEntry(u, table[u][e], i)
  BY <1>1, LinkNames, MangledNamesLookIt DEF OwnEntry, Whole
<1>2. CASE \E m \in ModuleSet : m # u /\ ImportedEntry(u, table[u][e], m)
  <2>1. PICK m \in ModuleSet : ImportedEntry(u, table[u][e], m)
    BY <1>2
  <2>2. PICK i \in DOMAIN Items(m) : Items(m)[i].name = table[u][e].name
    BY <2>1, ImportsHaveOrigins
  <2>3. IsPath(ModuleName(m)) /\ IsIdentifier(table[u][e].name)
    BY <2>2, ModuleNamesArePaths, LinkNames, UnitsAreTheirSet DEF Whole
  <2>. QED  BY <2>1, <2>3, MangledNamesLookIt DEF ImportedEntry
<1>. QED  BY <1>1, <1>2, TablesAreWhole

(* The entry point calls main, which is the root's own. *)
LEMMA MainIsDefined ==
    ASSUME Whole, NamedApart, PlainNames, SameQualifiers, Complete, MainOK
    PROVE  MainName \in Labels(Root)
<1>1. Root \in UnitSet
  BY UnitsAreTheirSet
<1>2. PICK e \in DOMAIN table[Root] : table[Root][e].name = MainName /\ table[Root][e].quals = {}
  <2> DEFINE e == CHOOSE e \in Entries(table[Root], MainName) : TRUE
  <2>1. e \in Entries(table[Root], MainName) /\ table[Root][e].quals = {}
    BY DEF MainOK, Lookup
  <2>. QED  BY <2>1 DEF Entries
<1>3. ~table[Root][e].imported
  <2> SUFFICES ASSUME table[Root][e].imported PROVE FALSE
    OBVIOUS
  <2>1. PICK m \in ModuleSet : ImportedEntry(Root, table[Root][e], m)
    BY <1>1, TablesAreWhole DEF OwnEntry
  <2>. QED  BY <1>2, <2>1 DEF ImportedEntry, SameSymbol, Exported
<1>4. PICK i \in DOMAIN Items(Root) : OwnEntry(Root, table[Root][e], i)
  BY <1>1, <1>3, TablesAreWhole DEF ImportedEntry
<1>5. Items(Root)[i].name = MainName /\ "extern" \notin Items(Root)[i].quals
  BY <1>2, <1>4 DEF OwnEntry, SameSymbol
<1>6. HasBody(Root, MainName)
  <2>1. \A m \in Exporters(Root, MainName) : ~HasBody(m, MainName)
    BY <1>1, <1>2, <1>3, ExportersAreEntered, NamesOfATableDiffer
  <2>. QED  BY <1>1, <1>5, <2>1 DEF Complete
<1>7. PICK j \in DOMAIN Items(Root) : Items(Root)[j].name = MainName /\ Items(Root)[j].defined
  BY <1>6 DEF HasBody
<1>8. j \in DOMAIN functions[Root]
  BY <1>1, TablesAreWhole
<1>9. j \in Defined(Root) /\ functions[Root][j].link = MainName
  BY <1>1, <1>7, <1>8, FunctionsAreItems DEF Defined
<1>. QED  BY <1>9 DEF Labels

LEMMA UnitsAssemble ==
    ASSUME Whole, NamedApart, PlainNames, SameQualifiers, Complete, MainOK, NEW u \in UnitSet
    PROVE  Assembles(u)
<1>1. \A i, j \in Defined(u) : i # j => functions[u][i].link # functions[u][j].link
  BY LinksDiffer
<1>2. Start \notin {functions[u][i].link : i \in Defined(u)}
  BY StartIsNoFunction
<1>3. Start \notin Calls(u)
  <2> SUFFICES ASSUME NEW i \in Defined(u), NEW k \in DOMAIN functions[u][i].calls
               PROVE  functions[u][i].calls[k] # Start
    BY DEF Calls
  <2>. QED  BY CallsAreEntries, StartIsNotCalled
<1>4. Labels(u) \cap Externs(u) = {}
  BY <1>3 DEF Labels, Externs
<1>5. IsRoot(u) => MainName \in Labels(u) \cup Externs(u)
  BY MainIsDefined DEF IsRoot
<1>. QED  BY <1>1, <1>2, <1>4, <1>5 DEF Assembles

LEMMA GlobalsDiffer ==
    ASSUME Whole, NamedApart, PlainNames,
           NEW u \in UnitSet, NEW v \in UnitSet, NEW x \in Globals(u) \cap Globals(v)
    PROVE  u = v
<1>1. \A w \in UnitSet : x \in Globals(w) =>
        \/ \E i \in Defined(w) : functions[w][i].link = x
        \/ w = Root /\ x = Start
  BY DEF Globals, Defined, IsGlobal, IsRoot
<1>2. CASE x = Start
  BY <1>1, <1>2, StartIsNoFunction
<1>3. CASE x # Start
  <2>1. PICK i \in Defined(u) : functions[u][i].link = x
    BY <1>1, <1>3
  <2>2. PICK j \in Defined(v) : functions[v][j].link = x
    BY <1>1, <1>3
  <2>. QED  BY <2>1, <2>2, LinksDiffer
<1>. QED  BY <1>2, <1>3

LEMMA ExternsAreFound ==
    ASSUME Whole, NamedApart, PlainNames, SameQualifiers, Complete,
           NEW u \in UnitSet, NEW x \in Externs(u)
    PROVE  x \in Library \/ \E v \in UnitSet : x \in Globals(v)
<1>1. PICK i \in Defined(u) : \E k \in DOMAIN functions[u][i].calls : x = functions[u][i].calls[k]
  BY DEF Externs, Calls
<1>2. PICK e \in DOMAIN table[u] : table[u][e].link = x
  BY <1>1, CallsAreEntries
<1> DEFINE name == table[u][e].name
<1>3. CASE \E m \in ModuleSet : m # u /\ ImportedEntry(u, table[u][e], m)
  <2>1. PICK m \in ModuleSet : ImportedEntry(u, table[u][e], m)
    BY <1>3
  <2>2. m \in UnitSet /\ m # Root /\ x = Mangled(ModuleName(m), name)
    BY <1>2, <2>1, UnitsAreTheirSet DEF ImportedEntry
  <2>3. PICK e2 \in DOMAIN table[m], n \in DOMAIN Items(m) :
            /\ OwnEntry(m, table[m][e2], n) /\ SameSymbol(table[u][e], table[m][e2])
            /\ Items(m)[n].name = name
            /\ "pub" \in Items(m)[n].quals /\ "extern" \notin Items(m)[n].quals
    BY <2>1, ImportsHaveOrigins
  <2>4. table[m][e2].name = name /\ ~table[m][e2].imported
    BY <2>3 DEF OwnEntry, SameSymbol
  <2> HIDE DEF name
  <2>5. \A m2 \in Exporters(m, name) : ~HasBody(m2, name)
    BY <2>2, <2>4, ExportersAreEntered, NamesOfATableDiffer
  <2>6. HasBody(m, name) /\ Declares(m, name, "pub")
    BY <2>2, <2>3, <2>5 DEF Complete, Declares
  <2>7. PICK j \in DOMAIN functions[m] :
            IsGlobal(functions[m][j]) /\ functions[m][j].link = Mangled(ModuleName(m), name)
    BY <2>2, <2>6, PublicIsGlobal
  <2>. QED  BY <2>2, <2>7 DEF Globals
<1>4. CASE \E n \in DOMAIN Items(u) : OwnEntry(u, table[u][e], n)
  <2>1. PICK n \in DOMAIN Items(u) : OwnEntry(u, table[u][e], n)
    BY <1>4
  <2>2. /\ x = OwnLink(u, Items(u)[n]) /\ Items(u)[n].name = name /\ ~table[u][e].imported
    BY <1>2, <2>1 DEF OwnEntry, SameSymbol
  <2> HIDE DEF name
  <2>3. CASE "extern" \in Items(u)[n].quals
    <3>1. x = name
      BY <2>2, <2>3, LinkNames DEF Whole
    <3>2. name \in Library \/ (HasBody(Root, name) /\ Declares(Root, name, "pub"))
      BY <2>2, <2>3 DEF Complete
    <3>3. Root \in UnitSet
      BY UnitsAreTheirSet
    <3>4. ASSUME HasBody(Root, name), Declares(Root, name, "pub") PROVE name \in Globals(Root)
      <4>1. PICK j \in DOMAIN functions[Root] :
                IsGlobal(functions[Root][j]) /\ functions[Root][j].link = name
        BY <3>3, <3>4, PublicIsGlobal
      <4>. QED  BY <4>1 DEF Globals
    <3>. QED  BY <3>1, <3>2, <3>3, <3>4
  <2>4. CASE "extern" \notin Items(u)[n].quals
    <3>1. \A m \in Exporters(u, name) : ~HasBody(m, name)
      BY <2>2, ExportersAreEntered, NamesOfATableDiffer DEF name
    <3>2. PICK j \in DOMAIN Items(u) : Items(u)[j].name = name /\ Items(u)[j].defined
      BY <2>2, <2>4, <3>1 DEF Complete, HasBody
    <3>3. j \in DOMAIN functions[u]
      BY TablesAreWhole
    <3>4. j \in Defined(u) /\ functions[u][j].link = OwnLink(u, Items(u)[j])
      BY <3>2, <3>3, FunctionsAreItems DEF Defined
    <3>5. "extern" \notin Items(u)[j].quals
      BY <3>2, <3>3, FunctionsAreItems
    <3>6. OwnLink(u, Items(u)[j]) = x
      BY <2>2, <2>4, <3>2, <3>5, LinkNames DEF Whole
    <3>. QED  BY <3>4, <3>6 DEF Externs
  <2>. QED  BY <2>3, <2>4
<1>. QED  BY <1>3, <1>4, TablesAreWhole

(***************************************************************************)
(* For every program: what the compiler accepts is assembled and linked    *)
(* (mangle.c, collect_externs, emit_func_linkage).                         *)
(***************************************************************************)
THEOREM AcceptedLink == Spec => []AcceptedProgramsLink
<1>1. Init => IInv /\ Tracked
  BY InitGivesIInv, InitGivesTracked
<1>2. (IInv /\ Tracked) /\ [Next]_vars => (IInv /\ Tracked)'
  BY NextKeepsIInv, NextKeepsTracked
<1>3. IInv /\ Tracked => AcceptedProgramsLink
  <2> SUFFICES ASSUME IInv, Tracked, phase = "unlinked",
                      SameQualifiers, Complete, NamedApart, PlainNames
               PROVE  FALSE
    BY DEF AcceptedProgramsLink
  <2>1. Whole /\ MainOK
    BY GeneratedIsWhole
  <2>2. \A u \in UnitSet : Assembles(u)
    BY <2>1, UnitsAssemble
  <2>3. \A u, v \in UnitSet : u # v => Globals(u) \cap Globals(v) = {}
    BY <2>1, GlobalsDiffer
  <2>4. \A u \in UnitSet : Externs(u) \subseteq Library \cup UNION {Globals(v) : v \in UnitSet}
    BY <2>1, ExternsAreFound
  <2>. QED  BY <2>2, <2>3, <2>4 DEF Tracked, Outcome, Resolves
<1>. QED  BY <1>1, <1>2, <1>3, PTL DEF Spec

-----------------------------------------------------------------------------
(* Where a call ends, in terms of the functions of the units. *)
LEMMA DestinationsAreFunctions ==
    ASSUME NEW u \in UnitSet, NEW x, x # Start
    PROVE  /\ x \in Labels(u) =>
                /\ \A d \in Destinations(u, x) : /\ d[1] = u /\ d[2] \in Defined(u)
                                                 /\ functions[u][d[2]].link = x
                /\ Destinations(u, x) # {}
           /\ x \notin Labels(u) =>
                /\ \A d \in Destinations(u, x) :
                    /\ d[1] \in UnitSet /\ d[2] \in Defined(d[1]) /\ d[1] # u
                    /\ IsGlobal(functions[d[1]][d[2]]) /\ functions[d[1]][d[2]].link = x
                /\ \A v \in UnitSet : \A j \in DOMAIN functions[v] :
                    IsGlobal(functions[v][j]) /\ functions[v][j].link = x =>
                        <<v, j>> \in Destinations(u, x)
<1>1. CASE x \in Labels(u)
  <2>1. Destinations(u, x) = {<<u, i>> : i \in {j \in Defined(u) : functions[u][j].link = x}}
    BY <1>1 DEF Destinations
  <2>2. PICK i \in Defined(u) : functions[u][i].link = x
    BY <1>1 DEF Labels
  <2>3. <<u, i>> \in Destinations(u, x)
    BY <2>1, <2>2
  <2>4. \A d \in Destinations(u, x) : /\ d[1] = u /\ d[2] \in Defined(u)
                                      /\ functions[u][d[2]].link = x
    BY <2>1
  <2>. QED  BY <1>1, <2>3, <2>4
<1>2. CASE x \notin Labels(u)
  <2>1. Destinations(u, x) =
            UNION {{<<v, i>> : i \in {j \in DOMAIN functions[v] :
                    IsGlobal(functions[v][j]) /\ functions[v][j].link = x}} : v \in UnitSet}
    BY <1>2 DEF Destinations
  <2>2. \A i \in Defined(u) : functions[u][i].link # x
    BY <1>2 DEF Labels
  <2>3. ASSUME NEW d \in Destinations(u, x)
        PROVE  /\ d[1] \in UnitSet /\ d[2] \in Defined(d[1]) /\ d[1] # u
               /\ IsGlobal(functions[d[1]][d[2]]) /\ functions[d[1]][d[2]].link = x
    <3>1. PICK v \in UnitSet : d \in {<<v, i>> : i \in {j \in DOMAIN functions[v] :
                    IsGlobal(functions[v][j]) /\ functions[v][j].link = x}}
      BY <2>1
    <3>2. PICK j \in DOMAIN functions[v] :
            d = <<v, j>> /\ IsGlobal(functions[v][j]) /\ functions[v][j].link = x
      BY <3>1
    <3>3. j \in Defined(v)
      BY <3>2 DEF Defined, IsGlobal
    <3>. QED  BY <2>2, <3>2, <3>3
  <2>. QED  BY <1>2, <2>1, <2>3
<1>. QED  BY <1>1, <1>2

LEMMA SignaturesAgree ==
    ASSUME Whole, NamedApart, PlainNames, NEW v \in UnitSet, NEW j \in DOMAIN Items(v),
           NEW e \in DOMAIN table[v], table[v][e].name = Items(v)[j].name
    PROVE  table[v][e].sig = Items(v)[j].sig
<1>1. PICK e2 \in DOMAIN table[v] :
        table[v][e2].name = Items(v)[j].name /\ table[v][e2].sig = Items(v)[j].sig
  BY TablesAreWhole DEF Entered
<1>. QED  BY <1>1, NamesOfATableDiffer

(* A function that a link name belongs to. *)
LEMMA LinkedFunction ==
    ASSUME Whole, NamedApart, PlainNames, NEW v \in UnitSet, NEW j \in Defined(v)
    PROVE  LET item == Items(v)[j]
               link == functions[v][j].link
           IN  /\ j \in DOMAIN Items(v) /\ j \in DOMAIN functions[v]
               /\ IsIdentifier(item.name) /\ ~LooksMangled(item.name)
               /\ item.defined /\ "extern" \notin item.quals
               /\ link = OwnLink(v, item) /\ link # Start
               /\ IsGlobal(functions[v][j]) => "pub" \in item.quals
               /\ v = Root => link = item.name
               /\ v # Root => /\ v \in ModuleSet /\ IsPath(ModuleName(v))
                              /\ link = Mangled(ModuleName(v), item.name)
                              /\ LooksMangled(link)
<1>1. j \in DOMAIN functions[v] /\ functions[v][j].defined
  BY DEF Defined
<1>2. j \in DOMAIN Items(v) /\ functions[v][j].link # Start
  BY <1>1, FunctionsAreItems, StartIsNoFunction
<1>3. IsIdentifier(Items(v)[j].name) /\ ~LooksMangled(Items(v)[j].name)
  BY <1>2, LinkNames DEF Whole
<1>4. LET fn   == functions[v][j]
          item == Items(v)[j]
      IN  /\ item.defined /\ fn.link = OwnLink(v, item) /\ fn.pub = ("pub" \in item.quals)
          /\ "extern" \notin item.quals
          /\ v = Root => fn.link = item.name
          /\ v # Root => /\ IsPath(ModuleName(v))
                         /\ fn.link = Mangled(ModuleName(v), item.name)
  BY <1>1, FunctionsAreItems
<1>5. v # Root => v \in ModuleSet /\ LooksMangled(functions[v][j].link)
  BY <1>3, <1>4, MangledNamesLookIt, UnitsAreTheirSet
<1>6. IsGlobal(functions[v][j]) => "pub" \in Items(v)[j].quals
  BY <1>4 DEF IsGlobal
<1>. QED  BY <1>1, <1>2, <1>3, <1>4, <1>5, <1>6

(* A called name that is no label is a library's or a global symbol. *)
LEMMA CalledIsFound ==
    ASSUME Resolves, NEW u \in UnitSet, NEW x \in Calls(u), x \notin Labels(u), x # Start,
           x \notin Library
    PROVE  \E v \in UnitSet : \E j \in DOMAIN functions[v] :
                IsGlobal(functions[v][j]) /\ functions[v][j].link = x
<1>1. x \in Externs(u)
  BY DEF Externs, Labels
<1>2. PICK v \in UnitSet : x \in Globals(v)
  BY <1>1 DEF Resolves
<1>. QED  BY <1>2 DEF Globals

(* A call ends in functions of the units that it means, of its name and,   *)
(* unless they were declared extern, of its types; or in a library.        *)
EndsWhereMeant(u, name, sig, x) ==
    LET means == Destinations(u, x)
    IN  /\ {d[1] : d \in means} = Owners(u, name)
        /\ \A d \in means :
            /\ Items(d[1])[d[2]].name = name
            /\ d[1] # u => "pub" \in Items(d[1])[d[2]].quals
            /\ ~Declares(u, name, "extern") => Items(d[1])[d[2]].sig = sig
        /\ means = {} => name \in Library

(* Imported: the call ends in the module that exports the function, the    *)
(* only one there is.                                                      *)
LEMMA ImportedCall ==
    ASSUME Whole, NamedApart, PlainNames, SameQualifiers, OwnPublic, Resolves,
           NEW u \in UnitSet, NEW e \in DOMAIN table[u], NEW m \in ModuleSet, m # u,
           ImportedEntry(u, table[u][e], m), NEW name, name = table[u][e].name,
           NEW x \in Calls(u), x = table[u][e].link
    PROVE  EndsWhereMeant(u, name, table[u][e].sig, x)
<1>1. m \in UnitSet /\ m # Root /\ IsPath(ModuleName(m)) /\ x = Mangled(ModuleName(m), name)
  BY ModuleNamesArePaths, UnitsAreTheirSet DEF ImportedEntry, Whole
<1>2. m \in Exporters(u, name)
  BY ImportsHaveOrigins
<1>3. PICK e2 \in DOMAIN table[m] : \E i \in DOMAIN Items(m) :
        /\ OwnEntry(m, table[m][e2], i) /\ SameSymbol(table[u][e], table[m][e2])
        /\ Items(m)[i].name = name
  BY ImportsHaveOrigins
<1>4. IsIdentifier(name)
  BY <1>1, <1>3, LinkNames DEF Whole
<1>5. LooksMangled(x) /\ x # Start
  BY <1>1, <1>4, MangledNamesLookIt
<1>6. ASSUME NEW v \in UnitSet, NEW j \in Defined(v), functions[v][j].link = x
      PROVE  v = m /\ Items(v)[j].name = name
  <2>1. v # Root
    BY <1>5, <1>6, LinkedFunction
  <2>2. ModuleName(v) = ModuleName(m) /\ Items(v)[j].name = name
    BY <1>1, <1>4, <1>6, <2>1, LinkedFunction, MangledNamesDiffer
  <2>. QED  BY <2>1, <2>2, UnitsAreTheirSet DEF NamedApart
<1>7. x \notin Labels(u)
  BY <1>5, <1>6 DEF Labels
<1>8. x \notin Library
  BY <1>5 DEF PlainNames
<1>9. PICK v \in UnitSet : \E j \in DOMAIN functions[v] :
        IsGlobal(functions[v][j]) /\ functions[v][j].link = x
  BY <1>5, <1>7, <1>8, CalledIsFound
<1>10. Destinations(u, x) # {}
  BY <1>5, <1>7, <1>9, DestinationsAreFunctions
<1>11. ASSUME NEW d \in Destinations(u, x)
       PROVE  /\ d[1] = m /\ Items(d[1])[d[2]].name = name
              /\ "pub" \in Items(d[1])[d[2]].quals
              /\ Items(d[1])[d[2]].sig = table[u][e].sig
  <2>1. /\ d[1] \in UnitSet /\ d[2] \in Defined(d[1])
        /\ IsGlobal(functions[d[1]][d[2]]) /\ functions[d[1]][d[2]].link = x
    BY <1>5, <1>7, DestinationsAreFunctions
  <2>2. d[1] = m /\ Items(d[1])[d[2]].name = name
    BY <1>6, <2>1
  <2>3. d[2] \in DOMAIN Items(m) /\ "pub" \in Items(d[1])[d[2]].quals
    BY <2>1, <2>2, LinkedFunction
  <2>4. table[m][e2].name = Items(m)[d[2]].name /\ table[m][e2].sig = table[u][e].sig
    BY <1>3, <2>2 DEF SameSymbol
  <2>5. table[m][e2].sig = Items(m)[d[2]].sig
    BY <1>1, <2>3, <2>4, SignaturesAgree
  <2>. QED  BY <2>2, <2>3, <2>4, <2>5
<1>12. ASSUME NEW m2 \in Exporters(u, name) PROVE m2 = m
  <2>1. m2 \in ModuleSet /\ m2 \in UnitSet /\ Declares(m2, name, "pub")
    BY UnitsAreTheirSet DEF Exporters
  <2>2. Exporters(m2, name) = {}
    BY <2>1 DEF OwnPublic, Declares
  <2>3. PICK e3 \in DOMAIN table[u] :
            table[u][e3].name = name /\ table[u][e3].link = Mangled(ModuleName(m2), name)
    BY <2>2, ExportersAreEntered
  <2>4. Mangled(ModuleName(m2), name) = Mangled(ModuleName(m), name)
    BY <1>1, <2>3, NamesOfATableDiffer
  <2>5. ModuleName(m2) = ModuleName(m)
    BY <1>1, <1>4, <2>1, <2>4, ModuleNamesArePaths, MangledNamesDiffer DEF Whole
  <2>. QED  BY <2>1, <2>5 DEF NamedApart
<1>13. Owners(u, name) = {m}
  BY <1>2, <1>12 DEF Owners
<1>. QED  BY <1>10, <1>11, <1>13 DEF EndsWhereMeant

-----------------------------------------------------------------------------
LEMMA OwnIsNotExported ==
    ASSUME Whole, NamedApart, PlainNames, SameQualifiers, OwnPublic,
           NEW u \in UnitSet, NEW e \in DOMAIN table[u], ~table[u][e].imported
    PROVE  Exporters(u, table[u][e].name) = {}
<1> DEFINE name == table[u][e].name
<1> SUFFICES ASSUME NEW m \in Exporters(u, name) PROVE FALSE
  OBVIOUS
<1>1. m \in UnitSet /\ Declares(m, name, "pub")
  BY UnitsAreTheirSet DEF Exporters
<1>2. Exporters(m, name) = {}
  BY <1>1 DEF OwnPublic, Declares
<1>3. PICK e2 \in DOMAIN table[u] : table[u][e2].name = name /\ table[u][e2].imported
  BY <1>2, ExportersAreEntered
<1>. QED  BY <1>3, NamesOfATableDiffer

(* The unit's own: the call ends in its body, if there is one, and else in *)
(* the public function of the root that an extern means, or in a library.  *)
LEMMA OwnCall ==
    ASSUME Whole, NamedApart, PlainNames, SameQualifiers, OwnPublic, Resolves,
           NEW u \in UnitSet, NEW e \in DOMAIN table[u], NEW n \in DOMAIN Items(u),
           OwnEntry(u, table[u][e], n), NEW name, name = table[u][e].name,
           NEW x \in Calls(u), x = table[u][e].link
    PROVE  EndsWhereMeant(u, name, table[u][e].sig, x)
<1> DEFINE item == Items(u)[n]
           D == Destinations(u, x)
<1>1. /\ item.name = name /\ x = OwnLink(u, item) /\ ~table[u][e].imported
      /\ IsIdentifier(name) /\ name # Start /\ ~LooksMangled(name)
      /\ u = Root \/ "extern" \in item.quals => x = name
      /\ u # Root /\ "extern" \notin item.quals =>
            u \in ModuleSet /\ IsPath(ModuleName(u)) /\ x = Mangled(ModuleName(u), name)
  BY LinkNames DEF OwnEntry, SameSymbol, Whole
<1> HIDE DEF item, D
<1>2. Exporters(u, name) = {}
  BY <1>1, OwnIsNotExported
<1>3. x # Start
  BY StartIsNotCalled
<1>4. /\ x \in Labels(u) =>
            /\ \A d \in D : d[1] = u /\ d[2] \in Defined(u) /\ functions[u][d[2]].link = x
            /\ D # {}
      /\ x \notin Labels(u) =>
            /\ \A d \in D :
                /\ d[1] \in UnitSet /\ d[2] \in Defined(d[1]) /\ d[1] # u
                /\ IsGlobal(functions[d[1]][d[2]]) /\ functions[d[1]][d[2]].link = x
            /\ \A v \in UnitSet : \A j \in DOMAIN functions[v] :
                IsGlobal(functions[v][j]) /\ functions[v][j].link = x => <<v, j>> \in D
  BY <1>3, DestinationsAreFunctions DEF D
<1>5. ASSUME x \notin Labels(u), x \notin Library PROVE D # {}
  <2>1. PICK v \in UnitSet : \E j \in DOMAIN functions[v] :
            IsGlobal(functions[v][j]) /\ functions[v][j].link = x
    BY <1>3, <1>5, CalledIsFound
  <2>2. PICK j \in DOMAIN functions[v] : IsGlobal(functions[v][j]) /\ functions[v][j].link = x
    BY <2>1
  <2>. QED  BY <1>4, <1>5, <2>2
<1>6. CASE "extern" \in item.quals
  <2>1. x = name
    BY <1>1, <1>6
  <2>2. ~HasBody(u, name)
    <3>1. ASSUME NEW j \in DOMAIN Items(u), Items(u)[j].name = name PROVE ~Items(u)[j].defined
      <4>1. Items(u)[j].quals = item.quals
        BY <1>1, <3>1 DEF SameQualifiers, item
      <4>2. Entered(u, Items(u)[j])
        BY TablesAreWhole
      <4>. QED  BY <1>6, <4>1, <4>2 DEF Entered
    <3>. QED  BY <3>1 DEF HasBody
  <2>3. Owners(u, name) = Elsewhere(name)
    BY <1>2, <2>2 DEF Owners
  <2>4. ASSUME NEW v \in UnitSet, NEW j \in Defined(v), functions[v][j].link = x
        PROVE  /\ v = Root /\ Items(v)[j].name = name /\ HasBody(Root, name)
               /\ IsGlobal(functions[v][j]) =>
                    "pub" \in Items(v)[j].quals /\ Declares(Root, name, "pub")
    <3>1. v = Root
      BY <1>1, <2>1, <2>4, LinkedFunction
    <3>2. /\ j \in DOMAIN Items(v) /\ Items(v)[j].name = name /\ Items(v)[j].defined
          /\ IsGlobal(functions[v][j]) => "pub" \in Items(v)[j].quals
      BY <2>1, <2>4, <3>1, LinkedFunction
    <3>. QED  BY <3>1, <3>2 DEF HasBody, Declares
  <2>5. x \notin Labels(u)
    <3>1. \A j \in Defined(u) : functions[u][j].link # x
      BY <2>2, <2>4
    <3>. QED  BY <1>3, <3>1 DEF Labels
  <2>6. ASSUME NEW d \in D
        PROVE  /\ d[1] = Root /\ Items(d[1])[d[2]].name = name
               /\ "pub" \in Items(d[1])[d[2]].quals /\ Elsewhere(name) = {Root}
    <3>1. /\ d[1] \in UnitSet /\ d[2] \in Defined(d[1])
          /\ IsGlobal(functions[d[1]][d[2]]) /\ functions[d[1]][d[2]].link = x
      BY <1>4, <2>5
    <3>. QED  BY <2>4, <3>1 DEF Elsewhere
  <2>7. Elsewhere(name) # {} => D # {} /\ Elsewhere(name) = {Root}
    <3> SUFFICES ASSUME HasBody(Root, name), Declares(Root, name, "pub") PROVE D # {}
      BY DEF Elsewhere
    <3>1. Root \in UnitSet
      BY UnitsAreTheirSet
    <3>2. PICK j \in DOMAIN functions[Root] :
            IsGlobal(functions[Root][j]) /\ functions[Root][j].link = name
      BY <3>1, PublicIsGlobal
    <3>. QED  BY <1>4, <2>1, <2>5, <3>1, <3>2
  <2>8. {d[1] : d \in D} = Elsewhere(name)
    BY <2>6, <2>7
  <2>9. Declares(u, name, "extern")
    BY <1>1, <1>6 DEF Declares, item
  <2>. QED  BY <1>5, <2>1, <2>3, <2>5, <2>6, <2>8, <2>9 DEF D, EndsWhereMeant
<1>7. CASE "extern" \notin item.quals
  <2>1. ASSUME NEW j \in Defined(u), functions[u][j].link = x
        PROVE  /\ j \in DOMAIN Items(u) /\ Items(u)[j].name = name /\ HasBody(u, name)
               /\ Items(u)[j].sig = table[u][e].sig
    <3>1. j \in DOMAIN Items(u) /\ Items(u)[j].name = name /\ Items(u)[j].defined
      <4>1. CASE u = Root
        BY <1>1, <2>1, <4>1, LinkedFunction
      <4>2. CASE u # Root
        BY <1>1, <1>7, <2>1, <4>2, LinkedFunction, MangledNamesDiffer
      <4>. QED  BY <4>1, <4>2
    <3>2. Items(u)[j].sig = table[u][e].sig
      BY <3>1, SignaturesAgree
    <3>. QED  BY <3>1, <3>2 DEF HasBody
  <2>2. CASE HasBody(u, name)
    <3>1. PICK j \in DOMAIN Items(u) : Items(u)[j].name = name /\ Items(u)[j].defined
      BY <2>2 DEF HasBody
    <3>2. j \in Defined(u)
      BY <3>1, TablesAreWhole, FunctionsAreItems DEF Defined
    <3>3. functions[u][j].link = x
      BY <1>1, <1>7, <3>1, <3>2, LinkedFunction
    <3>4. x \in Labels(u)
      BY <3>2, <3>3 DEF Labels
    <3>5. \A d \in D : /\ d[1] = u /\ Items(d[1])[d[2]].name = name
                       /\ Items(d[1])[d[2]].sig = table[u][e].sig
      BY <1>4, <2>1, <3>4
    <3>6. D # {} /\ {d[1] : d \in D} = {u}
      BY <1>4, <3>4, <3>5
    <3>7. Owners(u, name) = {u}
      BY <1>2, <2>2 DEF Owners
    <3>. QED  BY <3>5, <3>6, <3>7 DEF D, EndsWhereMeant
  <2>3. CASE ~HasBody(u, name)
    <3>1. x \notin Labels(u)
      BY <1>3, <2>1, <2>3 DEF Labels
    <3>2. ASSUME NEW v \in UnitSet, NEW j \in Defined(v), functions[v][j].link = x PROVE FALSE
      <4>1. v # u
        BY <2>1, <2>3, <3>2
      <4>2. CASE u = Root
        <5>1. v # Root
          BY <4>1, <4>2
        <5>. QED  BY <1>1, <3>2, <4>2, <5>1, LinkedFunction
      <4>3. CASE u # Root
        <5>1. x = Mangled(ModuleName(u), name) /\ IsPath(ModuleName(u)) /\ u \in ModuleSet
          BY <1>1, <1>7, <4>3
        <5>2. LooksMangled(x)
          BY <1>1, <5>1, MangledNamesLookIt
        <5>3. v # Root
          BY <3>2, <5>2, LinkedFunction
        <5>4. ModuleName(v) = ModuleName(u) /\ v \in ModuleSet
          BY <1>1, <3>2, <5>1, <5>3, LinkedFunction, MangledNamesDiffer
        <5>. QED  BY <4>1, <5>1, <5>4 DEF NamedApart
      <4>. QED  BY <4>2, <4>3
    <3>3. D = {}
      BY <1>4, <3>1, <3>2
    <3>4. x \in Library
      BY <1>5, <3>1, <3>3
    <3>5. u = Root /\ x = name
      <4>1. CASE u # Root
        <5>1. LooksMangled(x)
          BY <1>1, <1>7, <4>1, MangledNamesLookIt
        <5>. QED  BY <3>4, <5>1 DEF PlainNames
      <4>. QED  BY <1>1, <4>1
    <3>6. Owners(u, name) = {}
      BY <1>2, <2>3, <3>5 DEF Owners, Elsewhere
    <3>. QED  BY <3>3, <3>4, <3>5, <3>6 DEF D, EndsWhereMeant
  <2>. QED  BY <2>2, <2>3
<1>. QED  BY <1>6, <1>7

(***************************************************************************)
(* For every program: a call ends in the function that the text means, and *)
(* that function takes what is passed (sf_func_symbol_table_lookup,        *)
(* import_public_symbols, sym->link_name).                                 *)
(***************************************************************************)
THEOREM CallsReach == Spec => []CallsReachTheirFunction
<1>1. Init => IInv /\ Tracked
  BY InitGivesIInv, InitGivesTracked
<1>2. (IInv /\ Tracked) /\ [Next]_vars => (IInv /\ Tracked)'
  BY NextKeepsIInv, NextKeepsTracked
<1>3. IInv /\ Tracked => CallsReachTheirFunction
  <2> SUFFICES ASSUME IInv, Tracked, phase = "linked",
                      SameQualifiers, OwnPublic, NamedApart, PlainNames,
                      NEW u \in UnitSet, NEW i \in Defined(u),
                      NEW k \in DOMAIN functions[u][i].calls
               PROVE  LET call == Items(u)[i].calls[k]
                      IN  EndsWhereMeant(u, call.name, call.sig, functions[u][i].calls[k])
    BY DEF CallsReachTheirFunction, EndsWhereMeant
  <2>1. Whole /\ Resolves
    BY GeneratedIsWhole DEF Tracked, Outcome
  <2>2. PICK e \in DOMAIN table[u] :
            /\ table[u][e].name = Items(u)[i].calls[k].name
            /\ table[u][e].sig = Items(u)[i].calls[k].sig
            /\ table[u][e].link = functions[u][i].calls[k]
    BY <2>1, CallsAreEntries
  <2>3. PICK name, x : name = table[u][e].name /\ x = table[u][e].link
    OBVIOUS
  <2>4. x \in Calls(u)
    BY <2>2, <2>3 DEF Calls
  <2>5. ASSUME NEW m \in ModuleSet, m # u, ImportedEntry(u, table[u][e], m)
        PROVE  EndsWhereMeant(u, name, table[u][e].sig, x)
    BY <2>1, <2>3, <2>4, <2>5, ImportedCall
  <2>6. ASSUME NEW n \in DOMAIN Items(u), OwnEntry(u, table[u][e], n)
        PROVE  EndsWhereMeant(u, name, table[u][e].sig, x)
    BY <2>1, <2>3, <2>4, <2>6, OwnCall
  <2>7. EndsWhereMeant(u, name, table[u][e].sig, x)
    BY <2>1, <2>5, <2>6, TablesAreWhole
  <2>. QED  BY <2>2, <2>3, <2>7
<1>. QED  BY <1>1, <1>2, <1>3, PTL DEF Spec

=============================================================================
