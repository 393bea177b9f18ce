-------------------------------- MODULE Linkage --------------------------------
(***************************************************************************)
(* From declarations to a linked program: the function symbol tables       *)
(* (symbol.c, semantic.c), the names under which functions are linked      *)
(* (mangle.c), the definitions, externs and globals of an assembly file    *)
(* (ir.c, codegen.c), and what nasm and ld make of the files together.     *)
(*                                                                         *)
(* The program is compiled unit by unit: its modules, and the root with    *)
(* the entry point.  Modules come after those they import.  A name is a    *)
(* sequence of characters, a path a sequence of names.                     *)
(***************************************************************************)
EXTENDS Naturals, Sequences, FiniteSets

CONSTANTS
    Modules,   \* the modules of a program, in the order of their analysis
    Root,      \* the unit that is compiled without --module
    Programs,  \* the programs: see ProgramType
    Library,   \* names that libraries given to the linker define
    MainName,  \* main
    Characters,
    Digits     \* Digits[n] is how %zu prints n

Units == Append(Modules, Root)
UnitSet == {Units[i] : i \in DOMAIN Units}
ModuleSet == {Modules[i] : i \in DOMAIN Modules}

(***************************************************************************)
(* A program: the -m directories, the file of each module, and for each    *)
(* unit its imports and its functions.  sig stands for the types of a      *)
(* function's parameters and result, and for those of a call.              *)
(***************************************************************************)
Qualifiers == {"pub", "extern", "mut"}

DigitCharacters == {"0", "1", "2", "3", "4", "5", "6", "7", "8", "9"}

(* Digits has the length of every name. *)
IsName(name) == name \in Seq(Characters) /\ Len(name) \in DOMAIN Digits /\ name # <<>>
IsIdentifier(name) == IsName(name) /\ name[1] \notin DigitCharacters

Below(dir, file) ==
    Len(dir) < Len(file) /\ SubSeq(file, 1, Len(dir)) = dir

(* find_module_path: the file itself, or one in a directory. *)
FilesOf(p, path) == <<path>> \o [i \in DOMAIN p.dirs |-> p.dirs[i] \o path]

FoundIn(p, path) ==
    LET files == FilesOf(p, path)
        hits  == {i \in DOMAIN files : \E m \in ModuleSet : p.file[m] = files[i]}
        first == CHOOSE i \in hits : \A j \in hits : i <= j
    IN  IF hits = {} THEN {} ELSE {m \in ModuleSet : p.file[m] = files[first]}

(* Modules are known by their files, and each lies in a directory of -m    *)
(* (main.c:57).  What a unit imports is analysed before its symbols are    *)
(* copied (analyze_module), and imports that form a cycle are refused.     *)
ModulesAreInOrder(p) ==
    /\ DOMAIN p.file = ModuleSet
    /\ \A m1, m2 \in ModuleSet : p.file[m1] = p.file[m2] => m1 = m2
    /\ \A m \in ModuleSet :
        /\ p.file[m] \in Seq(Seq(Characters))
        /\ \A k \in DOMAIN p.file[m] : IsName(p.file[m][k])
        /\ \E i \in DOMAIN p.dirs : Below(p.dirs[i], p.file[m])
    /\ \A i \in DOMAIN Units : \A k \in DOMAIN p.imports[Units[i]] :
        \A m \in FoundIn(p, p.imports[Units[i]][k]) : \E j \in 1 .. i - 1 : m = Units[j]

ASSUME LinkageAssumption ==
    /\ Modules \in Seq(ModuleSet) /\ Root \notin ModuleSet
    /\ \A i, j \in DOMAIN Modules : i # j => Modules[i] # Modules[j]
    /\ DigitCharacters \cup {"_", "S", "F", "s"} \subseteq Characters
    /\ DOMAIN Digits \subseteq Nat
    /\ \A n \in DOMAIN Digits : Digits[n] \in Seq(DigitCharacters) /\ Digits[n] # <<>>
    /\ \A n1, n2 \in DOMAIN Digits : Digits[n1] = Digits[n2] => n1 = n2
    /\ \A p \in Programs :
        /\ DOMAIN p.dirs = 1 .. Len(p.dirs) /\ Len(p.dirs) \in Nat
        /\ \A i \in DOMAIN p.dirs : Len(p.dirs[i]) \in Nat
        /\ DOMAIN p.imports = UnitSet /\ DOMAIN p.items = UnitSet
        /\ \A u \in UnitSet :
            /\ Len(p.imports[u]) \in Nat /\ Len(p.items[u]) \in Nat
            /\ DOMAIN p.imports[u] = 1 .. Len(p.imports[u])
            /\ DOMAIN p.items[u] = 1 .. Len(p.items[u])
            /\ \A i \in DOMAIN p.items[u] :
                /\ IsIdentifier(p.items[u][i].name)
                /\ p.items[u][i].quals \subseteq Qualifiers
                /\ p.items[u][i].defined \in BOOLEAN
        /\ ModulesAreInOrder(p)

VARIABLES
    program,
    unit,       \* the unit that is analysed, as an index of Units
    next,       \* the next of its imports and functions
    copied,     \* how much of the import's table has been gone through
    table,      \* sf_func_symbol_table of each unit
    functions,  \* the functions of each unit that generate_function sees
    failed,     \* an error was logged
    phase       \* "analyze", "linked", "unlinked" or "rejected"

vars == <<program, unit, next, copied, table, functions, failed, phase>>

Init ==
    /\ program \in Programs
    /\ unit = 1 /\ next = 1 /\ copied = 0
    /\ table = [u \in UnitSet |-> <<>>]
    /\ functions = [u \in UnitSet |-> <<>>]
    /\ failed = FALSE
    /\ phase = "analyze"

Current == Units[unit]
Imports(u) == program.imports[u]
Items(u) == program.items[u]

-----------------------------------------------------------------------------
(* mangle.c, and the names of modules (module.c). *)

Joined(parts) ==
    LET upTo[i \in 0 .. Len(parts)] ==
            IF i = 0 THEN <<>> ELSE upTo[i - 1] \o parts[i]
    IN  upTo[Len(parts)]

Measured(name) == Digits[Len(name)] \o name

(* Mutant: the parts of a path run together. *)
MangleWithoutLengths(path) == <<"_", "S", "F">> \o Joined(path)

MangleModulePrefix(path) ==
    <<"_", "S", "F">> \o Joined([i \in DOMAIN path |-> Measured(path[i])])

(* The prefix of the root. *)
NoPrefix == <<>>

MangleFunction(prefix, name, keepName) ==
    IF prefix = NoPrefix \/ keepName THEN name
    ELSE prefix \o Measured(name)

Under(dir, file) == SubSeq(file, Len(dir) + 1, Len(file))

(* sf_module_name_from_path: by the first directory that has the file. *)
NameFromPath(file) ==
    LET first == CHOOSE i \in DOMAIN program.dirs :
                    /\ Below(program.dirs[i], file)
                    /\ \A j \in 1 .. i - 1 : ~Below(program.dirs[j], file)
    IN  Under(program.dirs[first], file)

Found(path) == FoundIn(program, path)

(***************************************************************************)
(* A compiler run knows a module by the path that led to it first; when    *)
(* the module is compiled itself, its name comes from its file.            *)
(***************************************************************************)
PathsFrom(u) ==
    LET paths[v \in UnitSet] ==
            Joined([k \in DOMAIN Imports(v) |->
                <<Imports(v)[k]>> \o Joined([j \in 1 .. Cardinality(Found(Imports(v)[k])) |->
                                        paths[CHOOSE m \in Found(Imports(v)[k]) : TRUE]])])
    IN  paths[u]

NameIn(u, m) ==
    LET p     == PathsFrom(u)
        leads == {k \in DOMAIN p : m \in Found(p[k])}
    IN  p[CHOOSE k \in leads : \A j \in leads : k <= j]

Prefix(u) ==
    IF u = Root THEN NoPrefix ELSE MangleModulePrefix(NameFromPath(program.file[u]))

(* The name under which a unit knows its own functions, and those of a     *)
(* module it imports, which its run has analysed by another name.          *)
OwnLink(u, item) == MangleFunction(Prefix(u), item.name, "extern" \in item.quals)
ImportedLink(u, m, name) == MangleFunction(MangleModulePrefix(NameIn(u, m)), name, FALSE)

-----------------------------------------------------------------------------
(* symbol.c. *)

Entries(t, name) == {i \in DOMAIN t : t[i].name = name}
Lookup(t, name) == t[CHOOSE i \in Entries(t, name) : TRUE]

(* Mutant: two bodies are not noticed. *)
RefusedBySignature(t, sym) ==
    \/ "extern" \in sym.quals /\ sym.defined
    \/ \E i \in Entries(t, sym.name) : t[i].sig # sym.sig

(* Why sf_func_symbol_table_insert refuses a symbol. *)
Refused(t, sym) ==
    \/ "extern" \in sym.quals /\ sym.defined
    \/ \E i \in Entries(t, sym.name) :
        \/ t[i].sig # sym.sig
        \/ t[i].defined /\ sym.defined

Insert(t, sym) ==
    IF Refused(t, sym) THEN t
    ELSE IF Entries(t, sym.name) = {} THEN Append(t, sym)
    ELSE [i \in DOMAIN t |->
            IF t[i].name = sym.name THEN [t[i] EXCEPT !.defined = @ \/ sym.defined]
            ELSE t[i]]

-----------------------------------------------------------------------------
(* import_public_symbols, a symbol of the module's table at a time. *)

Importing ==
    /\ phase = "analyze"
    /\ next <= Len(Imports(Current))

Dependency == Found(Imports(Current)[next])

Exported(s) == "pub" \in s.quals /\ ~s.imported

(* The symbol as this run has it. *)
AsImported(m, s) ==
    [s EXCEPT !.imported = TRUE, !.defined = TRUE, !.link = ImportedLink(Current, m, s.name)]

ImportSymbol ==
    /\ Importing
    /\ \E m \in Dependency :
        /\ copied < Len(table[m])
        /\ LET s   == table[m][copied + 1]
               sym == AsImported(m, s)
           IN  IF Exported(s)
               THEN /\ table' = [table EXCEPT ![Current] = Insert(@, sym)]
                    /\ failed' = (failed \/ Refused(table[Current], sym))
               ELSE UNCHANGED <<table, failed>>
    /\ copied' = copied + 1
    /\ UNCHANGED <<program, unit, next, functions, phase>>

ImportEnds ==
    /\ Importing
    /\ \A m \in Dependency : copied = Len(table[m])
    /\ failed' = (failed \/ Dependency = {})
    /\ next' = next + 1
    /\ copied' = 0
    /\ UNCHANGED <<program, unit, table, functions, phase>>

-----------------------------------------------------------------------------
(* analyze_func_decl and the calls in its body. *)

Item == Items(Current)[next - Len(Imports(Current))]

Symbol(item) ==
    [name |-> item.name, sig |-> item.sig, quals |-> item.quals,
     defined |-> item.defined, imported |-> FALSE,
     link |-> OwnLink(Current, item)]

BadQualifiers(sym) == "mut" \in sym.quals \/ {"pub", "extern"} \subseteq sym.quals

(* Mutant: what is passed is not looked at. *)
CallDeclared(t, call) == Entries(t, call.name) # {}

(* analyze_func_call *)
CallOK(t, call) == Entries(t, call.name) # {} /\ Lookup(t, call.name).sig = call.sig

(* What generate_function and generate_call will find in the tree.  Code is *)
(* generated only if nothing failed.                                        *)
Function(t, sym, item) ==
    [name |-> item.name, link |-> sym.link, defined |-> item.defined, pub |-> "pub" \in item.quals,
     calls |-> [k \in DOMAIN item.calls |-> Lookup(t, item.calls[k].name).link]]

FuncDecl ==
    /\ phase = "analyze"
    /\ next > Len(Imports(Current))
    /\ next <= Len(Imports(Current)) + Len(Items(Current))
    /\ next' = next + 1
    /\ LET sym == Symbol(Item)
           t   == table[Current]
           t2  == Insert(t, sym)
           bad == \/ BadQualifiers(sym) \/ Refused(t, sym)
                  \/ \E k \in DOMAIN Item.calls : ~CallOK(t2, Item.calls[k])
       IN  /\ table' = IF BadQualifiers(sym) THEN table ELSE [table EXCEPT ![Current] = t2]
           /\ failed' = (failed \/ bad)
           /\ functions' = IF failed' THEN functions
                           ELSE [functions EXCEPT ![Current] = Append(@, Function(t2, sym, Item))]
    /\ UNCHANGED <<program, unit, copied, phase>>

(* check_main_function: 1 is the type of a function without parameters that *)
(* returns an i32.                                                          *)
MainOK ==
    /\ Entries(table[Root], MainName) # {}
    /\ LET main == Lookup(table[Root], MainName) IN main.sig = 1 /\ main.quals = {}

UnitEnds ==
    /\ phase = "analyze"
    /\ next > Len(Imports(Current)) + Len(Items(Current))
    /\ failed' = (failed \/ (Current = Root /\ ~MainOK))
    /\ IF failed' THEN phase' = "rejected" /\ UNCHANGED <<unit, next>>
       ELSE IF Current = Root THEN phase' = "generated" /\ UNCHANGED <<unit, next>>
       ELSE unit' = unit + 1 /\ next' = 1 /\ UNCHANGED phase
    /\ UNCHANGED <<program, copied, table, functions>>

-----------------------------------------------------------------------------
(* The assembly file of a unit (ir.c, codegen.c). *)

IsRoot(u) == u = Root
Start == <<"_", "s", "t", "a", "r", "t">>

Defined(u) == {i \in DOMAIN functions[u] : functions[u][i].defined}

Labels(u) == {functions[u][i].link : i \in Defined(u)}
             \cup (IF IsRoot(u) THEN {Start} ELSE {})

Calls(u) == UNION {{functions[u][i].calls[k] : k \in DOMAIN functions[u][i].calls} :
                        i \in Defined(u)}

(* collect_externs: what is called and not defined here. *)
Externs(u) == Calls(u) \ {functions[u][i].link : i \in Defined(u)}

(* emit_func_linkage *)
IsGlobal(f) == f.defined /\ f.pub

Globals(u) == {functions[u][i].link : i \in {j \in DOMAIN functions[u] : IsGlobal(functions[u][j])}}
              \cup (IF IsRoot(u) THEN {Start} ELSE {})

-----------------------------------------------------------------------------
(* nasm and ld. *)

(* Every label is defined once, and every symbol is a label or an extern.  *)
Assembles(u) ==
    /\ \A i, j \in Defined(u) : i # j => functions[u][i].link # functions[u][j].link
    /\ Start \notin {functions[u][i].link : i \in Defined(u)}
    /\ Labels(u) \cap Externs(u) = {}
    /\ IsRoot(u) => MainName \in Labels(u) \cup Externs(u)

Resolves ==
    /\ \A u, v \in UnitSet : u # v => Globals(u) \cap Globals(v) = {}
    /\ \A u \in UnitSet : Externs(u) \subseteq Library \cup UNION {Globals(v) : v \in UnitSet}

Link ==
    /\ phase = "generated"
    /\ phase' = IF Resolves /\ \A u \in UnitSet : Assembles(u) THEN "linked" ELSE "unlinked"
    /\ UNCHANGED <<program, unit, next, copied, table, functions, failed>>

Ended == phase \in {"linked", "unlinked", "rejected"} /\ UNCHANGED vars

Next == ImportSymbol \/ ImportEnds \/ FuncDecl \/ UnitEnds \/ Link \/ Ended

Spec == Init /\ [][Next]_vars

-----------------------------------------------------------------------------
(* What the text of a program says, without tables and link names. *)

Declares(u, name, qual) ==
    \E i \in DOMAIN Items(u) : Items(u)[i].name = name /\ qual \in Items(u)[i].quals

HasBody(u, name) == \E i \in DOMAIN Items(u) : Items(u)[i].name = name /\ Items(u)[i].defined

(* The imported modules that have a public function of this name.          *)
Exporters(u, name) ==
    {m \in ModuleSet : Declares(m, name, "pub") /\
                       \E k \in DOMAIN Imports(u) : m \in Found(Imports(u)[k])}

Elsewhere(name) ==
    IF HasBody(Root, name) /\ Declares(Root, name, "pub") THEN {Root} ELSE {}

(* The unit whose function a call means; none if it is a library's.        *)
Owners(u, name) ==
    IF Exporters(u, name) # {} THEN Exporters(u, name)
    ELSE IF HasBody(u, name) THEN {u}
    ELSE Elsewhere(name)

(***************************************************************************)
(* What the compiler does not look at, and the linking then may:           *)
(* declarations of one function with other qualifiers, a public function   *)
(* that is an imported one declared again, functions that no unit defines, *)
(* a module that its importers know by another name than the one it is     *)
(* compiled under, two modules compiled under one name, functions that are *)
(* named like the entry point or a mangled name, and directories and files *)
(* whose names begin with a digit, which runs into the length before it.   *)
(***************************************************************************)
SameQualifiers ==
    \A u \in UnitSet : \A i, j \in DOMAIN Items(u) :
        Items(u)[i].name = Items(u)[j].name => Items(u)[i].quals = Items(u)[j].quals

OwnPublic ==
    \A u \in UnitSet : \A i \in DOMAIN Items(u) :
        "pub" \in Items(u)[i].quals => Exporters(u, Items(u)[i].name) = {}

Complete ==
    \A u \in UnitSet : \A i \in DOMAIN Items(u) :
        LET name == Items(u)[i].name
        IN  IF "extern" \in Items(u)[i].quals
            THEN name \in Library \/ (HasBody(Root, name) /\ Declares(Root, name, "pub"))
            ELSE HasBody(u, name) \/ \E m \in Exporters(u, name) : HasBody(m, name)

ModuleName(m) == NameFromPath(program.file[m])

NamedApart ==
    /\ \A m1, m2 \in ModuleSet : ModuleName(m1) = ModuleName(m2) => m1 = m2
    /\ \A u \in UnitSet : \A k \in DOMAIN Imports(u) : \A m \in Found(Imports(u)[k]) :
        NameIn(u, m) = ModuleName(m)

LooksMangled(name) == Len(name) >= 3 /\ SubSeq(name, 1, 3) = <<"_", "S", "F">>

PlainNames ==
    /\ \A u \in UnitSet : \A i \in DOMAIN Items(u) :
        Items(u)[i].name # Start /\ ~LooksMangled(Items(u)[i].name)
    /\ \A name \in Library : ~LooksMangled(name)
    /\ \A m \in ModuleSet : \A k \in DOMAIN ModuleName(m) :
        ModuleName(m)[k][1] \notin DigitCharacters

-----------------------------------------------------------------------------
(* Whatever the compiler accepts is assembled and linked (mangle.c,        *)
(* collect_externs, emit_func_linkage): no label twice, no public function *)
(* of two units under one name, and every extern found.                    *)
AcceptedProgramsLink ==
    phase = "unlinked" => ~(SameQualifiers /\ Complete /\ NamedApart /\ PlainNames)

(* The functions that a linked call may end in. *)
Destinations(u, link) ==
    IF link \in Labels(u)
    THEN {<<u, i>> : i \in {j \in Defined(u) : functions[u][j].link = link}}
    ELSE UNION {{<<v, i>> : i \in {j \in DOMAIN functions[v] :
                    IsGlobal(functions[v][j]) /\ functions[v][j].link = link}} : v \in UnitSet}

(* A call ends where the text says (sf_func_symbol_table_lookup,           *)
(* import_public_symbols, sym->link_name): in the public function of an    *)
(* imported module, else in the unit's own, else, for an extern function,  *)
(* where the linker finds it; and that function takes what is passed,      *)
(* unless it was declared extern, whose definition is not seen.            *)
CallsReachTheirFunction ==
    phase = "linked" /\ SameQualifiers /\ OwnPublic /\ NamedApart /\ PlainNames =>
        \A u \in UnitSet : \A i \in Defined(u) : \A k \in DOMAIN functions[u][i].calls :
            LET call  == Items(u)[i].calls[k]
                means == Destinations(u, functions[u][i].calls[k])
            IN  /\ {d[1] : d \in means} = Owners(u, call.name)
                /\ \A d \in means :
                    /\ Items(d[1])[d[2]].name = call.name
                    /\ d[1] # u => "pub" \in Items(d[1])[d[2]].quals
                    /\ ~Declares(u, call.name, "extern") => Items(d[1])[d[2]].sig = call.sig
                /\ means = {} => call.name \in Library

-----------------------------------------------------------------------------
(***************************************************************************)
(* OneBodyEach: of the functions of a unit that code is generated for, at  *)
(* most one of a name has a body, however declarations, definitions and    *)
(* imports follow each other (sf_func_symbol_table_insert).                *)
(***************************************************************************)
OneBodyEach ==
    \A u \in UnitSet : \A i, j \in Defined(u) :
        functions[u][i].name = functions[u][j].name => i = j

(* A lookup by name finds the only entry there is, and that entry knows of *)
(* the body.                                                               *)
OneEntryEach ==
    \A u \in UnitSet : \A i, j \in DOMAIN table[u] :
        table[u][i].name = table[u][j].name => i = j

BodiesAreKnown ==
    \A u \in UnitSet : \A i \in Defined(u) : \E e \in DOMAIN table[u] :
        table[u][e].name = functions[u][i].name /\ table[u][e].defined

IsSequence(s) == s \in Seq({s[i] : i \in DOMAIN s})

IsSymbol(s) ==
    /\ s = [name |-> s.name, sig |-> s.sig, quals |-> s.quals,
            defined |-> s.defined, imported |-> s.imported, link |-> s.link]
    /\ s.defined \in BOOLEAN /\ s.imported \in BOOLEAN

Shape ==
    /\ program \in Programs
    /\ unit \in DOMAIN Units /\ next \in Nat /\ copied \in Nat
    /\ DOMAIN table = UnitSet /\ DOMAIN functions = UnitSet
    /\ \A u \in UnitSet :
        /\ IsSequence(table[u]) /\ IsSequence(functions[u])
        /\ \A i \in DOMAIN table[u] : IsSymbol(table[u][i])
        /\ \A i \in DOMAIN functions[u] : functions[u][i].defined \in BOOLEAN

IInv == Shape /\ OneEntryEach /\ BodiesAreKnown /\ OneBodyEach

=============================================================================
