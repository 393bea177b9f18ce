----------------------------- MODULE SourceFiles -----------------------------
(***************************************************************************)
(* The input of one run of the Sulfur compiler: what its source files hold *)
(* and the import graph they form.                                         *)
(*                                                                         *)
(* A compilation UNIT is either the program named by -i (Root) or a module *)
(* that some unit imports, known by its file name.  The program's own file *)
(* (Main) may be imported too: it is then parsed a second time, as a       *)
(* module like any other.                                                  *)
(***************************************************************************)
EXTENDS Naturals, Sequences, FiniteSets

CONSTANTS
    Files,     \* file names the search for an import can return
    Main,      \* the file that -i names
    Root,      \* the unit compiled from Main
    NotFound,  \* what the search returns when no directory has the file
    Names,     \* function names
    Programs   \* the contents the files may have under each setting

Units == Files \cup {Root}

(***************************************************************************)
(* What the compiler finds in a file.  "malformed": the tokenizer or the   *)
(* parser logs an error.  "badBody": it parses, but a statement of it does *)
(* not type-check.  "noMain": it is correct but has no valid entry point.  *)
(* Its imports are given by what the search finds for each of them.        *)
(***************************************************************************)
Health == {"ok", "malformed", "badBody", "noMain"}

Source == [imports : Seq(Files \cup {NotFound}),
           health  : Health,
           public  : SUBSET Names,
           private : SUBSET Names]

(* --module was given; allocations, reads and writes may fail. *)
Settings == [isModule : BOOLEAN, faults : BOOLEAN]

ASSUME InputAssumption ==
    /\ Main \in Files
    /\ Root \notin Files
    /\ NotFound \notin Files \cup {Root}
    /\ Programs \in [Settings -> SUBSET [Files -> Source]]

(* None of these ever changes. *)
VARIABLES
    src,     \* the contents of the files
    setting, \* whether --module is given, and whether anything may fail
    cmdline  \* what is wrong with the command line: nothing, a flag, or an
             \* input file outside the -m directories

inputs == <<src, setting, cmdline>>

IsModule == setting.isModule
Faults   == setting.faults

Body(u)    == IF u = Root THEN src[Main] ELSE src[u]
Imports(u) == {Body(u).imports[i] : i \in DOMAIN Body(u).imports}
Defined(u) == Body(u).public \cup Body(u).private

InputTypeOK ==
    /\ src \in [Files -> Source]
    /\ setting \in Settings
    /\ cmdline \in {"valid", "badFlag", "outsidePath"}

InputInit ==
    /\ setting \in Settings
    /\ src \in Programs[setting]
    /\ cmdline \in {"valid", "badFlag", "outsidePath"}

-----------------------------------------------------------------------------
(* The import graph. *)

(* The files that the program imports, directly or through others. *)
Reachable ==
    {f \in Files : \A S \in SUBSET (Files \cup {NotFound}) :
        /\ Imports(Root) \subseteq S
        /\ \A g \in S \cap Files : Imports(g) \subseteq S
        => f \in S}

(* Every set of modules has one that imports none of the others, nor itself. *)
Acyclic(S) ==
    \A T \in SUBSET S : T # {} => \E f \in T : Imports(f) \cap T = {}

=============================================================================
