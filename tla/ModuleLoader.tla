----------------------------- MODULE ModuleLoader -----------------------------
(***************************************************************************)
(* The module loader (module.c): a depth-first walk of the import graph    *)
(* that reads, tokenizes and parses each imported file once.               *)
(*                                                                         *)
(* resolve_imports and resolve_import call each other; `loading' is the C  *)
(* call stack of that recursion (innermost unit first) and nextImport the  *)
(* loop counter of each activation.  A module enters the list before its   *)
(* own imports are looked at, which is what ends the walk on a cycle.      *)
(***************************************************************************)
EXTENDS CompilationState

VARIABLES
    loading,    \* activations of resolve_imports
    nextImport  \* i of the activation of each unit

loaderVars == <<state, loading, nextImport, resolved>>

LoaderTypeOK ==
    /\ state \in [Files -> ModuleState]
    /\ loading \in Seq(Units)
    /\ nextImport \in [Units -> Nat \ {0}]
    /\ resolved \in [Units -> SUBSET Nat]

(* Mutant: the loops start at 0, as in C. *)
LoaderInitFromZero ==
    /\ state = [f \in Files |-> "UNLOADED"]
    /\ loading = <<>>
    /\ nextImport = [u \in Units |-> 0]
    /\ resolved = [u \in Units |-> {}]

LoaderInit ==
    /\ state = [f \in Files |-> "UNLOADED"]
    /\ loading = <<>>
    /\ nextImport = [u \in Units |-> 1]
    /\ resolved = [u \in Units |-> {}]

-----------------------------------------------------------------------------
Importer == Head(loading)

ImportIndex == nextImport[Importer]

Target == Body(Importer).imports[ImportIndex]

(* resolve_imports goes on with its loop until a fatal was logged. *)
HasImport ==
    /\ loading # <<>>
    /\ ImportIndex \in DOMAIN Body(Importer).imports
    /\ ~HadFatal

(* find_module_index *)
(* Mutant: only the modules whose loading has not ended are found. *)
ListedWhileLoading(f) == state[f] = "LOADING"

Listed(f) == state[f] # "UNLOADED"

(* Mutant: the loop stays on the same import. *)
SameImport == UNCHANGED nextImport

NextImport ==
    nextImport' = [nextImport EXCEPT ![Importer] = ImportIndex + 1]

Resolve ==
    resolved' = [resolved EXCEPT ![Importer] = @ \cup {ImportIndex}]

-----------------------------------------------------------------------------
(* The search found no file: the import stays unresolved and the loop goes on. *)
ImportNotFound ==
    /\ HasImport
    /\ Target = NotFound
    /\ LogError
    /\ NextImport
    /\ UNCHANGED <<src, state, loading, resolved>>

(* No memory: for the copy of the path found, which resolve_import takes for  *)
(* a module that was not found; for a candidate path or for the list entry,   *)
(* which is a fatal (after it the former logs an error, too).                 *)
ImportOutOfMemory ==
    /\ HasImport
    /\ Faults
    /\ LogError \/ LogFatal
    /\ NextImport
    /\ UNCHANGED <<src, state, loading, resolved>>

(* The file is in the list already, whatever its state is. *)
ImportKnown ==
    /\ HasImport
    /\ Target \in Files
    /\ Listed(Target)
    /\ Resolve
    /\ NextImport
    /\ UNCHANGED <<src, log, state, loading>>

(***************************************************************************)
(* A new entry that ends FAILED at once: it cannot be read, any error was  *)
(* logged before (the check is on the global count), or it is malformed.   *)
(* Its imports are never looked at.                                        *)
(***************************************************************************)
ImportRejected ==
    /\ HasImport
    /\ Target \in Files
    /\ ~Listed(Target)
    /\ \/ /\ Faults
          /\ LogFatal
       \/ /\ HadErrors
          /\ UNCHANGED log
       \/ /\ ~HadErrors
          /\ src[Target].health = "malformed"
          /\ LogError
    /\ state' = [state EXCEPT ![Target] = "FAILED"]
    /\ Resolve
    /\ NextImport
    /\ UNCHANGED <<src, loading>>

(* A new entry that parses: resolve_import calls resolve_imports on it. *)
ImportEntered ==
    /\ HasImport
    /\ Target \in Files
    /\ ~Listed(Target)
    /\ ~HadErrors
    /\ src[Target].health # "malformed"
    /\ state' = [state EXCEPT ![Target] = "LOADING"]
    /\ loading' = <<Target>> \o loading
    /\ Resolve
    /\ NextImport
    /\ UNCHANGED <<src, log>>

(* resolve_imports returns; its module is LOADED unless a fatal was logged. *)
LoadReturn ==
    /\ loading # <<>>
    /\ ~HasImport
    /\ loading' = Tail(loading)
    /\ state' = IF Importer = Root THEN state
                ELSE [state EXCEPT ![Importer] = IF HadFatal THEN "FAILED"
                                                             ELSE "LOADED"]
    /\ UNCHANGED <<src, log, nextImport, resolved>>

LoaderNext ==
    \/ ImportNotFound
    \/ ImportOutOfMemory
    \/ ImportKnown
    \/ ImportRejected
    \/ ImportEntered
    \/ LoadReturn

=============================================================================
