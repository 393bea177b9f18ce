---------------------------- MODULE ModuleAnalysis ----------------------------
(***************************************************************************)
(* The semantic driver (semantic.c): analyze_program and analyze_module    *)
(* walk the import graph a second time, analysing every module before the  *)
(* units that import it and copying its public functions into their        *)
(* symbol tables.  An import that leads back to a module whose analysis is *)
(* in progress is the cycle the compiler reports.                          *)
(*                                                                         *)
(* `analyzing' is the C call stack of analyze_program (innermost first).   *)
(* A callee's verdict reaches its caller through the module's analysis     *)
(* state, which analyze_module sets to DONE or FAILED exactly when it      *)
(* returns true or false: the caller stays on the same import until then.  *)
(***************************************************************************)
EXTENDS CompilationState

VARIABLES
    analysis,   \* sf_module.analysis
    analyzing,  \* activations of analyze_program
    nextDep,    \* the import loop counter of each activation
    allOk,      \* `ok' of each activation
    imported,   \* the names each unit's symbol table took from its imports
    own         \* the names each unit's symbol table took from its statements

analysisVars == <<analysis, analyzing, nextDep, allOk, imported, own>>

AnalysisState == {"PENDING", "IN_PROGRESS", "DONE", "FAILED"}

AnalysisTypeOK ==
    /\ analysis \in [Files -> AnalysisState]
    /\ analyzing \in Seq(Units)
    /\ nextDep \in [Units -> Nat \ {0}]
    /\ allOk \in [Units -> BOOLEAN]
    /\ imported \in [Units -> SUBSET Names]
    /\ own \in [Units -> SUBSET Names]

AnalysisInit ==
    /\ analysis = [f \in Files |-> "PENDING"]
    /\ analyzing = <<>>
    /\ nextDep = [u \in Units |-> 1]
    /\ allOk = [u \in Units |-> TRUE]
    /\ imported = [u \in Units |-> {}]
    /\ own = [u \in Units |-> {}]

-----------------------------------------------------------------------------
Current == Head(analyzing)

DepIndex == nextDep[Current]

Dep == Body(Current).imports[DepIndex]

HasDep ==
    /\ analyzing # <<>>
    /\ DepIndex \in DOMAIN Body(Current).imports

DepResolved == DepIndex \in resolved[Current]

NextDep == nextDep' = [nextDep EXCEPT ![Current] = DepIndex + 1]

(* Mutant: the failure of an import is not remembered. *)
StillOk == UNCHANGED allOk

NotOk == allOk' = [allOk EXCEPT ![Current] = FALSE]

(* Mutant: imported functions are passed on to the importers. *)
VisibleWithImported(f) == (own[f] \cap src[f].public) \cup imported[f]

(* The functions of a module that its importers can see. *)
Visible(f) == own[f] \cap src[f].public

-----------------------------------------------------------------------------
(***************************************************************************)
(* analyze_module answers true, and import_public_symbols inserts the      *)
(* public, not itself imported, functions of the module: one that is       *)
(* already in the table (both count as definitions) is a redefinition      *)
(* error and is not inserted.  The table may be out of memory.             *)
(***************************************************************************)
DepImported ==
    /\ HasDep
    /\ DepResolved
    /\ analysis[Dep] = "DONE"
    /\ \/ /\ LogErrorIf(Visible(Dep) \cap imported[Current] # {})
          /\ imported' = [imported EXCEPT ![Current] = @ \cup Visible(Dep)]
       \/ /\ Faults
          /\ LogFatal
          /\ \E copied \in SUBSET Visible(Dep) :
                 imported' = [imported EXCEPT ![Current] = @ \cup copied]
    /\ NextDep
    /\ UNCHANGED <<src, state, resolved, analysis, analyzing, allOk, own>>

(***************************************************************************)
(* The import cannot be used, and nothing is logged about it here: it was  *)
(* not resolved, its module's analysis failed before, or the loader gave   *)
(* up on the module (which then fails its analysis too).                   *)
(***************************************************************************)
DepUnusable ==
    DepResolved => \/ analysis[Dep] = "FAILED"
                   \/ analysis[Dep] = "PENDING" /\ state[Dep] # "LOADED"

DepFailed ==
    /\ HasDep
    /\ DepUnusable
    /\ analysis' = IF DepResolved THEN [analysis EXCEPT ![Dep] = "FAILED"]
                   ELSE analysis
    /\ NotOk
    /\ NextDep
    /\ UNCHANGED <<src, log, state, resolved, analyzing, imported, own>>

(* Mutant: a module in progress is taken for an analysed one. *)
DepCyclicIgnored ==
    /\ HasDep
    /\ DepResolved
    /\ analysis[Dep] = "IN_PROGRESS"
    /\ NextDep
    /\ UNCHANGED <<src, log, state, resolved, analysis, analyzing, allOk, imported, own>>

(* The import leads back to a unit that is being analysed: a cyclic import. *)
DepCyclic ==
    /\ HasDep
    /\ DepResolved
    /\ analysis[Dep] = "IN_PROGRESS"
    /\ LogError
    /\ NotOk
    /\ NextDep
    /\ UNCHANGED <<src, state, resolved, analysis, analyzing, imported, own>>

(* analyze_module enters the module: a fresh table, then analyze_program. *)
DepEntered ==
    /\ HasDep
    /\ DepResolved
    /\ analysis[Dep] = "PENDING"
    /\ state[Dep] = "LOADED"
    /\ analysis' = [analysis EXCEPT ![Dep] = "IN_PROGRESS"]
    /\ analyzing' = <<Dep>> \o analyzing
    /\ UNCHANGED <<src, log, state, resolved, nextDep, allOk, imported, own>>

(***************************************************************************)
(* After the imports, the unit's statements: a function whose name came    *)
(* with an import is a redefinition.  Their errors are only logged; `ok',  *)
(* and so the module's verdict, is about its imports alone.  The program   *)
(* itself must have an entry point, unless it is compiled as a module.     *)
(***************************************************************************)
(* Mutant: imported names may be defined again. *)
StatementErrorsNoClash(u) ==
    \/ Body(u).health = "badBody"
    \/ u = Root /\ ~IsModule /\ Body(u).health = "noMain"

StatementErrors(u) ==
    \/ Defined(u) \cap imported[u] # {}
    \/ Body(u).health = "badBody"
    \/ u = Root /\ ~IsModule /\ Body(u).health = "noMain"

(* Mutants: a failed module stays in progress; every module is DONE. *)
VerdictOnlyIfOk(f) == IF allOk[f] THEN "DONE" ELSE analysis[f]
VerdictAlwaysDone(f) == "DONE"

VerdictOn(f) == IF allOk[f] THEN "DONE" ELSE "FAILED"

AnalyzeReturn ==
    /\ analyzing # <<>>
    /\ ~HasDep
    /\ \/ LogErrorIf(StatementErrors(Current))
       \/ Faults /\ LogFatal
    /\ own' = [own EXCEPT ![Current] = Defined(Current) \ imported[Current]]
    /\ analyzing' = Tail(analyzing)
    /\ analysis' = IF Current = Root THEN analysis
                   ELSE [analysis EXCEPT ![Current] = VerdictOn(Current)]
    /\ UNCHANGED <<src, state, resolved, nextDep, allOk, imported>>

AnalysisNext ==
    \/ DepImported
    \/ DepFailed
    \/ DepCyclic
    \/ DepEntered
    \/ AnalyzeReturn

=============================================================================
