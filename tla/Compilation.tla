------------------------------ MODULE Compilation ------------------------------
(***************************************************************************)
(* The compiler driver (main.c) with the module loader and the semantic    *)
(* driver it calls: main parses the flags and compilation_run takes the    *)
(* program through its stages, giving up after the first stage that left   *)
(* an error in the log.  Only the last stage touches the output file.      *)
(***************************************************************************)
EXTENDS ModuleLoader, ModuleAnalysis

VARIABLES
    stage,    \* the stage compilation_run is at; "done" and "failed" are the
              \* two exit codes
    output    \* the output file: as the run found it, or holding (part of)
              \* the assembly of this run

vars == <<inputs, log, stage, output, loaderVars, analysisVars>>

Stage == {"flags", "frontend", "resolve", "analyze", "codegen", "write",
          "done", "failed"}

TypeOK ==
    /\ InputTypeOK
    /\ log \in Severity
    /\ stage \in Stage
    /\ output \in {"previous", "partial", "complete"}
    /\ LoaderTypeOK
    /\ AnalysisTypeOK

Init ==
    /\ InputInit
    /\ log = "clean"
    /\ stage = "flags"
    /\ output = "previous"
    /\ LoaderInit
    /\ AnalysisInit

-----------------------------------------------------------------------------
(* Every stage ends in the same test of the log. *)
(* Mutant: the test is for fatal errors only. *)
EnterUnlessFatal(next) == stage' = IF log' # "fatal" THEN next ELSE "failed"

Enter(next) == stage' = IF log' = "clean" THEN next ELSE "failed"

(***************************************************************************)
(* main: the flags, the standard library's search directory, and, for a    *)
(* module, the test that its file lies in a search directory.              *)
(***************************************************************************)
(* Mutant: the input file of a module may lie anywhere. *)
RejectsBadFlags == cmdline = "badFlag"

RejectsCommandLine ==
    \/ cmdline = "badFlag"
    \/ cmdline = "outsidePath" /\ IsModule

ParseFlags ==
    /\ stage = "flags"
    /\ \/ log' = IF RejectsCommandLine THEN "fatal" ELSE log
       \/ Faults /\ LogFatal
    /\ Enter("frontend")
    /\ UNCHANGED <<inputs, output, loaderVars, analysisVars>>

(* The program's own file is read, preprocessed, tokenized and parsed. *)
ParseProgram ==
    /\ stage = "frontend"
    /\ \/ LogErrorIf(Body(Root).health = "malformed")
       \/ Faults /\ LogFatal
    /\ Enter("resolve")
    /\ loading' = IF stage' = "resolve" THEN <<Root>> ELSE loading
    /\ UNCHANGED <<inputs, output, state, nextImport, resolved, analysisVars>>

LoadModules ==
    /\ stage = "resolve"
    /\ LoaderNext
    /\ UNCHANGED <<setting, cmdline, stage, output, analysisVars>>

ResolveDone ==
    /\ stage = "resolve"
    /\ loading = <<>>
    /\ UNCHANGED log
    /\ Enter("analyze")
    /\ analyzing' = IF stage' = "analyze" THEN <<Root>> ELSE analyzing
    /\ UNCHANGED <<inputs, output, loaderVars, analysis, nextDep, allOk,
                   imported, own>>

AnalyzeModules ==
    /\ stage = "analyze"
    /\ AnalysisNext
    /\ UNCHANGED <<setting, cmdline, stage, output, loading, nextImport>>

(* compilation_run ignores what sf_analyze returns and tests the log instead. *)
AnalyzeDone ==
    /\ stage = "analyze"
    /\ analyzing = <<>>
    /\ UNCHANGED log
    /\ Enter("codegen")
    /\ UNCHANGED <<inputs, output, loaderVars, analysisVars>>

(* sf_ir_generate, sf_optimize and sf_generate_assembly, each with its test. *)
Generate ==
    /\ stage = "codegen"
    /\ \/ UNCHANGED log
       \/ Faults /\ LogFatal
    /\ Enter("write")
    /\ UNCHANGED <<inputs, output, loaderVars, analysisVars>>

(***************************************************************************)
(* sf_file_write: its result is the exit code.  It fails when the file     *)
(* cannot be opened; what fwrite and fclose return is not looked at.       *)
(***************************************************************************)
WriteOutput ==
    /\ stage = "write"
    /\ \/ /\ output' = "complete"
          /\ stage' = "done"
          /\ UNCHANGED log
       \/ /\ Faults
          /\ LogFatal
          /\ stage' = "failed"
          /\ UNCHANGED output
       \/ /\ Faults
          /\ output' = "partial"
          /\ stage' = "done"
          /\ UNCHANGED log
    /\ UNCHANGED <<inputs, loaderVars, analysisVars>>

Terminated ==
    /\ stage \in {"done", "failed"}
    /\ UNCHANGED vars

Step ==
    \/ ParseFlags
    \/ ParseProgram
    \/ LoadModules
    \/ ResolveDone
    \/ AnalyzeModules
    \/ AnalyzeDone
    \/ Generate
    \/ WriteOutput

Next == Step \/ Terminated

(* One thread runs the compiler to its end: it is never merely suspended. *)
Spec == Init /\ [][Next]_vars /\ WF_vars(Step)

-----------------------------------------------------------------------------
(***************************************************************************)
(* AnalysisSeesLoadedModules: once resolution has passed its test of the   *)
(* log, every unit that can be analysed has every import resolved, to a    *)
(* module that is LOADED.  The branches of analyze_program and             *)
(* analyze_module for unresolved imports and unloaded modules log nothing, *)
(* so the compiler is only right if they are never taken.                  *)
(***************************************************************************)
AnalysisSeesLoadedModules ==
    stage \in {"analyze", "codegen", "write", "done"} =>
        \A u \in {Root} \cup {f \in Files : state[f] # "UNLOADED"} :
            /\ u \in Files => state[u] = "LOADED"
            /\ resolved[u] = DOMAIN Body(u).imports
            /\ \A f \in Imports(u) : f \in Files /\ state[f] = "LOADED"

(***************************************************************************)
(* InProgressIsOnStack: the modules whose analysis is IN_PROGRESS are      *)
(* those with an activation of analyze_program, each with one.  "In        *)
(* progress" then means "imports, directly or not, the current unit",      *)
(* which is what makes the report of a cycle correct.                      *)
(***************************************************************************)
OneActivationEach(stack) ==
    /\ \A i, j \in DOMAIN stack : i # j => stack[i] # stack[j]
    /\ \A i \in DOMAIN stack : stack[i] = Root <=> i = Len(stack)

InProgressIsOnStack ==
    /\ \A f \in Files :
           analysis[f] = "IN_PROGRESS" <=>
               \E i \in DOMAIN analyzing : analyzing[i] = f
    /\ OneActivationEach(analyzing)

(***************************************************************************)
(* DoneIsClosed: a module is DONE only when everything it imports is       *)
(* (semantic.c folds the verdicts of the imports into `ok').               *)
(***************************************************************************)
DoneModules == {f \in Files : analysis[f] = "DONE"}

DoneIsClosed == \A f \in DoneModules : Imports(f) \subseteq DoneModules

(***************************************************************************)
(* DoneIsAcyclic: no module of an import cycle is ever DONE, whichever     *)
(* module the walk met the cycle at.                                       *)
(***************************************************************************)
DoneIsAcyclic == Acyclic(DoneModules)

(***************************************************************************)
(* VerdictIsLogged: compilation_run throws the result of sf_analyze away   *)
(* and tests the log.  That is sound only if every path that makes a       *)
(* verdict false has an error behind it.                                   *)
(***************************************************************************)
VerdictIsLogged ==
    (\E u \in Units : ~allOk[u]) \/ (\E f \in Files : analysis[f] = "FAILED")
        => HadErrors

(***************************************************************************)
(* ImportsAreDirect: a unit sees the public functions of the modules it    *)
(* imports itself and never those that only its imports import             *)
(* (import_public_symbols skips the symbols that are themselves imported). *)
(***************************************************************************)
ImportsAreDirect ==
    \A u \in Units :
        imported[u] \subseteq UNION {src[f].public : f \in Imports(u) \cap Files}

(***************************************************************************)
(* NothingBuiltOnACycle: code is generated only for programs whose import  *)
(* graph has no cycle and no missing file.                                 *)
(***************************************************************************)
NothingBuiltOnACycle ==
    stage \in {"codegen", "write", "done"} =>
        /\ Acyclic(Reachable)
        /\ \A u \in Reachable \cup {Root} : NotFound \notin Imports(u)

(***************************************************************************)
(* The inductive invariant behind the properties above.  The loop counter  *)
(* of an activation says how much of its work is done: an import that was  *)
(* passed is resolved and listed (if nothing was logged), and a module     *)
(* that was passed with `ok' still true is DONE.  A unit is finished when  *)
(* its counter has left its imports.                                       *)
(***************************************************************************)
Loaded(u)   == nextImport[u] \notin DOMAIN Body(u).imports
Analyzed(u) == nextDep[u] \notin DOMAIN Body(u).imports

LoadingIsOnStack ==
    /\ \A f \in Files :
           state[f] = "LOADING" <=> \E i \in DOMAIN loading : loading[i] = f
    /\ OneActivationEach(loading)

LoaderProgress ==
    /\ \A u \in Units : \A i \in resolved[u] :
           i \in DOMAIN Body(u).imports /\ Body(u).imports[i] \in Files
    /\ \A f \in Files : state[f] = "LOADED" => Loaded(f)
    /\ \A f \in Files : state[f] = "FAILED" => HadErrors
    /\ ~HadErrors =>
           \A u \in Units : \A i \in DOMAIN Body(u).imports :
               i < nextImport[u] =>
                   /\ i \in resolved[u]
                   /\ Body(u).imports[i] \in Files
                   /\ state[Body(u).imports[i]] # "UNLOADED"

AnalysisProgress ==
    /\ \A u \in Units : allOk[u] =>
           \A i \in DOMAIN Body(u).imports :
               i < nextDep[u] => Body(u).imports[i] \in DoneModules
    /\ \A f \in DoneModules : allOk[f] /\ Analyzed(f)
    /\ \A f \in Files : analysis[f] # "PENDING" => state[f] = "LOADED"

StageProgress ==
    /\ stage \in {"flags", "frontend"} => loading = <<>> /\ analyzing = <<>>
    /\ stage = "resolve" => analyzing = <<>>
    /\ stage = "resolve" /\ loading = <<>> /\ ~HadErrors => Loaded(Root)
    /\ stage \in {"analyze", "codegen", "write", "done"} => loading = <<>>
    /\ stage = "analyze" /\ analyzing = <<>> => Analyzed(Root)
    /\ stage \in {"codegen", "write", "done"} =>
           analyzing = <<>> /\ Analyzed(Root) /\ ~HadErrors

IInv ==
    /\ TypeOK
    /\ LoadingIsOnStack
    /\ LoaderProgress
    /\ InProgressIsOnStack
    /\ AnalysisProgress
    /\ StageProgress
    /\ AnalysisSeesLoadedModules
    /\ VerdictIsLogged
    /\ DoneIsAcyclic

(***************************************************************************)
(* LoadedOnce: what the loader decided about a module stands: it is never  *)
(* loaded again, so the tree that an import points at is never replaced.   *)
(***************************************************************************)
LoadedOnce ==
    [][\A f \in Files : state[f] \in {"LOADED", "FAILED"} => state'[f] = state[f]]_state

(***************************************************************************)
(* Terminates: both walks of the import graph end, cyclic or not, and the  *)
(* compiler exits.                                                         *)
(***************************************************************************)
Terminates == <>(stage \in {"done", "failed"})

(***************************************************************************)
(* ImplementsContract: the two depth-first walks, the log and the stages   *)
(* decide as the contract says.                                            *)
(***************************************************************************)
verdict == CASE stage = "done"   -> "accepted"
             [] stage = "failed" -> "rejected"
             [] OTHER            -> "pending"

Contract == INSTANCE CompilerContract WITH verdict <- verdict

ImplementsContract == Contract!Spec

=============================================================================
