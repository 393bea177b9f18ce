--------------------------- MODULE CompilationState ---------------------------
(***************************************************************************)
(* What the stages of one run of the compiler share: the process-wide log, *)
(* whose error and fatal flags every stage consults, and the module list   *)
(* that the loader fills and the semantic driver reads.                    *)
(***************************************************************************)
EXTENDS SourceFiles

VARIABLES
    log,      \* what the global log has recorded: nothing, errors, or a fatal
    state,    \* sf_module.state; "UNLOADED" also means: not in the module list
    resolved  \* the import nodes of each unit that have .resolved set

Severity == {"clean", "errors", "fatal"}

ModuleState == {"UNLOADED", "LOADING", "LOADED", "FAILED"}

(* The log: errors and fatals only accumulate, nothing clears them. *)

HadErrors == log # "clean"
HadFatal  == log = "fatal"

Logged(sev) == IF HadFatal THEN "fatal" ELSE sev

(* Mutant: the message is only a warning. *)
LogWarning    == UNCHANGED log
LogError      == log' = Logged("errors")
LogFatal      == log' = "fatal"
LogErrorIf(b) == log' = IF b THEN Logged("errors") ELSE log

=============================================================================
