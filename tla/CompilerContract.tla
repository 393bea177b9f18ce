--------------------------- MODULE CompilerContract ---------------------------
(***************************************************************************)
(* What one run of the compiler promises, whatever walks of the import     *)
(* graph it makes: it decides, and it accepts exactly the programs that    *)
(* are acceptable.  Only an accepted run touches the output file.          *)
(***************************************************************************)
EXTENDS SourceFiles

VARIABLES verdict, output

contractVars == <<inputs, verdict, output>>

RejectedCommandLine ==
    \/ cmdline = "badFlag"
    \/ cmdline = "outsidePath" /\ IsModule

(* The functions a unit defines and those it imports all differ in name. *)
NoNameClash(u) ==
    LET imp == Body(u).imports
    IN  /\ \A i, j \in DOMAIN imp :
               i # j => src[imp[i]].public \cap src[imp[j]].public = {}
        /\ \A i \in DOMAIN imp : src[imp[i]].public \cap Defined(u) = {}

Correct(u) ==
    /\ NotFound \notin Imports(u)
    /\ NoNameClash(u)
    /\ Body(u).health \in {"ok", "noMain"}

Acceptable ==
    /\ ~RejectedCommandLine
    /\ \A u \in Reachable \cup {Root} : Correct(u)
    /\ ~IsModule => Body(Root).health # "noMain"
    /\ Acyclic(Reachable)

Init ==
    /\ InputInit
    /\ verdict = "pending"
    /\ output = "previous"

(* Whether the output is complete, only a run without faults can promise. *)
Accept ==
    /\ verdict = "pending"
    /\ Acceptable
    /\ verdict' = "accepted"
    /\ output' \in {"complete"} \cup (IF Faults THEN {"partial"} ELSE {})
    /\ UNCHANGED inputs

Reject ==
    /\ verdict = "pending"
    /\ Acceptable => Faults
    /\ verdict' = "rejected"
    /\ UNCHANGED <<inputs, output>>

Decide == Accept \/ Reject

Spec == Init /\ [][Decide]_contractVars /\ WF_contractVars(Decide)

=============================================================================
