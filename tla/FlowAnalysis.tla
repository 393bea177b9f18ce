------------------------------ MODULE FlowAnalysis ------------------------------
(***************************************************************************)
(* The statement analysis of semantic.c and the scopes of scope.c: names   *)
(* are resolved innermost first, and a flow analysis tracks which          *)
(* variables certainly have a value, so that no accepted program reads one *)
(* that has none.                                                          *)
(*                                                                         *)
(* The program is not given in advance: every step is one statement, or    *)
(* the beginning or end of one, in the order analyze_statement meets them. *)
(* Next to the analyser's state the model keeps one execution of the       *)
(* analysed function, as ir.c lays it out: which way each condition goes   *)
(* is chosen freely, `running' says whether control is here on the chosen  *)
(* path and `assigned' which variables that path gave a value.  One pass   *)
(* through a loop is enough: later passes only add to `assigned'.          *)
(***************************************************************************)
EXTENDS Naturals, Sequences, FiniteSets

CONSTANTS
    Names,            \* variable names
    Constant,         \* an expression that reads no variable
    NoValue,          \* no expression
    MaxSize,          \* bound: statements and openings in one program
    MaxNesting,       \* bound: constructs open at once
    NestedFunctions,  \* functions are declared inside functions, which the
                      \* parser lets pass
    PushFaults,       \* scope_push may be out of memory
    SaveFaults        \* scope_flow_save may be out of memory

ASSUME FlowAssumption ==
    /\ IsFiniteSet(Names)
    /\ Constant \notin Names /\ NoValue \notin Names /\ Constant # NoValue
    /\ MaxSize \in Nat /\ MaxNesting \in Nat
    /\ NestedFunctions \in BOOLEAN
    /\ PushFaults \in BOOLEAN /\ SaveFaults \in BOOLEAN

VARIABLES
    symbols,   \* the variables in scope, outermost scope first
    bases,     \* for each scope on the stack, the number of symbols outside it
    failed,    \* scope->failed_pushes
    nextId,    \* scope->next_id
    open,      \* the constructs being analysed, innermost first
    errors,    \* kinds of error in the log
    running,   \* the chosen execution is at this point
    assigned,  \* ids of the variables that execution gave a value
    size       \* statements so far

scopeVars == <<symbols, bases, failed, nextId>>
execution == <<running, assigned>>
vars == <<scopeVars, open, errors, execution, size>>

Symbol == [name : Names, id : Nat, mutable : BOOLEAN, initialized : BOOLEAN]

Kind == {"function", "block", "then", "else", "while"}

ErrorKind == {"undeclared", "uninitialized", "redeclared", "immutable",
              "return", "missing return", "out of memory"}

(***************************************************************************)
(* A construct under analysis.  Of the C locals: `before' and `afterThen'  *)
(* are sf_flow_states, `returns' is what stmt_always_returns finds so far  *)
(* in the construct's block.  Of the execution: `otherRuns' is whether it  *)
(* goes (went) on outside this block, `outerAssigned' what a function      *)
(* declared inside another hides.  Of the past, for what is said about     *)
(* scopes below: `outer' is how many variables were in scope when this     *)
(* block began, `lost' whether a scope_push for it failed.                 *)
(***************************************************************************)
Construct ==
    [kind : Kind, before : Seq(BOOLEAN), afterThen : Seq(BOOLEAN),
     returns : BOOLEAN, thenReturns : BOOLEAN, valued : BOOLEAN,
     params : SUBSET Names, otherRuns : BOOLEAN, outerAssigned : SUBSET Nat,
     outer : Nat, lost : BOOLEAN]

Plain ==
    [kind |-> "block", before |-> <<>>, afterThen |-> <<>>, returns |-> FALSE,
     thenReturns |-> FALSE, valued |-> FALSE, params |-> {},
     otherRuns |-> FALSE, outerAssigned |-> {}, outer |-> 0, lost |-> FALSE]

TypeOK ==
    /\ symbols \in Seq(Symbol)
    /\ bases \in Seq(Nat)
    /\ failed \in Nat
    /\ nextId \in Nat
    /\ open \in Seq(Construct)
    /\ errors \subseteq ErrorKind
    /\ running \in BOOLEAN
    /\ assigned \subseteq Nat
    /\ size \in 0 .. MaxSize

(* scope_init and the first scope_push of analyze_program. *)
Init ==
    /\ symbols = <<>>
    /\ bases = <<0>>
    /\ failed = 0
    /\ nextId = 0
    /\ open = <<>>
    /\ errors = {}
    /\ running = FALSE
    /\ assigned = {}
    /\ size = 0

-----------------------------------------------------------------------------
(* Scopes. *)

Named(n) == {i \in DOMAIN symbols : symbols[i].name = n}

Declared(n) == Named(n) # {}

(* scope_lookup: the innermost declaration. *)
Lookup(n) == CHOOSE i \in Named(n) : \A j \in Named(n) : j <= i

Outside(b) == IF b = <<>> THEN 0 ELSE b[Len(b)]

(* scope_insert looks for the name in the innermost scope only. *)
Redeclared(n) == \E i \in Named(n) : i > Outside(bases)

Pushes == IF PushFaults THEN BOOLEAN ELSE {TRUE}

OutOfMemory(ok) == IF ok THEN {} ELSE {"out of memory"}

(* scope_push *)
PushScope(ok) ==
    /\ bases' = IF ok THEN Append(bases, Len(symbols)) ELSE bases
    /\ failed' = IF ok THEN failed ELSE failed + 1
    /\ errors' = errors \cup OutOfMemory(ok)

(* A construct whose scope is pushed here. *)
Begun(c, ok) == [c EXCEPT !.outer = Len(symbols), !.lost = ~ok]

(* Mutant: a failed push is popped like any other. *)
PoppedAlways(s) ==
    IF s.bases = <<>> THEN s
    ELSE [s EXCEPT !.bases = SubSeq(s.bases, 1, Len(s.bases) - 1),
                   !.symbols = SubSeq(s.symbols, 1, Outside(s.bases))]

(* Mutant: the test for failed pushes is off by one. *)
PoppedTooOften(s) ==
    IF s.failed >= 0 THEN [s EXCEPT !.failed = s.failed - 1] ELSE s

(* scope_pop *)
Popped(s) ==
    IF s.failed > 0 THEN [s EXCEPT !.failed = s.failed - 1]
    ELSE IF s.bases = <<>> THEN s
    ELSE [s EXCEPT !.bases = SubSeq(s.bases, 1, Len(s.bases) - 1),
                   !.symbols = SubSeq(s.symbols, 1, Outside(s.bases))]

Scopes == [symbols |-> symbols, bases |-> bases, failed |-> failed]

ScopesBecome(s) ==
    /\ symbols' = s.symbols
    /\ bases' = s.bases
    /\ failed' = s.failed
    /\ UNCHANGED nextId

(* scope_flow_save; out of memory it returns no flags, and logs nothing. *)
Flags(syms) == [i \in DOMAIN syms |-> syms[i].initialized]

Saves(syms) == {Flags(syms)} \cup (IF SaveFaults THEN {<<>>} ELSE {})

(* scope_flow_restore: by position. *)
Restored(syms, flags) ==
    [i \in DOMAIN syms |->
        IF i \in DOMAIN flags THEN [syms[i] EXCEPT !.initialized = flags[i]]
        ELSE syms[i]]

(* scope_flow_fill *)
Filled(flags) == [i \in DOMAIN flags |-> TRUE]

(* Mutant: a value on either path will do. *)
MergedOr(flags, other) ==
    [i \in DOMAIN flags |->
        IF i \in DOMAIN other THEN flags[i] \/ other[i] ELSE flags[i]]

(* scope_flow_and *)
Merged(flags, other) ==
    [i \in DOMAIN flags |->
        IF i \in DOMAIN other THEN flags[i] /\ other[i] ELSE flags[i]]

-----------------------------------------------------------------------------
(* Expressions: reading e logs what is wrong with it, and the statement is  *)
(* then given up before it has any other effect.                            *)
ReadErrors(e) ==
    IF e \in {Constant, NoValue} THEN {}
    ELSE IF ~Declared(e) THEN {"undeclared"}
    ELSE IF ~symbols[Lookup(e)].initialized THEN {"uninitialized"}
    ELSE {}

Expressions == Names \cup {Constant}

InFunction == open # <<>>

(* The function that current_func points at. *)
CurrentFunction ==
    open[CHOOSE i \in DOMAIN open :
            /\ open[i].kind = "function"
            /\ \A j \in DOMAIN open : open[j].kind = "function" => i <= j]

Statement ==
    /\ InFunction
    /\ size < MaxSize
    /\ size' = size + 1

Opening == Len(open) < MaxNesting

(* What stmt_always_returns finds in a block once a statement of it returns. *)
Returning(constructs) ==
    IF constructs = <<>> THEN <<>>
    ELSE [constructs EXCEPT ![1].returns = TRUE]

-----------------------------------------------------------------------------
(* analyze_var_decl *)
Declare(n, mutable, e) ==
    /\ Statement
    /\ LET wrong == IF n \in CurrentFunction.params THEN {"redeclared"}
                    ELSE IF ReadErrors(e) # {} THEN ReadErrors(e)
                    ELSE IF Redeclared(n) THEN {"redeclared"}
                    ELSE {}
       IN  /\ errors' = errors \cup wrong
           /\ IF wrong = {} /\ bases # <<>>
              THEN /\ symbols' = Append(symbols,
                                    [name |-> n, id |-> nextId, mutable |-> mutable,
                                     initialized |-> e # NoValue])
                   /\ nextId' = nextId + 1
                   /\ assigned' = IF running /\ e # NoValue THEN assigned \cup {nextId}
                                  ELSE assigned
              ELSE UNCHANGED <<symbols, nextId, assigned>>
    /\ UNCHANGED <<bases, failed, open, running>>

(* analyze_var_assign *)
Assign(n, e) ==
    /\ Statement
    /\ LET wrong == IF ~Declared(n) THEN {"undeclared"} ELSE ReadErrors(e)
       IN  IF wrong # {}
           THEN /\ errors' = errors \cup wrong
                /\ UNCHANGED <<symbols, assigned>>
           ELSE LET i == Lookup(n)
                IN  /\ errors' = IF symbols[i].mutable THEN errors
                                 ELSE errors \cup {"immutable"}
                    /\ symbols' = [symbols EXCEPT ![i].initialized = TRUE]
                    /\ assigned' = IF running THEN assigned \cup {symbols[i].id}
                                   ELSE assigned
    /\ UNCHANGED <<bases, failed, nextId, open, running>>

(* analyze_return *)
Return(e) ==
    /\ Statement
    /\ errors' = errors \cup
           (IF e = NoValue THEN IF CurrentFunction.valued THEN {"return"} ELSE {}
            ELSE IF ReadErrors(e) # {} THEN ReadErrors(e)
            ELSE IF CurrentFunction.valued THEN {} ELSE {"return"})
    /\ running' = FALSE
    /\ open' = Returning(open)
    /\ UNCHANGED <<scopeVars, assigned>>

-----------------------------------------------------------------------------
(* analyze_block *)
OpenBlock ==
    /\ Statement
    /\ Opening
    /\ \E ok \in Pushes :
           /\ PushScope(ok)
           /\ open' = <<Begun(Plain, ok)>> \o open
    /\ UNCHANGED <<symbols, nextId, execution>>

CloseBlock ==
    /\ InFunction
    /\ Head(open).kind = "block"
    /\ ScopesBecome(Popped(Scopes))
    /\ open' = IF Head(open).returns THEN Returning(Tail(open)) ELSE Tail(open)
    /\ UNCHANGED <<errors, execution, size>>

(* A condition that cannot be read: the branches are not looked at. *)
ConditionFails(e) ==
    /\ ReadErrors(e) # {}
    /\ errors' = errors \cup ReadErrors(e)
    /\ UNCHANGED <<scopeVars, open, execution>>

(* analyze_if; `taken' is what the condition is in the chosen execution. *)
OpenIf(e, taken) ==
    /\ Statement
    /\ \/ ConditionFails(e)
       \/ /\ ReadErrors(e) = {}
          /\ Opening
          /\ \E ok \in Pushes, before \in Saves(symbols) :
                 /\ PushScope(ok)
                 /\ open' = <<Begun([Plain EXCEPT !.kind = "then", !.before = before,
                                        !.otherRuns = running /\ ~taken], ok)>> \o open
          /\ running' = (running /\ taken)
          /\ UNCHANGED <<symbols, nextId, assigned>>

(* The flags that a branch ends with, `syms' being the variables outside it. *)
BranchEnds(syms, returns) ==
    {IF returns THEN Filled(f) ELSE f : f \in Saves(syms)}

(* The then branch ends and the else branch begins. *)
Else ==
    /\ InFunction
    /\ Head(open).kind = "then"
    /\ LET c == Head(open)
           s == Popped(Scopes)
           syms == Restored(s.symbols, c.before)
       IN  \E afterThen \in BranchEnds(s.symbols, c.returns), ok \in Pushes :
              /\ symbols' = syms
              /\ bases' = IF ok THEN Append(s.bases, Len(syms)) ELSE s.bases
              /\ failed' = IF ok THEN s.failed ELSE s.failed + 1
              /\ errors' = errors \cup OutOfMemory(ok)
              /\ open' = <<[c EXCEPT !.kind = "else", !.afterThen = afterThen,
                                     !.returns = FALSE, !.thenReturns = c.returns,
                                     !.otherRuns = running, !.outer = Len(syms),
                                     !.lost = ~ok]>> \o Tail(open)
              /\ running' = c.otherRuns
    /\ UNCHANGED <<nextId, assigned, size>>

(* The flags after both branches are those that both agree on. *)
EndIf(s, afterThen, afterElse, returns) ==
    /\ ScopesBecome([s EXCEPT !.symbols =
                         Restored(s.symbols, Merged(afterThen, afterElse))])
    /\ open' = IF returns THEN Returning(Tail(open)) ELSE Tail(open)
    /\ running' = (running \/ Head(open).otherRuns)
    /\ UNCHANGED <<errors, assigned, size>>

CloseThen ==
    /\ InFunction
    /\ Head(open).kind = "then"
    /\ LET c == Head(open)
           s == Popped(Scopes)
           restored == [s EXCEPT !.symbols = Restored(s.symbols, c.before)]
       IN  \E afterThen \in BranchEnds(s.symbols, c.returns) :
           \E afterElse \in Saves(restored.symbols) :
              EndIf(restored, afterThen, afterElse, FALSE)

(* Mutant: one branch that returns is enough. *)
EitherReturns(c) == c.thenReturns \/ c.returns

(* stmt_always_returns of an if with an else. *)
BothReturn(c) == c.thenReturns /\ c.returns

CloseElse ==
    /\ InFunction
    /\ Head(open).kind = "else"
    /\ LET c == Head(open)
           s == Popped(Scopes)
       IN  \E afterElse \in BranchEnds(s.symbols, c.returns) :
              EndIf(s, c.afterThen, afterElse, BothReturn(c))

(* analyze_while *)
OpenWhile(e, entered) ==
    /\ Statement
    /\ \/ ConditionFails(e)
       \/ /\ ReadErrors(e) = {}
          /\ Opening
          /\ \E ok \in Pushes, before \in Saves(symbols) :
                 /\ PushScope(ok)
                 /\ open' = <<Begun([Plain EXCEPT !.kind = "while", !.before = before,
                                        !.otherRuns = running /\ ~entered], ok)>> \o open
          /\ running' = (running /\ entered)
          /\ UNCHANGED <<symbols, nextId, assigned>>

(* Mutant: what the body assigned counts after the loop. *)
AfterLoopKept(syms, before) == syms

AfterLoop(syms, before) == Restored(syms, before)

CloseWhile ==
    /\ InFunction
    /\ Head(open).kind = "while"
    /\ LET s == Popped(Scopes)
       IN  ScopesBecome([s EXCEPT !.symbols = AfterLoop(s.symbols, Head(open).before)])
    /\ open' = Tail(open)
    /\ running' = (running \/ Head(open).otherRuns)
    /\ UNCHANGED <<errors, assigned, size>>

-----------------------------------------------------------------------------
(***************************************************************************)
(* analyze_func_decl: a scope for the parameters, which are initialized,   *)
(* and one for the body.  The execution now chosen is one of this          *)
(* function, in a stack frame of its own (add_function, sf_stack_populate) *)
(* that holds a value for its parameters (all `mut' here) and for nothing   *)
(* else.                                                                   *)
(***************************************************************************)
OpenFunction(params, valued) ==
    /\ size < MaxSize
    /\ size' = size + 1
    /\ Opening
    /\ InFunction => NestedFunctions
    /\ \E ok1, ok2 \in Pushes :
       LET new == IF ok1 THEN params ELSE {n \in params : ~Redeclared(n)}
           ids == nextId .. nextId + Cardinality(new) - 1
           order == CHOOSE f \in [ids -> new] : {f[i] : i \in ids} = new
           syms == symbols \o
               [i \in 1 .. Cardinality(new) |->
                   [name |-> order[nextId + i - 1], id |-> nextId + i - 1,
                    mutable |-> TRUE, initialized |-> TRUE]]
       IN  /\ symbols' = syms
           /\ nextId' = nextId + Cardinality(new)
           /\ assigned' = ids
           /\ bases' = bases \o (IF ok1 THEN <<Len(symbols)>> ELSE <<>>)
                            \o (IF ok2 THEN <<Len(syms)>> ELSE <<>>)
           /\ failed' = failed + Cardinality({k \in {1, 2} : ~(<<ok1, ok2>>[k])})
           /\ errors' = errors \cup OutOfMemory(ok1 /\ ok2)
           /\ open' = <<Begun([Plain EXCEPT !.kind = "function", !.valued = valued,
                                  !.params = params, !.otherRuns = running,
                                  !.outerAssigned = assigned], ok1 /\ ok2)>> \o open
    /\ running' = TRUE

(* The test for a missing return, between the two scope_pops. *)
CloseFunction ==
    /\ InFunction
    /\ Head(open).kind = "function"
    /\ ScopesBecome(Popped(Popped(Scopes)))
    /\ errors' = IF Head(open).valued /\ ~Head(open).returns
                 THEN errors \cup {"missing return"} ELSE errors
    /\ open' = Tail(open)
    /\ running' = Head(open).otherRuns
    /\ assigned' = Head(open).outerAssigned
    /\ UNCHANGED size

EndOfProgram ==
    /\ ~InFunction
    /\ UNCHANGED vars

Next ==
    \/ \E n \in Names, mutable \in BOOLEAN, e \in Expressions \cup {NoValue} :
           Declare(n, mutable, e)
    \/ \E n \in Names, e \in Expressions : Assign(n, e)
    \/ \E e \in Expressions \cup {NoValue} : Return(e)
    \/ OpenBlock
    \/ CloseBlock
    \/ \E e \in Expressions, taken \in BOOLEAN : OpenIf(e, taken)
    \/ Else
    \/ CloseThen
    \/ CloseElse
    \/ \E e \in Expressions, entered \in BOOLEAN : OpenWhile(e, entered)
    \/ CloseWhile
    \/ \E params \in SUBSET Names, valued \in BOOLEAN : OpenFunction(params, valued)
    \/ CloseFunction
    \/ EndOfProgram

Spec == Init /\ [][Next]_vars

-----------------------------------------------------------------------------
(***************************************************************************)
(* FlowIsSound: where control can be, every variable that the analysis     *)
(* takes for initialized has a value on the path that led there, whichever *)
(* way the conditions went: no accepted read (analyze_identifier) finds an *)
(* uninitialized variable.                                                 *)
(***************************************************************************)
FlowIsSound ==
    errors = {} /\ running =>
        \A i \in DOMAIN symbols : symbols[i].initialized => symbols[i].id \in assigned

(***************************************************************************)
(* FunctionsReturn: control never runs off the end of a function with a    *)
(* return type, unless a missing return was reported (stmt_always_returns  *)
(* and the test in analyze_func_decl).                                     *)
(***************************************************************************)
FunctionsReturn ==
    [][CloseFunction /\ Head(open).valued /\ "missing return" \notin errors'
         => ~running]_vars

(***************************************************************************)
(* VariablesKeepTheirScope: scope_pop first makes up for a scope_push that *)
(* failed, whosever it was, so it may leave a scope to a later pop.  But   *)
(* it never takes one too early: the variables that were in scope when a   *)
(* construct began still are, in their places, as long as it is open and   *)
(* when it ends.  And where no push failed for it or for a construct       *)
(* around it, no others are left then, whatever failed inside it.  So flow *)
(* states, which are restored by position, meet the variables they were    *)
(* saved for.                                                              *)
(***************************************************************************)
StillInScope(n) ==
    n <= Len(symbols') /\ \A i \in 1 .. n : symbols'[i].id = symbols[i].id

(* The innermost construct ends, or its then branch does. *)
Ends ==
    \/ Len(open') < Len(open)
    \/ Len(open') = Len(open) /\ InFunction /\ Head(open').kind # Head(open).kind

KeepsVariables ==
    /\ \A i \in DOMAIN open : StillInScope(open[i].outer)
    /\ Ends /\ (\A i \in DOMAIN open : ~open[i].lost)
       => Len(symbols') = Head(open).outer

VariablesKeepTheirScope == [][KeepsVariables]_vars

=============================================================================
