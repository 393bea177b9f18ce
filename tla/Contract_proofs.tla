---------------------------- MODULE Contract_proofs ----------------------------
(***************************************************************************)
(* Compilation implements the safety half of CompilerContract, for any     *)
(* files, import graph and names: the two walks, the log and the stages    *)
(* accept only acceptable programs, and reject an acceptable one only when *)
(* something else fails.                                                   *)
(***************************************************************************)
EXTENDS Compilation_proofs

(* What is listed, or on either call stack, is imported by the program.    *)
ListedIsReachable == \A f \in Files : state[f] # "UNLOADED" => f \in Reachable

(* Each activation of analyze_program is for an import of the one below.   *)
StackIsPath ==
    \A i \in DOMAIN analyzing : i > 1 => analyzing[i - 1] \in Imports(analyzing[i])

(* The i-th import of u has been passed, and is a file.                    *)
Passed(u, i) ==
    /\ i \in DOMAIN Body(u).imports
    /\ i < nextDep[u]
    /\ Body(u).imports[i] \in Files

Public(u, i) == src[Body(u).imports[i]].public

(* Imported names come from imports that were passed.                      *)
ImportedWasPassed ==
    \A u \in Units : \A n \in imported[u] : \E i \in Nat : Passed(u, i) /\ n \in Public(u, i)

(* An error in the log has a reason that the contract knows.               *)
RejectionIsDue == HadErrors => ~Contract!Acceptable \/ Faults

(* While the log is clean, what was passed was correct: the command line,  *)
(* the files that were parsed, the imports and the statements.             *)
CommandLinePassed == stage # "flags" => ~RejectsCommandLine

SourcesPassed ==
    /\ stage \notin {"flags", "frontend"} => Body(Root).health # "malformed"
    /\ \A f \in Files : state[f] # "UNLOADED" => src[f].health # "malformed"

ImportsPassed ==
    \A u \in Units :
        /\ \A i \in Nat : Passed(u, i) => Public(u, i) \subseteq imported[u]
        /\ \A i, j \in Nat : Passed(u, i) /\ Passed(u, j) /\ i # j =>
               Public(u, i) \cap Public(u, j) = {}

Finished(u) ==
    \/ u \in DoneModules
    \/ u = Root /\ stage \in {"analyze", "codegen", "write", "done"} /\ analyzing = <<>>

StatementsPassed ==
    \A u \in Units : Finished(u) => ~StatementErrors(u) /\ own[u] = Defined(u)

CleanIsCorrect ==
    ~HadErrors =>
        /\ CommandLinePassed
        /\ SourcesPassed
        /\ ImportsPassed
        /\ StatementsPassed

CInv ==
    /\ ListedIsReachable
    /\ StackIsPath
    /\ ImportedWasPassed
    /\ RejectionIsDue
    /\ CleanIsCorrect

-----------------------------------------------------------------------------
(* The contract reads the same files as the compiler.                      *)
LEMMA ContractReads ==
    /\ \A u : /\ Contract!Body(u) = Body(u)
             /\ Contract!Imports(u) = Imports(u)
             /\ Contract!Defined(u) = Defined(u)
    /\ Contract!Reachable = Reachable
    /\ \A S : Contract!Acyclic(S) <=> Acyclic(S)
    /\ Contract!RejectedCommandLine <=> RejectsCommandLine
    /\ Contract!IsModule = IsModule /\ Contract!Faults = Faults
<1>1. \A u : Contract!Body(u) = Body(u)
  BY DEF Contract!Body, Body
<1>2. \A u : Contract!Imports(u) = Imports(u) /\ Contract!Defined(u) = Defined(u)
  BY <1>1 DEF Contract!Imports, Imports, Contract!Defined, Defined
<1>3. Contract!Reachable = Reachable
  BY <1>2 DEF Contract!Reachable, Reachable
<1>4. \A S : Contract!Acyclic(S) <=> Acyclic(S)
  BY <1>2 DEF Contract!Acyclic, Acyclic
<1>5. Contract!IsModule = IsModule /\ Contract!Faults = Faults
  BY DEF Contract!IsModule, IsModule, Contract!Faults, Faults
<1>6. Contract!RejectedCommandLine <=> RejectsCommandLine
  BY <1>5 DEF Contract!RejectedCommandLine, RejectsCommandLine
<1> QED
  BY <1>1, <1>2, <1>3, <1>4, <1>5, <1>6

(* What the compiler reads stays.                                          *)
LEMMA InputsStay ==
    ASSUME [Next]_vars
    PROVE  UNCHANGED inputs
BY DEF Next, Step, Terminated, vars, inputs, ParseFlags, ParseProgram, LoadModules,
       ResolveDone, AnalyzeModules, AnalyzeDone, Generate, WriteOutput, LoaderNext,
       ImportNotFound, ImportOutOfMemory, ImportKnown, ImportRejected, ImportEntered,
       LoadReturn, AnalysisNext, DepImported, DepFailed, DepCyclic, DepEntered,
       AnalyzeReturn

LEMMA SourcesStay ==
    ASSUME UNCHANGED inputs
    PROVE  /\ \A u : /\ Body(u)' = Body(u)
                    /\ Imports(u)' = Imports(u)
                    /\ Defined(u)' = Defined(u)
           /\ \A u, i : Public(u, i)' = Public(u, i)
           /\ Reachable' = Reachable
           /\ RejectsCommandLine' <=> RejectsCommandLine
           /\ IsModule' = IsModule /\ Faults' = Faults
<1> USE DEF inputs
<1>1. \A u : Body(u)' = Body(u)
  BY DEF Body
<1>2. \A u : Imports(u)' = Imports(u) /\ Defined(u)' = Defined(u)
  BY <1>1 DEF Imports, Defined
<1>3. \A u, i : Public(u, i)' = Public(u, i)
  BY <1>1 DEF Public
<1>4. Reachable' = Reachable
  BY <1>2 DEF Reachable
<1>5. RejectsCommandLine' <=> RejectsCommandLine
  BY DEF RejectsCommandLine, IsModule
<1> QED
  BY <1>1, <1>2, <1>3, <1>4, <1>5 DEF IsModule, Faults

LEMMA AcceptableStays ==
    ASSUME UNCHANGED inputs
    PROVE  Contract!Acceptable' <=> Contract!Acceptable
BY DEF inputs, Contract!Acceptable, Contract!RejectedCommandLine, Contract!Correct,
       Contract!NoNameClash, Contract!Acyclic, Contract!Reachable, Contract!Imports,
       Contract!Body, Contract!Defined, Contract!IsModule

(* What a reachable unit imports is reachable.                             *)
LEMMA ReachableIsClosed ==
    ASSUME NEW u \in Reachable \cup {Root}, NEW f \in Imports(u), f \in Files
    PROVE  f \in Reachable
BY DEF Reachable

-----------------------------------------------------------------------------
(* The reasons of the contract for a rejection.                            *)
LEMMA DefectIsUnacceptable ==
    ASSUME NEW u \in Reachable \cup {Root},
           \/ NotFound \in Imports(u)
           \/ Body(u).health \in {"malformed", "badBody"}
           \/ u = Root /\ ~IsModule /\ Body(u).health = "noMain"
    PROVE  ~Contract!Acceptable
BY ContractReads DEF Contract!Acceptable, Contract!Correct

LEMMA ClashIsUnacceptable ==
    ASSUME NEW u \in Reachable \cup {Root},
           NEW i \in DOMAIN Body(u).imports,
           \/ Public(u, i) \cap Defined(u) # {}
           \/ \E j \in DOMAIN Body(u).imports : i # j /\ Public(u, i) \cap Public(u, j) # {}
    PROVE  ~Contract!Acceptable
<1>1. ~Contract!NoNameClash(u)
  BY ContractReads DEF Contract!NoNameClash, Public
<1> QED
  BY <1>1, ContractReads DEF Contract!Acceptable, Contract!Correct

LEMMA CycleIsUnacceptable ==
    ASSUME NEW T \in SUBSET Reachable, T # {},
           \A f \in T : Imports(f) \cap T # {}
    PROVE  ~Contract!Acceptable
<1>1. ~Acyclic(Reachable)
  BY DEF Acyclic
<1> QED
  BY <1>1, ContractReads DEF Contract!Acceptable

LEMMA CommandLineIsUnacceptable ==
    ASSUME RejectsCommandLine
    PROVE  ~Contract!Acceptable
BY ContractReads DEF Contract!Acceptable

-----------------------------------------------------------------------------
(* What each part of the invariant depends on.                             *)
LEMMA PassedStays ==
    ASSUME UNCHANGED <<inputs, nextDep>>
    PROVE  \A u, i : Passed(u, i)' <=> Passed(u, i)
BY SourcesStay DEF Passed

LEMMA ListedStays ==
    ASSUME ListedIsReachable, UNCHANGED inputs, UNCHANGED state
    PROVE  ListedIsReachable'
BY SourcesStay DEF ListedIsReachable

LEMMA PathStays ==
    ASSUME StackIsPath, UNCHANGED inputs, UNCHANGED analyzing
    PROVE  StackIsPath'
BY SourcesStay DEF StackIsPath

LEMMA ImportedStays ==
    ASSUME ImportedWasPassed, UNCHANGED inputs, UNCHANGED <<imported, nextDep>>
    PROVE  ImportedWasPassed'
BY SourcesStay, PassedStays DEF ImportedWasPassed

LEMMA RejectionStays ==
    ASSUME RejectionIsDue, UNCHANGED inputs, HadErrors' => HadErrors
    PROVE  RejectionIsDue'
BY AcceptableStays, SourcesStay DEF RejectionIsDue

LEMMA RejectionIsNew ==
    ASSUME UNCHANGED inputs, ~Contract!Acceptable \/ Faults
    PROVE  RejectionIsDue'
BY AcceptableStays, SourcesStay DEF RejectionIsDue

LEMMA ImportsPassedStays ==
    ASSUME ImportsPassed, UNCHANGED inputs, UNCHANGED <<imported, nextDep>>
    PROVE  ImportsPassed'
BY SourcesStay, PassedStays DEF ImportsPassed

LEMMA StatementsPassedStays ==
    ASSUME StatementsPassed, UNCHANGED inputs, UNCHANGED <<imported, own>>,
           \A u \in Units : Finished(u)' => Finished(u)
    PROVE  StatementsPassed'
BY SourcesStay DEF StatementsPassed, StatementErrors

LEMMA ErrorsStay ==
    ASSUME IInv, [Next]_vars
    PROVE  HadErrors => HadErrors'
BY DEF Next, Step, Terminated, vars, ParseFlags, ParseProgram, LoadModules,
       ResolveDone, AnalyzeModules, AnalyzeDone, Generate, WriteOutput, LoaderNext,
       ImportNotFound, ImportOutOfMemory, ImportKnown, ImportRejected, ImportEntered,
       LoadReturn, AnalysisNext, DepImported, DepFailed, DepCyclic, DepEntered,
       AnalyzeReturn, HadErrors, HadFatal, LogError, LogErrorIf, LogFatal, Logged

(* A step without effect on the tables keeps the invariant if it explains  *)
(* the errors that it logs.                                                *)
LEMMA UnchangedTables ==
    ASSUME CInv, UNCHANGED <<inputs, imported, own, nextDep, analysis>>,
           HadErrors => HadErrors',
           \A u \in Units : Finished(u)' => Finished(u)
    PROVE  /\ ImportedWasPassed'
           /\ ~HadErrors' => ImportsPassed' /\ StatementsPassed'
BY ImportedStays, ImportsPassedStays, StatementsPassedStays DEF CInv, CleanIsCorrect

LEMMA ContractInit == Init => CInv
<1> SUFFICES ASSUME Init PROVE CInv
  OBVIOUS
<1>1. /\ stage = "flags" /\ log = "clean" /\ analyzing = <<>>
      /\ \A f \in Files : state[f] = "UNLOADED" /\ analysis[f] = "PENDING"
      /\ \A u \in Units : nextDep[u] = 1 /\ imported[u] = {}
  BY DEF Init, LoaderInit, AnalysisInit
<1>2. \A u \in Units, i \in Nat : ~Passed(u, i)
  <2> SUFFICES ASSUME NEW u \in Units, NEW i \in Nat, Passed(u, i) PROVE FALSE
    OBVIOUS
  <2>1. Body(u).imports \in Seq(Files \cup {NotFound}) /\ i \in DOMAIN Body(u).imports /\ i < 1
    BY <1>1, TypeInit, BodyType DEF TypeOK, Passed
  <2> QED
    BY <2>1
<1>3. ListedIsReachable /\ StackIsPath /\ ImportedWasPassed
  BY <1>1 DEF ListedIsReachable, StackIsPath, ImportedWasPassed
<1>4. RejectionIsDue
  BY <1>1 DEF RejectionIsDue, HadErrors
<1>5. \A u \in Units : ~Finished(u)
  BY <1>1 DEF Finished, DoneModules
<1>6. CleanIsCorrect
  BY <1>1, <1>2, <1>5
  DEF CleanIsCorrect, CommandLinePassed, SourcesPassed, ImportsPassed, StatementsPassed
<1> QED
  BY <1>3, <1>4, <1>6 DEF CInv

-----------------------------------------------------------------------------
(* The loader only lists, and only complains about, what is reachable.     *)
LEMMA LoaderStaysDue ==
    ASSUME IInv, CInv, LoadModules
    PROVE  CInv'
<1>1. /\ stage = "resolve" /\ stage' = stage /\ LoaderNext
      /\ UNCHANGED inputs /\ UNCHANGED <<analysis, analyzing, nextDep, allOk, imported, own>>
      /\ loading # <<>>
  BY DEF LoadModules, LoaderNext, ImportNotFound, ImportOutOfMemory, ImportKnown,
         ImportRejected, ImportEntered, LoadReturn, HasImport, inputs, analysisVars
<1>2. HadErrors => HadErrors'
  BY ErrorsStay DEF Next, Step
<1>3. Importer \in Reachable \cup {Root} /\ Importer \in Units
  <2>1. Importer \in Units /\ Importer = loading[1] /\ 1 \in DOMAIN loading
    BY <1>1, PopProperties DEF Importer, IInv, TypeOK, LoaderTypeOK
  <2> QED
    BY <2>1 DEF IInv, LoadingIsOnStack, CInv, ListedIsReachable, Units
<1>4. HasImport => Target \in Imports(Importer)
  BY DEF HasImport, Target, Imports
<1>5. HasImport /\ Target \in Files => Target \in Reachable
  BY <1>3, <1>4, ReachableIsClosed
<1>6. StackIsPath'
  BY <1>1, PathStays DEF CInv
<1>7. \A u : Finished(u)' => Finished(u)
  BY <1>1 DEF Finished, DoneModules
<1>8. ImportedWasPassed' /\ (~HadErrors' => ImportsPassed' /\ StatementsPassed')
  BY <1>1, <1>2, <1>7, UnchangedTables
<1>9. ListedIsReachable'
  <2>1. state \in [Files -> ModuleState]
    BY DEF IInv, TypeOK, LoaderTypeOK
  <2>2. CASE UNCHANGED state
    BY <1>1, <2>2, ListedStays DEF CInv
  <2>3. CASE HasImport /\ Target \in Files /\ \E st : state' = [state EXCEPT ![Target] = st]
    BY <1>1, <1>5, <2>1, <2>3, SourcesStay DEF CInv, ListedIsReachable
  <2>4. CASE LoadReturn
    BY <1>1, <1>3, <2>1, <2>4, SourcesStay DEF CInv, ListedIsReachable, LoadReturn
  <2> QED
    BY <1>1, <2>2, <2>3, <2>4 DEF LoaderNext, ImportNotFound, ImportOutOfMemory, ImportKnown,
       ImportRejected, ImportEntered
<1>10. RejectionIsDue'
  <2>1. CASE ImportNotFound
    <3>1. ~Contract!Acceptable
      BY <1>3, <1>4, <2>1, DefectIsUnacceptable DEF ImportNotFound
    <3> QED
      BY <1>1, <3>1, RejectionIsNew
  <2>2. CASE ImportRejected /\ src[Target].health = "malformed"
    <3>1. Target \in Reachable /\ Body(Target) = src[Target]
      BY <1>5, <2>2, InputAssumption DEF ImportRejected, Body
    <3>2. ~Contract!Acceptable
      BY <2>2, <3>1, DefectIsUnacceptable
    <3> QED
      BY <1>1, <3>2, RejectionIsNew
  <2>3. CASE Faults
    BY <1>1, <2>3, RejectionIsNew
  <2>4. CASE UNCHANGED log
    BY <1>1, <2>4, RejectionStays DEF CInv, HadErrors
  <2> QED
    BY <1>1, <2>1, <2>2, <2>3, <2>4 DEF LoaderNext, ImportOutOfMemory, ImportKnown,
       ImportRejected, ImportEntered, LoadReturn
<1>11. ASSUME ~HadErrors' PROVE CommandLinePassed' /\ SourcesPassed'
  <2>1. CommandLinePassed /\ SourcesPassed
    BY <1>2, <1>11 DEF CInv, CleanIsCorrect
  <2>2. CommandLinePassed'
    BY <1>1, <2>1, SourcesStay DEF CommandLinePassed
  <2>3. \A f \in Files : state'[f] # "UNLOADED" => src[f].health # "malformed"
    <3>1. state \in [Files -> ModuleState]
      BY DEF IInv, TypeOK, LoaderTypeOK
    <3>2. CASE UNCHANGED state
      BY <2>1, <3>2 DEF SourcesPassed
    <3>3. CASE ImportRejected
      BY <1>2, <1>11, <3>3 DEF ImportRejected, LogFatal, LogError, Logged, HadErrors, HadFatal
    <3>4. CASE ImportEntered
      BY <2>1, <3>1, <3>4 DEF SourcesPassed, ImportEntered
    <3>5. CASE LoadReturn
      <4>1. Importer \in Files => state[Importer] = "LOADING"
        BY <1>1, PopProperties DEF IInv, TypeOK, LoaderTypeOK, LoadingIsOnStack, Importer
      <4> QED
        BY <2>1, <3>1, <3>5, <4>1 DEF SourcesPassed, LoadReturn
    <3> QED
      BY <1>1, <3>2, <3>3, <3>4, <3>5 DEF LoaderNext, ImportNotFound, ImportOutOfMemory, ImportKnown
  <2>4. SourcesPassed'
    BY <1>1, <2>1, <2>3, SourcesStay DEF SourcesPassed, inputs
  <2> QED
    BY <2>2, <2>4
<1>12. CleanIsCorrect'
  BY <1>8, <1>11 DEF CleanIsCorrect
<1> QED
  BY <1>6, <1>8, <1>9, <1>10, <1>12 DEF CInv

-----------------------------------------------------------------------------
(* The unit that analyze_program is in, and the import it is at.           *)
LEMMA CurrentUnit ==
    ASSUME IInv, CInv, analyzing # <<>>
    PROVE  /\ Current \in Units /\ Current \in Reachable \cup {Root}
           /\ Current = analyzing[1] /\ 1 \in DOMAIN analyzing
           /\ ~Finished(Current)
<1>1. Current \in Units /\ Current = analyzing[1] /\ 1 \in DOMAIN analyzing
  BY PopProperties DEF Current, IInv, TypeOK, AnalysisTypeOK
<1>2. Current # Root => Current \in Files /\ analysis[Current] = "IN_PROGRESS"
  BY <1>1 DEF IInv, InProgressIsOnStack, Units
<1>3. Current # Root => state[Current] = "LOADED"
  BY <1>2 DEF IInv, AnalysisProgress
<1>4. Current \in Reachable \cup {Root}
  BY <1>2, <1>3 DEF CInv, ListedIsReachable
<1>5. Root \notin DoneModules
  BY InputAssumption DEF DoneModules
<1>6. ~Finished(Current)
  BY <1>2, <1>5 DEF Finished, DoneModules
<1> QED
  BY <1>1, <1>4, <1>6

LEMMA CurrentImport ==
    ASSUME IInv, CInv, stage = "analyze", HasDep
    PROVE  /\ DepResolved /\ Dep \in Files /\ state[Dep] = "LOADED"
           /\ DepIndex \in DOMAIN Body(Current).imports /\ DepIndex \in Nat
           /\ DepIndex = nextDep[Current]
           /\ Dep = Body(Current).imports[DepIndex] /\ Dep \in Imports(Current)
           /\ Dep \in Reachable
           /\ Public(Current, DepIndex) = src[Dep].public
           /\ Body(Dep) = src[Dep] /\ Dep \in Units
<1>1. Current \in Units /\ Current \in Reachable \cup {Root}
  BY CurrentUnit DEF HasDep
<1>2. DepIndex \in DOMAIN Body(Current).imports /\ DepIndex = nextDep[Current]
  BY DEF HasDep, DepIndex
<1>3. nextDep[Current] \in Nat
  BY <1>1 DEF IInv, TypeOK, AnalysisTypeOK
<1>4. Dep = Body(Current).imports[DepIndex] /\ Dep \in Imports(Current)
  BY <1>2 DEF Dep, Imports
<1>5. Current \in Files => analysis[Current] = "IN_PROGRESS" /\ state[Current] = "LOADED"
  <2>1. Current = analyzing[1] /\ 1 \in DOMAIN analyzing
    BY CurrentUnit DEF HasDep
  <2> QED
    BY <2>1 DEF IInv, InProgressIsOnStack, AnalysisProgress
<1>6. /\ resolved[Current] = DOMAIN Body(Current).imports
      /\ \A f \in Imports(Current) : f \in Files /\ state[f] = "LOADED"
  BY <1>1, <1>5 DEF IInv, AnalysisSeesLoadedModules, Units
<1>7. Dep \in Files /\ state[Dep] = "LOADED" /\ DepResolved
  BY <1>2, <1>4, <1>6 DEF DepResolved
<1>8. Dep \in Reachable
  BY <1>1, <1>4, <1>7, ReachableIsClosed
<1>9. Public(Current, DepIndex) = src[Dep].public /\ Body(Dep) = src[Dep] /\ Dep \in Units
  BY <1>4, <1>7, InputAssumption DEF Public, Body, Units
<1> QED
  BY <1>2, <1>3, <1>4, <1>7, <1>8, <1>9

(* One more import is passed.                                              *)
LEMMA NextDepPasses ==
    ASSUME IInv, CInv, stage = "analyze", HasDep, NextDep, UNCHANGED inputs
    PROVE  \A u \in Units, i \in Nat :
               Passed(u, i)' <=> Passed(u, i) \/ (u = Current /\ i = DepIndex)
<1>1. /\ Current \in Units /\ DepIndex \in DOMAIN Body(Current).imports
      /\ DepIndex \in Nat /\ DepIndex = nextDep[Current]
      /\ Body(Current).imports[DepIndex] \in Files
  BY CurrentUnit, CurrentImport DEF HasDep
<1>2. nextDep \in [Units -> Nat \ {0}] /\ nextDep' = [nextDep EXCEPT ![Current] = DepIndex + 1]
  BY DEF IInv, TypeOK, AnalysisTypeOK, NextDep
<1>3. \A u \in Units : nextDep'[u] = IF u = Current THEN nextDep[u] + 1 ELSE nextDep[u]
  BY <1>1, <1>2
<1>4. \A u : Body(u)' = Body(u) /\ Files' = Files
  BY SourcesStay
<1> SUFFICES ASSUME NEW u \in Units, NEW i \in Nat
             PROVE  Passed(u, i)' <=> Passed(u, i) \/ (u = Current /\ i = DepIndex)
  OBVIOUS
<1>5. nextDep[u] \in Nat
  BY <1>2
<1>6. CASE u = Current
  BY <1>1, <1>3, <1>4, <1>5, <1>6 DEF Passed
<1>7. CASE u # Current
  BY <1>3, <1>4, <1>7 DEF Passed
<1> QED
  BY <1>6, <1>7

(* import_public_symbols.                                                  *)
LEMMA DepImportedStaysDue ==
    ASSUME IInv, CInv, stage = "analyze", DepImported,
           UNCHANGED inputs, UNCHANGED stage
    PROVE  ImportedWasPassed' /\ RejectionIsDue'
           /\ (~HadErrors' => ImportsPassed' /\ StatementsPassed')
<1> DEFINE P(u, i) == Passed(u, i) \/ (u = Current /\ i = DepIndex)
<1>1. /\ HasDep /\ analyzing # <<>> /\ NextDep /\ analysis[Dep] = "DONE"
      /\ UNCHANGED <<analysis, analyzing, own>>
  BY DEF DepImported, HasDep
<1>2. /\ Current \in Units /\ Current \in Reachable \cup {Root} /\ ~Finished(Current)
      /\ Dep \in Files /\ DepIndex \in DOMAIN Body(Current).imports /\ DepIndex \in Nat
      /\ Public(Current, DepIndex) = src[Dep].public /\ Dep \in Units
      /\ Body(Dep) = src[Dep] /\ DepIndex = nextDep[Current]
  BY <1>1, CurrentUnit, CurrentImport
<1>3. \A u \in Units, i \in Nat : Passed(u, i)' <=> P(u, i)
  BY <1>1, NextDepPasses
<1>4. PICK copied \in SUBSET Visible(Dep) :
          /\ imported' = [imported EXCEPT ![Current] = @ \cup copied]
          /\ \/ LogErrorIf(Visible(Dep) \cap imported[Current] # {}) /\ copied = Visible(Dep)
             \/ Faults /\ LogFatal
  BY DEF DepImported
<1>5. \A u \in Units : imported'[u] = IF u = Current THEN imported[u] \cup copied ELSE imported[u]
  BY <1>2, <1>4 DEF IInv, TypeOK, AnalysisTypeOK
<1>6. \A u, i : Public(u, i)' = Public(u, i)
  BY SourcesStay
<1>7. Visible(Dep) \subseteq Public(Current, DepIndex)
  BY <1>2 DEF Visible
<1>8. ImportedWasPassed'
  <2> SUFFICES ASSUME NEW u \in Units, NEW n \in imported'[u]
               PROVE  \E i \in Nat : Passed(u, i)' /\ n \in Public(u, i)'
    BY DEF ImportedWasPassed
  <2>1. CASE n \in imported[u]
    <3>1. PICK i \in Nat : Passed(u, i) /\ n \in Public(u, i)
      BY <2>1 DEF CInv, ImportedWasPassed
    <3> QED
      BY <1>3, <1>6, <3>1
  <2>2. CASE n \notin imported[u]
    <3>1. u = Current /\ n \in copied
      BY <1>5, <2>2
    <3>2. PICK k \in Nat : k = DepIndex
      BY <1>2
    <3>3. Passed(u, k)' /\ n \in Public(u, k)'
      BY <1>3, <1>4, <1>6, <1>7, <3>1, <3>2
    <3> QED
      BY <3>3
  <2> QED
    BY <2>1, <2>2
<1>9. RejectionIsDue'
  <2>1. CASE Visible(Dep) \cap imported[Current] # {}
    <3>1. PICK n \in Visible(Dep) : n \in imported[Current]
      BY <2>1
    <3>2. PICK i \in Nat : Passed(Current, i) /\ n \in Public(Current, i)
      BY <1>2, <3>1 DEF CInv, ImportedWasPassed
    <3>3. i \in DOMAIN Body(Current).imports /\ i # DepIndex
      BY <1>2, <3>2 DEF Passed
    <3>4. Public(Current, DepIndex) \cap Public(Current, i) # {}
      BY <1>7, <3>1, <3>2
    <3>5. ~Contract!Acceptable
      BY <1>2, <3>3, <3>4, ClashIsUnacceptable
    <3> QED
      BY <3>5, RejectionIsNew
  <2>2. CASE Faults
    BY <2>2, RejectionIsNew
  <2>3. CASE Visible(Dep) \cap imported[Current] = {} /\ ~Faults
    <3>1. log' = log
      BY <1>4, <2>3 DEF LogErrorIf
    <3> QED
      BY <3>1, RejectionStays DEF CInv, HadErrors
  <2> QED
    BY <2>1, <2>2, <2>3
<1>10. ASSUME ~HadErrors' PROVE ImportsPassed' /\ StatementsPassed'
  <2>1. /\ ~HadErrors /\ copied = Visible(Dep) /\ Visible(Dep) \cap imported[Current] = {}
    BY <1>4, <1>10 DEF LogErrorIf, LogFatal, Logged, HadErrors, HadFatal
  <2>2. ImportsPassed /\ StatementsPassed
    BY <2>1 DEF CInv, CleanIsCorrect
  <2>3. Finished(Dep)
    BY <1>1, <1>2 DEF Finished, DoneModules
  <2>4. Visible(Dep) = Public(Current, DepIndex)
    BY <1>2, <2>2, <2>3 DEF StatementsPassed, Visible, Defined
  <2>5. ImportsPassed'
    <3> SUFFICES ASSUME NEW u \in Units
                 PROVE  /\ \A i \in Nat : P(u, i) => Public(u, i) \subseteq imported'[u]
                        /\ \A i, j \in Nat : P(u, i) /\ P(u, j) /\ i # j =>
                               Public(u, i) \cap Public(u, j) = {}
      BY <1>3, <1>6 DEF ImportsPassed
    <3>1. \A i \in Nat : Passed(u, i) => Public(u, i) \subseteq imported[u]
      BY <2>2 DEF ImportsPassed
    <3>2. \A i \in Nat : P(u, i) => Public(u, i) \subseteq imported'[u]
      BY <1>2, <1>5, <2>1, <2>4, <3>1
    <3>3. ASSUME NEW i \in Nat, NEW j \in Nat, Passed(u, i), Passed(u, j), i # j
          PROVE  Public(u, i) \cap Public(u, j) = {}
      BY <2>2, <3>3 DEF ImportsPassed
    <3>4. ASSUME NEW i \in Nat, Passed(u, i), u = Current
          PROVE  Public(u, i) \cap Public(u, DepIndex) = {}
      BY <2>1, <2>4, <3>1, <3>4
    <3> QED
      BY <3>2, <3>3, <3>4
  <2>6. \A u \in Units : Finished(u)' => Finished(u) /\ u # Current
    BY <1>1, <1>2 DEF Finished, DoneModules
  <2>7. \A u \in Units : u # Current => (StatementErrors(u)' <=> StatementErrors(u))
    BY <1>5, SourcesStay DEF StatementErrors
  <2>8. StatementsPassed'
    BY <1>1, <2>2, <2>6, <2>7, SourcesStay DEF StatementsPassed
  <2> QED
    BY <2>5, <2>8
<1> QED
  BY <1>8, <1>9, <1>10

(* A module in progress that is met again closes a cycle: the activations  *)
(* down to its own all import one another.                                 *)
LEMMA CycleIsReal ==
    ASSUME IInv, CInv, stage = "analyze", HasDep, analysis[Dep] = "IN_PROGRESS"
    PROVE  ~Contract!Acceptable
<1>1. /\ Dep \in Files /\ Dep \in Imports(Current)
      /\ Current = analyzing[1] /\ 1 \in DOMAIN analyzing
  BY CurrentUnit, CurrentImport DEF HasDep
<1>2. PICK k \in DOMAIN analyzing : analyzing[k] = Dep
  BY <1>1 DEF IInv, InProgressIsOnStack
<1>3. /\ analyzing \in Seq(Units) /\ DOMAIN analyzing = 1 .. Len(analyzing)
      /\ Len(analyzing) \in Nat
  BY DEF IInv, TypeOK, AnalysisTypeOK
<1> DEFINE T == {analyzing[i] : i \in 1 .. k}
<1>4. \A i \in 1 .. k : i \in DOMAIN analyzing
  BY <1>2, <1>3
<1>5. k # Len(analyzing)
  BY <1>1, <1>2, InputAssumption DEF IInv, InProgressIsOnStack, OneActivationEach
<1>6. ASSUME NEW i \in 1 .. k PROVE analyzing[i] \in Reachable
  <2>1. i \in DOMAIN analyzing /\ i # Len(analyzing) /\ analyzing[i] \in Units
    BY <1>2, <1>3, <1>4, <1>5
  <2>2. analyzing[i] \in Files
    BY <2>1 DEF IInv, InProgressIsOnStack, OneActivationEach, Units
  <2>3. analysis[analyzing[i]] = "IN_PROGRESS"
    BY <2>1, <2>2 DEF IInv, InProgressIsOnStack
  <2> QED
    BY <2>2, <2>3 DEF IInv, AnalysisProgress, CInv, ListedIsReachable
<1>7. T \subseteq Reachable /\ Dep \in T
  BY <1>2, <1>3, <1>6
<1>8. ASSUME NEW f \in T PROVE Imports(f) \cap T # {}
  <2>1. PICK i \in 1 .. k : f = analyzing[i]
    OBVIOUS
  <2>2. CASE i = 1
    BY <1>1, <1>7, <2>1, <2>2
  <2>3. CASE i # 1
    <3>1. i \in Nat /\ i > 1 /\ i - 1 \in 1 .. k /\ i \in DOMAIN analyzing
      BY <1>2, <1>3, <1>4, <2>3
    <3>2. analyzing[i - 1] \in Imports(analyzing[i])
      BY <3>1 DEF CInv, StackIsPath
    <3>3. analyzing[i - 1] \in T
      BY <3>1
    <3> QED
      BY <2>1, <3>2, <3>3
  <2> QED
    BY <2>2, <2>3
<1> HIDE DEF T
<1> QED
  BY <1>7, <1>8, CycleIsUnacceptable

(* An import that is passed without being imported leaves an error behind. *)
LEMMA DepRefusedStaysDue ==
    ASSUME IInv, CInv, stage = "analyze", DepFailed \/ DepCyclic, IInv',
           UNCHANGED inputs, UNCHANGED stage
    PROVE  ImportedWasPassed' /\ RejectionIsDue' /\ HadErrors'
<1>1. /\ HasDep /\ analyzing # <<>> /\ NextDep /\ NotOk /\ UNCHANGED imported
  BY DEF DepFailed, DepCyclic, HasDep
<1>2. Current \in Units
  BY <1>1, CurrentUnit
<1>3. ImportedWasPassed'
  BY <1>1, NextDepPasses, SourcesStay DEF CInv, ImportedWasPassed
<1>4. RejectionIsDue'
  <2>1. CASE DepFailed
    BY <2>1, RejectionStays DEF DepFailed, CInv, HadErrors
  <2>2. CASE DepCyclic
    BY <1>1, <2>2, CycleIsReal, RejectionIsNew DEF DepCyclic
  <2> QED
    BY <2>1, <2>2
<1>5. HadErrors'
  <2>1. PICK u \in Units : u = Current
    BY <1>2
  <2>2. ~allOk'[u]
    BY <1>1, <2>1 DEF NotOk, IInv, TypeOK, AnalysisTypeOK
  <2> QED
    BY <2>2 DEF IInv, VerdictIsLogged
<1> QED
  BY <1>3, <1>4, <1>5

(* The statements of a unit, once all of its imports were passed.          *)
LEMMA AnalyzeReturnStaysDue ==
    ASSUME IInv, CInv, stage = "analyze", AnalyzeReturn,
           UNCHANGED inputs, UNCHANGED stage
    PROVE  StackIsPath' /\ RejectionIsDue' /\ (~HadErrors' => StatementsPassed')
<1>1. /\ analyzing # <<>> /\ analyzing' = Tail(analyzing)
      /\ UNCHANGED imported
      /\ own' = [own EXCEPT ![Current] = Defined(Current) \ imported[Current]]
      /\ analysis' = IF Current = Root THEN analysis
                     ELSE [analysis EXCEPT ![Current] = VerdictOn(Current)]
      /\ \/ LogErrorIf(StatementErrors(Current))
         \/ Faults /\ LogFatal
  BY DEF AnalyzeReturn
<1>2. Current \in Units /\ Current \in Reachable \cup {Root}
  BY <1>1, CurrentUnit
<1>3. analyzing \in Seq(Units) /\ analysis \in [Files -> AnalysisState] /\ own \in [Units -> SUBSET Names]
  BY DEF IInv, TypeOK, AnalysisTypeOK
<1>4. StackIsPath'
  <2>1. /\ DOMAIN analyzing = 1 .. Len(analyzing) /\ Len(analyzing) \in Nat
        /\ DOMAIN analyzing' = 1 .. Len(analyzing) - 1
        /\ \A i \in 1 .. Len(analyzing) - 1 : analyzing'[i] = analyzing[i + 1]
    BY <1>1, <1>3, PopProperties
  <2> SUFFICES ASSUME NEW i \in DOMAIN analyzing', i > 1
               PROVE  analyzing'[i - 1] \in Imports(analyzing'[i])
    BY SourcesStay DEF StackIsPath
  <2>2. /\ i + 1 \in DOMAIN analyzing /\ i + 1 > 1 /\ (i + 1) - 1 = i
        /\ analyzing'[i] = analyzing[i + 1] /\ analyzing'[i - 1] = analyzing[i]
    BY <2>1
  <2>3. analyzing[(i + 1) - 1] \in Imports(analyzing[i + 1])
    BY <2>2 DEF CInv, StackIsPath
  <2> QED
    BY <2>2, <2>3
<1>5. RejectionIsDue'
  <2>1. CASE StatementErrors(Current)
    <3>1. CASE Defined(Current) \cap imported[Current] # {}
      <4>1. PICK n \in imported[Current] : n \in Defined(Current)
        BY <3>1
      <4>2. PICK i \in Nat : Passed(Current, i) /\ n \in Public(Current, i)
        BY <1>2, <4>1 DEF CInv, ImportedWasPassed
      <4>3. i \in DOMAIN Body(Current).imports /\ Public(Current, i) \cap Defined(Current) # {}
        BY <4>1, <4>2 DEF Passed
      <4>4. ~Contract!Acceptable
        BY <1>2, <4>3, ClashIsUnacceptable
      <4> QED
        BY <4>4, RejectionIsNew
    <3>2. CASE Defined(Current) \cap imported[Current] = {}
      <4>1. ~Contract!Acceptable
        BY <1>2, <2>1, <3>2, DefectIsUnacceptable DEF StatementErrors
      <4> QED
        BY <4>1, RejectionIsNew
    <3> QED
      BY <3>1, <3>2
  <2>2. CASE Faults
    BY <2>2, RejectionIsNew
  <2>3. CASE ~StatementErrors(Current) /\ ~Faults
    <3>1. log' = log
      BY <1>1, <2>3 DEF LogErrorIf
    <3> QED
      BY <3>1, RejectionStays DEF CInv, HadErrors
  <2> QED
    BY <2>1, <2>2, <2>3
<1>6. ASSUME ~HadErrors' PROVE StatementsPassed'
  <2>1. ~HadErrors /\ ~StatementErrors(Current)
    BY <1>1, <1>6 DEF LogErrorIf, LogFatal, Logged, HadErrors, HadFatal
  <2>2. \A u \in Units : own'[u] = IF u = Current THEN Defined(u) ELSE own[u]
    <3>1. Defined(Current) \ imported[Current] = Defined(Current)
      BY <2>1 DEF StatementErrors
    <3> QED
      BY <1>1, <1>3, <3>1
  <2>3. \A u \in Units : Finished(u)' => Finished(u) \/ u = Current
    <3>1. analyzing' = <<>> <=> Current = Root
      BY <1>1, <1>3, PopActivation DEF IInv, InProgressIsOnStack, Current
    <3>2. \A f \in Files : f # Current => analysis'[f] = analysis[f]
      BY <1>1, <1>3
    <3> QED
      BY <3>1, <3>2 DEF Finished, DoneModules
  <2>4. \A u : StatementErrors(u)' <=> StatementErrors(u)
    BY <1>1, SourcesStay DEF StatementErrors
  <2>5. StatementsPassed
    BY <2>1 DEF CInv, CleanIsCorrect
  <2> QED
    BY <2>1, <2>2, <2>3, <2>4, <2>5, SourcesStay DEF StatementsPassed
<1> QED
  BY <1>4, <1>5, <1>6

LEMMA AnalysisStaysDue ==
    ASSUME IInv, CInv, AnalyzeModules
    PROVE  CInv'
<1>1. /\ stage = "analyze" /\ UNCHANGED stage /\ AnalysisNext /\ analyzing # <<>>
      /\ UNCHANGED inputs /\ UNCHANGED state
  BY DEF AnalyzeModules, AnalysisNext, DepImported, DepFailed, DepCyclic, DepEntered,
         AnalyzeReturn, HasDep, inputs
<1>2. IInv' /\ (HadErrors => HadErrors')
  BY AnalyzeModulesStep, ErrorsStay DEF Next, Step
<1>3. ListedIsReachable'
  BY <1>1, ListedStays DEF CInv
<1>4. ~HadErrors' => CommandLinePassed' /\ SourcesPassed'
  <2> SUFFICES ASSUME ~HadErrors' PROVE CommandLinePassed' /\ SourcesPassed'
    OBVIOUS
  <2>1. CommandLinePassed /\ SourcesPassed
    BY <1>2 DEF CInv, CleanIsCorrect
  <2> QED
    BY <1>1, <2>1, SourcesStay DEF CommandLinePassed, SourcesPassed, inputs
<1>5. CASE DepImported
  <2>1. StackIsPath'
    BY <1>1, <1>5, PathStays DEF CInv, DepImported
  <2> QED
    BY <1>1, <1>3, <1>4, <1>5, <2>1, DepImportedStaysDue DEF CInv, CleanIsCorrect
<1>6. CASE DepFailed \/ DepCyclic
  <2>1. StackIsPath'
    BY <1>1, <1>6, PathStays DEF CInv, DepFailed, DepCyclic
  <2> QED
    BY <1>1, <1>2, <1>3, <1>6, <2>1, DepRefusedStaysDue DEF CInv, CleanIsCorrect
<1>7. CASE DepEntered
  <2>1. /\ HasDep /\ analysis[Dep] = "PENDING"
        /\ analysis' = [analysis EXCEPT ![Dep] = "IN_PROGRESS"]
        /\ analyzing' = <<Dep>> \o analyzing
        /\ UNCHANGED <<log, nextDep, imported, own>>
    BY <1>7 DEF DepEntered
  <2>2. /\ Dep \in Units /\ Dep \in Imports(Current) /\ Current = analyzing[1]
        /\ analyzing \in Seq(Units) /\ analysis \in [Files -> AnalysisState]
    BY <1>1, <2>1, CurrentUnit, CurrentImport DEF IInv, TypeOK, AnalysisTypeOK
  <2>3. StackIsPath'
    <3>1. /\ DOMAIN analyzing = 1 .. Len(analyzing) /\ Len(analyzing) \in Nat
          /\ DOMAIN analyzing' = 1 .. Len(analyzing) + 1
          /\ \A i \in 1 .. Len(analyzing) + 1 : analyzing'[i] = IF i = 1 THEN Dep ELSE analyzing[i - 1]
      BY <2>1, <2>2, PushProperties
    <3> SUFFICES ASSUME NEW i \in DOMAIN analyzing', i > 1
                 PROVE  analyzing'[i - 1] \in Imports(analyzing'[i])
      BY <1>1, SourcesStay DEF StackIsPath
    <3>2. i - 1 \in DOMAIN analyzing /\ analyzing'[i] = analyzing[i - 1]
      BY <3>1
    <3>3. CASE i = 2
      BY <2>2, <3>1, <3>2, <3>3
    <3>4. CASE i # 2
      <4>1. analyzing'[i - 1] = analyzing[(i - 1) - 1] /\ i - 1 > 1
        BY <3>1, <3>2, <3>4
      <4> QED
        BY <3>2, <4>1 DEF CInv, StackIsPath
    <3> QED
      BY <3>3, <3>4
  <2>4. \A u : Finished(u)' => Finished(u)
    <3>1. DoneModules' \subseteq DoneModules
      BY <2>1, <2>2 DEF DoneModules
    <3>2. analyzing' # <<>>
      BY <2>1, <2>2, PushProperties
    <3> QED
      BY <3>1, <3>2 DEF Finished
  <2>5. ImportedWasPassed'
    BY <1>1, <2>1, ImportedStays DEF CInv
  <2>6. ~HadErrors' => ImportsPassed' /\ StatementsPassed'
    BY <1>1, <1>2, <2>1, <2>4, ImportsPassedStays, StatementsPassedStays DEF CInv, CleanIsCorrect
  <2>7. RejectionIsDue'
    BY <1>1, <2>1, RejectionStays DEF CInv, HadErrors
  <2> QED
    BY <1>3, <1>4, <2>3, <2>5, <2>6, <2>7 DEF CInv, CleanIsCorrect
<1>8. CASE AnalyzeReturn
  <2>1. ImportedWasPassed' /\ (~HadErrors' => ImportsPassed')
    BY <1>1, <1>2, <1>8, ImportedStays, ImportsPassedStays
    DEF AnalyzeReturn, CInv, CleanIsCorrect
  <2> QED
    BY <1>1, <1>3, <1>4, <1>8, <2>1, AnalyzeReturnStaysDue DEF CInv, CleanIsCorrect
<1> QED
  BY <1>1, <1>5, <1>6, <1>7, <1>8 DEF AnalysisNext

(* main and compilation_run between the walks.                             *)
LEMMA DriverStaysDue ==
    ASSUME IInv, CInv,
           ParseFlags \/ ParseProgram \/ ResolveDone \/ AnalyzeDone \/ Generate \/ WriteOutput
    PROVE  CInv'
<1>1. /\ UNCHANGED <<inputs, state, imported, own, nextDep, analysis>>
      /\ analyzing' = analyzing \/ analyzing' = <<Root>>
  BY DEF ParseFlags, ParseProgram, ResolveDone, AnalyzeDone, Generate, WriteOutput,
         loaderVars, analysisVars
<1>2. HadErrors => HadErrors'
  BY ErrorsStay DEF Next, Step
<1>3. ListedIsReachable'
  BY <1>1, ListedStays DEF CInv
<1>4. StackIsPath'
  <2>1. CASE analyzing' = analyzing
    BY <1>1, <2>1, PathStays DEF CInv
  <2>2. CASE analyzing' = <<Root>>
    BY <2>2 DEF StackIsPath
  <2> QED
    BY <1>1, <2>1, <2>2
<1>5. \A u : ~HadErrors' => (Finished(u)' => Finished(u))
  <2> SUFFICES ASSUME ~HadErrors', NEW u, Finished(u)' PROVE Finished(u)
    OBVIOUS
  <2>1. DoneModules' = DoneModules
    BY <1>1 DEF DoneModules
  <2>2. CASE stage \in {"analyze", "codegen", "write", "done"} /\ analyzing' = analyzing
    BY <2>1, <2>2 DEF Finished
  <2>3. CASE ParseFlags \/ ParseProgram
    BY <2>1, <2>3 DEF Finished, ParseFlags, ParseProgram, Enter
  <2>4. CASE ResolveDone
    <3>1. stage' = "analyze" /\ analyzing' = <<Root>>
      BY <2>4 DEF ResolveDone, Enter, HadErrors
    <3> QED
      BY <2>1, <3>1 DEF Finished
  <2> QED
    BY <2>2, <2>3, <2>4 DEF AnalyzeDone, Generate, WriteOutput, analysisVars
<1>6. ImportedWasPassed'
  BY <1>1, ImportedStays DEF CInv
<1>7. RejectionIsDue'
  <2>1. CASE UNCHANGED log
    BY <1>1, <2>1, RejectionStays DEF CInv, HadErrors
  <2>2. CASE Faults
    BY <1>1, <2>2, RejectionIsNew
  <2>3. CASE RejectsCommandLine
    BY <1>1, <2>3, CommandLineIsUnacceptable, RejectionIsNew
  <2>4. CASE Body(Root).health = "malformed"
    BY <1>1, <2>4, DefectIsUnacceptable, RejectionIsNew
  <2> QED
    BY <2>1, <2>2, <2>3, <2>4 DEF ParseFlags, ParseProgram, ResolveDone, AnalyzeDone,
       Generate, WriteOutput, LogErrorIf
<1>8. ASSUME ~HadErrors' PROVE CommandLinePassed' /\ SourcesPassed'
  <2>1. CommandLinePassed /\ SourcesPassed
    BY <1>2, <1>8 DEF CInv, CleanIsCorrect
  <2>2. CommandLinePassed'
    BY <1>1, <1>8, <2>1, SourcesStay DEF CommandLinePassed, ParseFlags, ParseProgram,
       ResolveDone, AnalyzeDone, Generate, WriteOutput, HadErrors, LogFatal
  <2>3. stage' \notin {"flags", "frontend"} => Body(Root).health # "malformed"
    BY <1>8, <2>1 DEF SourcesPassed, ParseFlags, ParseProgram, ResolveDone, AnalyzeDone,
       Generate, WriteOutput, HadErrors, HadFatal, LogErrorIf, LogFatal, Logged, Enter
  <2> QED
    BY <1>1, <2>1, <2>2, <2>3, SourcesStay DEF SourcesPassed, inputs
<1>9. ~HadErrors' => ImportsPassed' /\ StatementsPassed'
  BY <1>1, <1>2, <1>5, ImportsPassedStays, StatementsPassedStays DEF CInv, CleanIsCorrect
<1> QED
  BY <1>3, <1>4, <1>6, <1>7, <1>8, <1>9 DEF CInv, CleanIsCorrect

LEMMA ContractStutters ==
    ASSUME IInv, CInv, UNCHANGED vars
    PROVE  CInv'
<1>1. UNCHANGED <<inputs, log, stage, state, analyzing, imported, own, nextDep, analysis>>
  BY DEF vars, loaderVars, analysisVars
<1>2. \A u : Finished(u)' => Finished(u)
  BY <1>1 DEF Finished, DoneModules
<1>3. ListedIsReachable' /\ StackIsPath' /\ RejectionIsDue'
  BY <1>1, ListedStays, PathStays, RejectionStays DEF CInv, HadErrors
<1>4. ImportedWasPassed' /\ (~HadErrors' => ImportsPassed' /\ StatementsPassed')
  BY <1>1, <1>2, UnchangedTables DEF HadErrors
<1>5. ~HadErrors' => CommandLinePassed' /\ SourcesPassed'
  BY <1>1, SourcesStay
  DEF CInv, CleanIsCorrect, HadErrors, CommandLinePassed, SourcesPassed, inputs
<1> QED
  BY <1>3, <1>4, <1>5 DEF CInv, CleanIsCorrect

LEMMA ContractStep == IInv /\ CInv /\ [Next]_vars => CInv'
BY LoaderStaysDue, AnalysisStaysDue, DriverStaysDue, ContractStutters DEF Next, Step, Terminated

-----------------------------------------------------------------------------
(* When the stages are through, everything that is reachable is finished.  *)
LEMMA ReachableIsFinished ==
    ASSUME IInv, stage = "write"
    PROVE  \A u \in Reachable \cup {Root} :
               /\ u \in Units /\ Finished(u)
               /\ \A i \in DOMAIN Body(u).imports : i \in Nat /\ Passed(u, i)
<1>1. /\ ~HadErrors /\ analyzing = <<>> /\ \A u \in Units : allOk[u]
      /\ Analyzed(Root)
  BY DEF IInv, StageProgress, VerdictIsLogged
<1>2. DoneIsClosed /\ Imports(Root) \subseteq DoneModules /\ DoneModules \subseteq Files
  BY <1>1, ProgressClosesDone DEF IInv, DoneModules, Units
<1>3. Reachable \subseteq DoneModules
  <2>1. /\ DoneModules \in SUBSET (Files \cup {NotFound})
        /\ \A g \in DoneModules \cap Files : Imports(g) \subseteq DoneModules
    BY <1>2 DEF DoneIsClosed
  <2> QED
    BY <1>2, <2>1 DEF Reachable
<1> SUFFICES ASSUME NEW u \in Reachable \cup {Root}
             PROVE  /\ u \in Units /\ Finished(u)
                    /\ \A i \in DOMAIN Body(u).imports : i \in Nat /\ Passed(u, i)
  OBVIOUS
<1>4. u \in Units /\ Finished(u)
  BY <1>1, <1>2, <1>3 DEF Finished, Units
<1>5. Analyzed(u)
  BY <1>1, <1>3 DEF IInv, AnalysisProgress
<1>6. /\ Body(u).imports \in Seq(Files \cup {NotFound})
      /\ nextDep[u] \in Nat \ {0}
  BY <1>4, BodyType DEF IInv, TypeOK, AnalysisTypeOK
<1>7. \A i \in DOMAIN Body(u).imports : i \in Nat /\ i < nextDep[u]
  BY <1>5, <1>6 DEF Analyzed
<1>8. \A i \in DOMAIN Body(u).imports : Body(u).imports[i] \in Files
  BY <1>1, <1>2, <1>4, <1>7 DEF IInv, AnalysisProgress
<1> QED
  BY <1>4, <1>7, <1>8 DEF Passed

(* Whatever reaches the last stage is acceptable.                          *)
LEMMA AcceptedIsAcceptable ==
    ASSUME IInv, CInv, stage = "write"
    PROVE  Contract!Acceptable
<1>1. /\ CommandLinePassed /\ SourcesPassed /\ ImportsPassed /\ StatementsPassed
      /\ Acyclic(Reachable) /\ \A u \in Reachable \cup {Root} : NotFound \notin Imports(u)
  BY DoneCoversReachable DEF IInv, StageProgress, CInv, CleanIsCorrect, NothingBuiltOnACycle
<1>2. ASSUME NEW u \in Reachable \cup {Root} PROVE Contract!Correct(u)
  <2>1. /\ u \in Units /\ ~StatementErrors(u) /\ own[u] = Defined(u)
        /\ \A i \in DOMAIN Body(u).imports : i \in Nat /\ Passed(u, i)
    BY <1>1, <1>2, ReachableIsFinished DEF StatementsPassed
  <2>2. \A i, j \in DOMAIN Body(u).imports : i # j => Public(u, i) \cap Public(u, j) = {}
    BY <1>1, <2>1 DEF ImportsPassed
  <2>3. \A i \in DOMAIN Body(u).imports : Public(u, i) \cap Defined(u) = {}
    BY <1>1, <2>1 DEF ImportsPassed, StatementErrors
  <2>4. Contract!NoNameClash(u)
    BY <2>2, <2>3, ContractReads DEF Contract!NoNameClash, Public
  <2>5. Body(u).health # "malformed"
    <3>1. CASE u = Root
      BY <1>1, <3>1 DEF SourcesPassed
    <3>2. CASE u # Root
      <4>1. u \in Files /\ u \in DoneModules
        BY <1>2, <3>2, ReachableIsFinished DEF Reachable, Finished
      <4>2. state[u] = "LOADED"
        BY <4>1 DEF IInv, AnalysisProgress, DoneModules
      <4> QED
        BY <1>1, <3>2, <4>1, <4>2 DEF SourcesPassed, Body
    <3> QED
      BY <3>1, <3>2
  <2>6. Body(u).health \in {"ok", "noMain"}
    BY <2>1, <2>5, BodyType DEF StatementErrors, IInv, TypeOK, Source, Health
  <2> QED
    BY <1>1, <2>4, <2>6, ContractReads DEF Contract!Correct
<1>3. ~IsModule => Body(Root).health # "noMain"
  BY <1>1, ReachableIsFinished DEF StatementsPassed, StatementErrors
<1> QED
  BY <1>1, <1>2, <1>3, ContractReads DEF Contract!Acceptable, CommandLinePassed

(* Every step of the compiler is the decision of the contract, or nothing  *)
(* that the contract sees.                                                 *)
LEMMA StepImplementsDecide ==
    ASSUME IInv, CInv, CInv', [Next]_vars
    PROVE  [Contract!Decide]_(Contract!contractVars)
<1>1. UNCHANGED inputs
  BY InputsStay
<1>2. CASE UNCHANGED <<inputs, stage, output>>
  BY <1>2 DEF Contract!contractVars, Contract!inputs, inputs, verdict
<1>3. CASE WriteOutput /\ stage' = "done"
  <2>1. verdict = "pending" /\ verdict' = "accepted"
    BY <1>3 DEF WriteOutput, verdict
  <2>2. Contract!Acceptable
    BY <1>3, AcceptedIsAcceptable DEF WriteOutput
  <2>3. output' = "complete" \/ (Faults /\ output' = "partial")
    BY <1>3 DEF WriteOutput
  <2> QED
    BY <1>1, <2>1, <2>2, <2>3, ContractReads
    DEF Contract!Decide, Contract!Accept, Contract!inputs, inputs
<1>4. CASE /\ stage \notin {"done", "failed"} /\ stage' = "failed"
           /\ UNCHANGED output /\ HadErrors'
  <2>1. verdict = "pending" /\ verdict' = "rejected"
    BY <1>4 DEF verdict
  <2>2. Contract!Acceptable => Faults
    BY <1>1, <1>4, AcceptableStays, SourcesStay DEF CInv, RejectionIsDue
  <2> QED
    BY <1>1, <1>4, <2>1, <2>2, ContractReads
    DEF Contract!Decide, Contract!Reject, Contract!inputs, inputs
<1>5. CASE /\ stage \notin {"done", "failed"} /\ stage' \notin {"done", "failed"}
           /\ UNCHANGED output
  <2>1. UNCHANGED verdict
    BY <1>5 DEF verdict
  <2> QED
    BY <1>1, <1>5, <2>1 DEF Contract!contractVars, Contract!inputs, inputs
<1>6. CASE ParseFlags \/ ParseProgram \/ ResolveDone \/ AnalyzeDone \/ Generate
  BY <1>4, <1>5, <1>6 DEF ParseFlags, ParseProgram, ResolveDone, AnalyzeDone, Generate, Enter,
     HadErrors
<1>7. CASE WriteOutput
  BY <1>3, <1>4, <1>7 DEF WriteOutput, HadErrors, LogFatal
<1> QED
  BY <1>1, <1>2, <1>6, <1>7 DEF Next, Step, Terminated, vars, LoadModules, AnalyzeModules

(* CInv holds of every run of main, whatever it compiles.                  *)
THEOREM DecisionsAreFounded == Spec => []CInv
  BY ContractInit, ContractStep, Invariant, PTL DEF Spec

(* main and compilation_run implement the contract but for its liveness:   *)
(* the only visible step accepts an acceptable program and completes its   *)
(* output, or rejects one that is not acceptable or whose compilation      *)
(* failed, and leaves the output alone.                                    *)
THEOREM CompilationImplementsContract ==
    Spec => Contract!Init /\ [][Contract!Decide]_(Contract!contractVars)
<1>1. Init => Contract!Init
  BY DEF Init, InputInit, Contract!Init, Contract!InputInit, Contract!Settings, Settings, verdict
<1>2. IInv /\ CInv /\ CInv' /\ [Next]_vars => [Contract!Decide]_(Contract!contractVars)
  BY StepImplementsDecide
<1> QED
  BY <1>1, <1>2, Invariant, DecisionsAreFounded, PTL DEF Spec

=============================================================================
