-------------------------- MODULE Compilation_proofs --------------------------
(***************************************************************************)
(* Proofs about Compilation, for any import graph: the inductive invariant *)
(* IInv (lemmas for the two call stacks, for each walk and for the driver  *)
(* steps between them) and the safety properties that follow from it.      *)
(***************************************************************************)
EXTENDS Compilation, TLAPS

(* A call pushes the innermost activation in front of the others.           *)
LEMMA PushProperties ==
    ASSUME NEW S, NEW x \in S, NEW s \in Seq(S)
    PROVE  /\ <<x>> \o s \in Seq(S)
           /\ <<x>> \o s # <<>>
           /\ Len(<<x>> \o s) = Len(s) + 1
           /\ DOMAIN (<<x>> \o s) = 1 .. Len(s) + 1
           /\ \A i \in 1 .. Len(s) + 1 :
                 (<<x>> \o s)[i] = IF i = 1 THEN x ELSE s[i - 1]
  OBVIOUS

(* A return takes the innermost activation off the stack.                   *)
LEMMA PopProperties ==
    ASSUME NEW S, NEW s \in Seq(S), s # <<>>
    PROVE  /\ Head(s) \in S
           /\ Head(s) = s[1]
           /\ DOMAIN s = 1 .. Len(s)
           /\ Len(s) \in Nat \ {0}
           /\ Tail(s) \in Seq(S)
           /\ Len(Tail(s)) = Len(s) - 1
           /\ DOMAIN Tail(s) = 1 .. Len(s) - 1
           /\ \A i \in 1 .. Len(s) - 1 : Tail(s)[i] = s[i + 1]
  OBVIOUS

(* resolve_import and analyze_module recurse only into a module that has no *)
(* activation yet: the stack then still holds each unit once, Root at its end. *)
LEMMA PushActivation ==
    ASSUME NEW s \in Seq(Units), s # <<>>, OneActivationEach(s),
           NEW f \in Files, \A i \in DOMAIN s : s[i] # f
    PROVE  /\ OneActivationEach(<<f>> \o s)
           /\ \A u \in Units : (\E i \in DOMAIN (<<f>> \o s) : (<<f>> \o s)[i] = u)
                  <=> u = f \/ \E i \in DOMAIN s : s[i] = u
<1> DEFINE t == <<f>> \o s
<1>1. f \in Units /\ f # Root
  BY InputAssumption DEF Units
<1>2. /\ DOMAIN s = 1 .. Len(s)
      /\ Len(s) \in Nat \ {0}
      /\ Len(t) = Len(s) + 1
      /\ DOMAIN t = 1 .. Len(s) + 1
      /\ \A i \in 1 .. Len(s) + 1 : t[i] = IF i = 1 THEN f ELSE s[i - 1]
  BY <1>1, PushProperties, PopProperties
<1> HIDE DEF t
<1>3. OneActivationEach(t)
  <2>1. ASSUME NEW i \in DOMAIN t, NEW j \in DOMAIN t, i # j
        PROVE  t[i] # t[j]
    <3>1. i \in 1 .. Len(s) + 1 /\ j \in 1 .. Len(s) + 1
      BY <1>2
    <3>2. i # 1 => i - 1 \in DOMAIN s /\ t[i] = s[i - 1]
      BY <3>1, <1>2
    <3>3. j # 1 => j - 1 \in DOMAIN s /\ t[j] = s[j - 1]
      BY <3>1, <1>2
    <3>4. CASE i = 1
      BY <3>4, <3>1, <3>3, <2>1, <1>2
    <3>5. CASE j = 1
      BY <3>5, <3>1, <3>2, <2>1, <1>2
    <3>6. CASE i # 1 /\ j # 1
      <4>1. i - 1 # j - 1
        BY <2>1, <3>1
      <4>2. s[i - 1] # s[j - 1]
        BY <4>1, <3>6, <3>2, <3>3 DEF OneActivationEach
      <4> QED BY <4>2, <3>6, <3>2, <3>3
    <3> QED BY <3>4, <3>5, <3>6
  <2>2. ASSUME NEW i \in DOMAIN t
        PROVE  t[i] = Root <=> i = Len(t)
    BY <1>1, <1>2 DEF OneActivationEach
  <2> QED BY <2>1, <2>2 DEF OneActivationEach
<1>4. ASSUME NEW u \in Units
      PROVE  (\E i \in DOMAIN t : t[i] = u) <=> u = f \/ \E i \in DOMAIN s : s[i] = u
  <2>1. ASSUME u = f PROVE \E i \in DOMAIN t : t[i] = u
    BY <2>1, <1>2
  <2>2. ASSUME NEW i \in DOMAIN s, s[i] = u PROVE \E k \in DOMAIN t : t[k] = u
    <3>1. i + 1 \in DOMAIN t /\ t[i + 1] = u
      BY <2>2, <1>2
    <3> QED BY <3>1
  <2>3. ASSUME NEW i \in DOMAIN t, t[i] = u, u # f
        PROVE  \E k \in DOMAIN s : s[k] = u
    <3>1. i - 1 \in DOMAIN s /\ s[i - 1] = u
      BY <2>3, <1>2
    <3> QED BY <3>1
  <2> QED BY <2>1, <2>2, <2>3
<1> QED BY <1>3, <1>4 DEF t

(* When resolve_imports or analyze_program returns, exactly its own unit    *)
(* leaves the stack, and the stack is empty exactly when that unit was Root. *)
LEMMA PopActivation ==
    ASSUME NEW s \in Seq(Units), s # <<>>, OneActivationEach(s)
    PROVE  /\ OneActivationEach(Tail(s))
           /\ Head(s) \in Units
           /\ Tail(s) = <<>> <=> Head(s) = Root
           /\ \A u \in Units : (\E i \in DOMAIN Tail(s) : Tail(s)[i] = u)
                  <=> u # Head(s) /\ \E i \in DOMAIN s : s[i] = u
<1> DEFINE t == Tail(s)
<1>1. /\ Head(s) \in Units
      /\ Head(s) = s[1]
      /\ DOMAIN s = 1 .. Len(s)
      /\ Len(s) \in Nat \ {0}
      /\ t \in Seq(Units)
      /\ Len(t) = Len(s) - 1
      /\ DOMAIN t = 1 .. Len(s) - 1
      /\ \A i \in 1 .. Len(s) - 1 : t[i] = s[i + 1]
  BY PopProperties
<1> HIDE DEF t
<1>2. t = <<>> <=> Head(s) = Root
  <2>1. t = <<>> <=> Len(t) = 0
    BY <1>1
  <2> QED BY <2>1, <1>1 DEF OneActivationEach
<1>3. OneActivationEach(t)
  <2>1. ASSUME NEW i \in DOMAIN t, NEW j \in DOMAIN t, i # j
        PROVE  t[i] # t[j]
    <3>1. /\ i + 1 \in DOMAIN s /\ t[i] = s[i + 1]
          /\ j + 1 \in DOMAIN s /\ t[j] = s[j + 1]
      BY <1>1
    <3>2. i + 1 # j + 1
      BY <2>1, <1>1
    <3> QED BY <3>1, <3>2 DEF OneActivationEach
  <2>2. ASSUME NEW i \in DOMAIN t
        PROVE  t[i] = Root <=> i = Len(t)
    BY <1>1 DEF OneActivationEach
  <2> QED BY <2>1, <2>2 DEF OneActivationEach
<1>4. ASSUME NEW u \in Units
      PROVE  (\E i \in DOMAIN t : t[i] = u) <=> u # Head(s) /\ \E i \in DOMAIN s : s[i] = u
  <2>1. ASSUME NEW i \in DOMAIN t, t[i] = u
        PROVE  u # Head(s) /\ \E k \in DOMAIN s : s[k] = u
    <3>1. i + 1 \in DOMAIN s /\ s[i + 1] = u /\ i + 1 # 1 /\ 1 \in DOMAIN s
      BY <2>1, <1>1
    <3> QED BY <3>1, <1>1 DEF OneActivationEach
  <2>2. ASSUME NEW i \in DOMAIN s, s[i] = u, u # Head(s)
        PROVE  \E k \in DOMAIN t : t[k] = u
    <3>1. i - 1 \in DOMAIN t /\ t[i - 1] = u
      BY <2>2, <1>1
    <3> QED BY <3>1
  <2> QED BY <2>1, <2>2
<1> QED BY <1>1, <1>2, <1>3, <1>4 DEF t

-----------------------------------------------------------------------------
(* What the parser finds in a unit, the program's own file included.        *)
LEMMA BodyType ==
    ASSUME InputTypeOK, NEW u \in Units
    PROVE  /\ Body(u) \in Source
           /\ Body(u).imports \in Seq(Files \cup {NotFound})
           /\ Body(u).public \subseteq Names
           /\ Body(u).private \subseteq Names
           /\ DOMAIN Body(u).imports \subseteq Nat
           /\ \A i \in DOMAIN Body(u).imports :
                 Body(u).imports[i] \in Files \cup {NotFound}
<1>1. Body(u) \in Source
  BY InputAssumption DEF Body, Units, InputTypeOK
<1> QED BY <1>1 DEF Source

(* The log functions only ever record errors and fatals.                    *)
LEMMA LogType ==
    ASSUME log \in Severity
    PROVE  /\ LogError => log' \in Severity
           /\ LogFatal => log' \in Severity
           /\ \A b : LogErrorIf(b) => log' \in Severity
  BY DEF Severity, LogError, LogFatal, LogErrorIf, Logged, HadFatal

(* main starts with an empty log, no modules and no activations.            *)
LEMMA TypeInit == Init => TypeOK
<1> SUFFICES ASSUME Init PROVE TypeOK
  OBVIOUS
<1>1. InputTypeOK
  BY InputAssumption DEF Init, InputInit, InputTypeOK
<1>2. LoaderTypeOK
  BY DEF Init, LoaderInit, LoaderTypeOK, ModuleState
<1>3. AnalysisTypeOK
  BY DEF Init, AnalysisInit, AnalysisTypeOK, AnalysisState
<1> QED BY <1>1, <1>2, <1>3 DEF Init, TypeOK, Severity, Stage

(* Every branch of resolve_import and resolve_imports keeps the types of the *)
(* loader's state and of the log.                                           *)
LEMMA LoaderTypeStep ==
    ASSUME TypeOK, LoaderNext
    PROVE  log' \in Severity /\ LoaderTypeOK'
<1> USE DEF TypeOK, LoaderTypeOK
<1>1. loading # <<>> => Importer \in Units /\ Tail(loading) \in Seq(Units)
  BY PopProperties DEF Importer
<1>2. loading # <<>> => ImportIndex \in Nat \ {0}
  BY <1>1 DEF ImportIndex
<1>3. CASE ImportNotFound
  BY <1>3, <1>1, <1>2, LogType DEF ImportNotFound, HasImport, NextImport
<1>4. CASE ImportOutOfMemory
  BY <1>4, <1>1, <1>2, LogType DEF ImportOutOfMemory, HasImport, NextImport
<1>5. CASE ImportKnown
  BY <1>5, <1>1, <1>2 DEF ImportKnown, HasImport, NextImport, Resolve
<1>6. CASE ImportRejected
  <2>1. log' \in Severity
    BY <1>6, LogType DEF ImportRejected
  <2> QED BY <2>1, <1>6, <1>1, <1>2
          DEF ImportRejected, HasImport, NextImport, Resolve, ModuleState
<1>7. CASE ImportEntered
  <2>1. <<Target>> \o loading \in Seq(Units)
    BY <1>7, PushProperties DEF ImportEntered, Units
  <2> QED BY <2>1, <1>7, <1>1, <1>2
          DEF ImportEntered, HasImport, NextImport, Resolve, ModuleState
<1>8. CASE LoadReturn
  BY <1>8, <1>1 DEF LoadReturn, ModuleState
<1> QED BY <1>3, <1>4, <1>5, <1>6, <1>7, <1>8 DEF LoaderNext

(* Every branch of analyze_program and analyze_module keeps the types of the *)
(* analysis state; a resolved import names a file, so the modules it indexes exist. *)
LEMMA AnalysisTypeStep ==
    ASSUME TypeOK, LoaderProgress, AnalysisNext
    PROVE  log' \in Severity /\ AnalysisTypeOK'
<1> USE DEF TypeOK, AnalysisTypeOK
<1>1. analyzing # <<>> => Current \in Units /\ Tail(analyzing) \in Seq(Units)
  BY PopProperties DEF Current
<1>2. analyzing # <<>> => DepIndex \in Nat \ {0}
  BY <1>1 DEF DepIndex
<1>3. \A g \in Files : Visible(g) \subseteq Names
  BY DEF Visible, Units
<1>0. analyzing # <<>> /\ DepResolved => Dep \in Files
  BY <1>1 DEF LoaderProgress, DepResolved, Dep
<1>4. CASE DepImported
  <2>1. Dep \in Files
    BY <1>4, <1>0 DEF DepImported, HasDep
  <2>2. log' \in Severity
    BY <1>4, LogType DEF DepImported
  <2>3. PICK copied \in SUBSET Visible(Dep) :
           imported' = [imported EXCEPT ![Current] = @ \cup copied]
    BY <1>4 DEF DepImported
  <2>4. imported' \in [Units -> SUBSET Names]
    BY <2>1, <2>3, <1>3
  <2> QED BY <2>1, <2>2, <2>4, <1>4, <1>1, <1>2 DEF DepImported, HasDep, NextDep
<1>5. CASE DepFailed
  <2>1. analysis' \in [Files -> AnalysisState]
    BY <1>5 DEF DepFailed, AnalysisState
  <2>2. nextDep' \in [Units -> Nat \ {0}] /\ allOk' \in [Units -> BOOLEAN]
    BY <1>5, <1>1, <1>2 DEF DepFailed, HasDep, NextDep, NotOk
  <2> QED BY <2>1, <2>2, <1>5 DEF DepFailed
<1>6. CASE DepCyclic
  BY <1>6, <1>1, <1>2, LogType DEF DepCyclic, HasDep, NextDep, NotOk
<1>7. CASE DepEntered
  <2>1. Dep \in Files /\ analyzing # <<>>
    BY <1>7, <1>0 DEF DepEntered, HasDep
  <2>2. <<Dep>> \o analyzing \in Seq(Units)
    BY <2>1, PushProperties DEF Units
  <2> QED BY <2>1, <2>2, <1>7 DEF DepEntered, AnalysisState
<1>8. CASE AnalyzeReturn
  <2>1. Defined(Current) \subseteq Names
    BY <1>8, <1>1, BodyType DEF AnalyzeReturn, Defined
  <2> QED BY <2>1, <1>8, <1>1, LogType DEF AnalyzeReturn, AnalysisState, VerdictOn
<1> QED BY <1>4, <1>5, <1>6, <1>7, <1>8 DEF AnalysisNext

-----------------------------------------------------------------------------
(* The loader's loop counters tell what was done: passed imports are resolved *)
(* and listed, LOADED modules have passed all of theirs, FAILED ones are logged. *)
LEMMA LoaderProgressStep ==
    ASSUME TypeOK, LoaderProgress, LoadingIsOnStack, LoaderNext
    PROVE  LoaderProgress' /\ (HadErrors => HadErrors')
<1> USE DEF TypeOK, LoaderTypeOK
<1>1. loading # <<>> /\ src' = src
  BY DEF LoaderNext, ImportNotFound, ImportOutOfMemory, ImportKnown,
         ImportRejected, ImportEntered, LoadReturn, HasImport
<1>2. \A u : Body(u)' = Body(u)
  BY <1>1 DEF Body
<1>3. Importer \in Units /\ ImportIndex = nextImport[Importer] /\ ImportIndex \in Nat \ {0}
  BY <1>1, PopProperties DEF Importer, ImportIndex
<1>4. ASSUME HasImport
      PROVE  /\ ~Loaded(Importer)
             /\ ImportIndex \in DOMAIN Body(Importer).imports
             /\ \A f \in Files : state[f] = "LOADED" => f # Importer
  BY <1>4, <1>3 DEF HasImport, Loaded, LoaderProgress
<1>5. ASSUME NextImport
      PROVE  \A u \in Units :
                nextImport'[u] = IF u = Importer THEN ImportIndex + 1 ELSE nextImport[u]
  BY <1>5, <1>3 DEF NextImport
<1>6. ASSUME Resolve
      PROVE  \A u \in Units :
                resolved'[u] = IF u = Importer THEN resolved[u] \cup {ImportIndex}
                               ELSE resolved[u]
  BY <1>6, <1>3 DEF Resolve
<1>7. \A u \in Units : DOMAIN Body(u).imports \subseteq Nat
  BY BodyType
<1>8. \A u \in Files : u \in Units
  BY DEF Units
<1> HIDE DEF TypeOK, LoaderTypeOK
<1>9. CASE ImportNotFound \/ ImportOutOfMemory
  <2>1. HadErrors'
    BY <1>9 DEF ImportNotFound, ImportOutOfMemory, LogError, LogFatal, Logged,
                HadErrors, HadFatal
  <2>2. /\ HasImport /\ NextImport
        /\ UNCHANGED <<state, resolved>>
    BY <1>9 DEF ImportNotFound, ImportOutOfMemory
  <2>3. \A f \in Files : state[f] = "LOADED" => Loaded(f)'
    BY <2>2, <1>2, <1>4, <1>5, <1>8 DEF LoaderProgress, Loaded
  <2> QED BY <2>1, <2>2, <2>3, <1>2 DEF LoaderProgress
<1>10. CASE ImportKnown
  <2>1. /\ HasImport /\ NextImport /\ Resolve
        /\ Target \in Files /\ state[Target] # "UNLOADED"
        /\ UNCHANGED <<log, state>>
    BY <1>10 DEF ImportKnown, Listed
  <2>2. Target = Body(Importer).imports[ImportIndex]
    BY DEF Target
  <2>3. \A u \in Units : \A i \in resolved'[u] :
           i \in DOMAIN Body(u).imports /\ Body(u).imports[i] \in Files
    <3>1. ASSUME NEW u \in Units, NEW i \in resolved'[u], ~(i \in resolved[u])
          PROVE  u = Importer /\ i = ImportIndex
      BY <3>1, <2>1, <1>6
    <3>2. ImportIndex \in DOMAIN Body(Importer).imports
      BY <2>1, <1>4
    <3>3. \A u \in Units : \A i \in resolved[u] :
             i \in DOMAIN Body(u).imports /\ Body(u).imports[i] \in Files
      BY DEF LoaderProgress
    <3> QED BY <3>1, <3>2, <3>3, <2>1, <2>2
  <2>4. \A f \in Files : state[f] = "LOADED" => Loaded(f)'
    BY <2>1, <1>2, <1>4, <1>5, <1>8 DEF LoaderProgress, Loaded
  <2>5. ASSUME ~HadErrors, NEW u \in Units, NEW i \in DOMAIN Body(u).imports,
               i < nextImport'[u]
        PROVE  /\ i \in resolved'[u]
               /\ Body(u).imports[i] \in Files
               /\ state[Body(u).imports[i]] # "UNLOADED"
    <3>1. i \in Nat
      BY <1>7
    <3>2. CASE u = Importer /\ i = ImportIndex
      BY <3>2, <2>1, <2>2, <1>6
    <3>3. CASE ~(u = Importer /\ i = ImportIndex)
      <4>1. i < nextImport[u]
        BY <3>1, <3>3, <2>1, <2>5, <1>3, <1>5
      <4> QED BY <4>1, <2>5, <2>1, <1>6 DEF LoaderProgress
    <3> QED BY <3>2, <3>3
  <2>6. HadErrors' <=> HadErrors
    BY <2>1 DEF HadErrors
  <2> QED BY <2>1, <2>3, <2>4, <2>5, <2>6, <1>2 DEF LoaderProgress
<1>11. CASE ImportRejected \/ ImportEntered
  <2>1. /\ HasImport /\ NextImport /\ Resolve
        /\ Target \in Files /\ state[Target] = "UNLOADED"
    BY <1>11 DEF ImportRejected, ImportEntered, Listed
  <2>2. Target = Body(Importer).imports[ImportIndex]
    BY DEF Target
  <2>3. \E v \in {"FAILED", "LOADING"} :
           /\ state' = [state EXCEPT ![Target] = v]
           /\ v = "FAILED" => HadErrors'
    BY <1>11 DEF ImportRejected, ImportEntered, LogFatal, LogError, Logged, HadErrors,
                 HadFatal
  <2>4. HadErrors => HadErrors'
    BY <1>11 DEF ImportRejected, ImportEntered, LogFatal, LogError, Logged, HadErrors,
                 HadFatal
  <2>5. \A f \in Files : state'[f] # state[f] =>
           /\ f = Target
           /\ state'[f] \in {"FAILED", "LOADING"}
           /\ state'[f] = "FAILED" => HadErrors'
    BY <2>3, <2>1 DEF TypeOK, LoaderTypeOK
  <2>5a. state'[Target] # "UNLOADED"
    BY <2>3, <2>1 DEF TypeOK, LoaderTypeOK
  <2>6. \A u \in Units : \A i \in resolved'[u] :
           i \in DOMAIN Body(u).imports /\ Body(u).imports[i] \in Files
    <3>1. ASSUME NEW u \in Units, NEW i \in resolved'[u], ~(i \in resolved[u])
          PROVE  u = Importer /\ i = ImportIndex
      BY <3>1, <2>1, <1>6
    <3>2. ImportIndex \in DOMAIN Body(Importer).imports
      BY <2>1, <1>4
    <3>3. \A u \in Units : \A i \in resolved[u] :
             i \in DOMAIN Body(u).imports /\ Body(u).imports[i] \in Files
      BY DEF LoaderProgress
    <3> QED BY <3>1, <3>2, <3>3, <2>1, <2>2
  <2>7. \A f \in Files : state'[f] = "LOADED" => Loaded(f)'
    BY <2>1, <2>5, <1>2, <1>4, <1>5, <1>8 DEF LoaderProgress, Loaded
  <2>8. \A f \in Files : state'[f] = "FAILED" => HadErrors'
    BY <2>4, <2>5 DEF LoaderProgress
  <2>9. ASSUME ~HadErrors', NEW u \in Units, NEW i \in DOMAIN Body(u).imports,
               i < nextImport'[u]
        PROVE  /\ i \in resolved'[u]
               /\ Body(u).imports[i] \in Files
               /\ state'[Body(u).imports[i]] # "UNLOADED"
    <3>1. i \in Nat /\ ~HadErrors
      BY <1>7, <2>4, <2>9
    <3>2. CASE u = Importer /\ i = ImportIndex
      BY <3>2, <2>1, <2>2, <2>5a, <1>6
    <3>3. CASE ~(u = Importer /\ i = ImportIndex)
      <4>1. i < nextImport[u]
        BY <3>1, <3>3, <2>1, <2>9, <1>3, <1>5
      <4>2. /\ i \in resolved[u]
            /\ Body(u).imports[i] \in Files
            /\ state[Body(u).imports[i]] # "UNLOADED"
        BY <4>1, <3>1, <2>9 DEF LoaderProgress
      <4> QED BY <4>2, <2>1, <2>5, <1>6
    <3> QED BY <3>2, <3>3
  <2> QED BY <2>4, <2>6, <2>7, <2>8, <2>9, <1>2 DEF LoaderProgress
<1>12. CASE LoadReturn
  <2>1. /\ ~HasImport
        /\ UNCHANGED <<log, nextImport, resolved>>
    BY <1>12 DEF LoadReturn
  <2>2. HadErrors' <=> HadErrors
    BY <2>1 DEF HadErrors
  <2>3. \A f \in Files : state'[f] # state[f] =>
           f = Importer /\ state'[f] = IF HadFatal THEN "FAILED" ELSE "LOADED"
    BY <1>12 DEF LoadReturn, TypeOK, LoaderTypeOK
  <2>4. ~HadFatal => \A u \in Units : u = Importer => Loaded(u)'
    BY <2>1, <1>1, <1>2, <1>3 DEF HasImport, Loaded
  <2>5. \A f \in Files : state'[f] = "LOADED" => Loaded(f)'
    <3>1. \A f \in Files : Loaded(f)' = Loaded(f)
      BY <2>1, <1>2 DEF Loaded
    <3>2. \A f \in Files : state[f] = "LOADED" => Loaded(f)'
      BY <3>1 DEF LoaderProgress
    <3> QED BY <3>2, <2>3, <2>4, <1>8
  <2>6. \A f \in Files : state'[f] = "FAILED" => HadErrors'
    BY <2>2, <2>3 DEF LoaderProgress, HadFatal, HadErrors
  <2>7. \A f \in Files : state'[f] = "UNLOADED" => state[f] = "UNLOADED"
    BY <2>3
  <2> QED BY <2>1, <2>2, <2>5, <2>6, <2>7, <1>2 DEF LoaderProgress
<1> QED BY <1>9, <1>10, <1>11, <1>12 DEF LoaderNext

(* LOADING means: on resolve_imports' call stack.  When the stack empties, the *)
(* program's own imports have all been passed, or an error was logged.      *)
LEMMA LoadingStep ==
    ASSUME TypeOK, LoadingIsOnStack, LoaderNext
    PROVE  /\ LoadingIsOnStack'
           /\ loading' = <<>> => HadErrors' \/ Loaded(Root)'
<1>1. loading # <<>> /\ src' = src /\ loading \in Seq(Units) /\ state \in [Files -> ModuleState]
  BY DEF LoaderNext, ImportNotFound, ImportOutOfMemory, ImportKnown, ImportRejected,
         ImportEntered, LoadReturn, HasImport, TypeOK, LoaderTypeOK
<1>2. CASE ImportNotFound \/ ImportOutOfMemory \/ ImportKnown
  <2>1. UNCHANGED <<state, loading>>
    BY <1>2 DEF ImportNotFound, ImportOutOfMemory, ImportKnown
  <2> QED BY <2>1, <1>1 DEF LoadingIsOnStack, OneActivationEach
<1>3. CASE ImportRejected
  <2>1. /\ Target \in Files /\ state[Target] = "UNLOADED"
        /\ state' = [state EXCEPT ![Target] = "FAILED"]
        /\ loading' = loading
    BY <1>3 DEF ImportRejected, Listed
  <2>2. \A f \in Files : state'[f] = "LOADING" <=> state[f] = "LOADING"
    BY <2>1, <1>1
  <2> QED BY <2>1, <2>2, <1>1 DEF LoadingIsOnStack, OneActivationEach
<1>4. CASE ImportEntered
  <2>1. /\ Target \in Files /\ state[Target] = "UNLOADED"
        /\ state' = [state EXCEPT ![Target] = "LOADING"]
        /\ loading' = <<Target>> \o loading
    BY <1>4 DEF ImportEntered, Listed
  <2>2. /\ OneActivationEach(loading')
        /\ \A u \in Units : (\E i \in DOMAIN loading' : loading'[i] = u)
               <=> u = Target \/ \E i \in DOMAIN loading : loading[i] = u
    <3>1. \A i \in DOMAIN loading : loading[i] # Target
      BY <2>1 DEF LoadingIsOnStack
    <3>2. OneActivationEach(loading)
      BY DEF LoadingIsOnStack
    <3> QED BY <3>1, <3>2, <2>1, <1>1, PushActivation
  <2>3. \A f \in Files : state'[f] = "LOADING" <=> f = Target \/ state[f] = "LOADING"
    BY <2>1, <1>1
  <2>4. \A f \in Files : f \in Units
    BY DEF Units
  <2>5. loading' # <<>>
    BY <2>1, <1>1, PushProperties DEF Units
  <2> HIDE DEF Units
  <2>6. LoadingIsOnStack'
    <3>1. \A f \in Files :
             state'[f] = "LOADING" <=> \E i \in DOMAIN loading' : loading'[i] = f
      BY <2>2, <2>3, <2>4 DEF LoadingIsOnStack
    <3> QED BY <3>1, <2>2 DEF LoadingIsOnStack, OneActivationEach
  <2> QED BY <2>5, <2>6
<1>5. CASE LoadReturn
  <2>1. /\ ~HasImport
        /\ loading' = Tail(loading)
        /\ state' = IF Importer = Root THEN state
                    ELSE [state EXCEPT ![Importer] = IF HadFatal THEN "FAILED"
                                                                 ELSE "LOADED"]
        /\ UNCHANGED <<log, nextImport>>
    BY <1>5 DEF LoadReturn
  <2>2. /\ OneActivationEach(loading')
        /\ Importer \in Units
        /\ loading' = <<>> <=> Importer = Root
        /\ \A u \in Units : (\E i \in DOMAIN loading' : loading'[i] = u)
               <=> u # Importer /\ \E i \in DOMAIN loading : loading[i] = u
    BY <2>1, <1>1, PopActivation DEF LoadingIsOnStack, Importer
  <2>3. \A f \in Files : state'[f] = "LOADING" <=> f # Importer /\ state[f] = "LOADING"
    BY <2>1, <1>1, InputAssumption
  <2>4. \A f \in Files : f \in Units
    BY DEF Units
  <2>5. LoadingIsOnStack'
    <3>1. \A f \in Files :
             state'[f] = "LOADING" <=> \E i \in DOMAIN loading' : loading'[i] = f
      BY <2>2, <2>3, <2>4 DEF LoadingIsOnStack
    <3> QED BY <3>1, <2>2 DEF LoadingIsOnStack, OneActivationEach
  <2>6. ASSUME loading' = <<>> PROVE HadErrors' \/ Loaded(Root)'
    <3>1. Importer = Root
      BY <2>2, <2>6
    <3>2. CASE HadFatal
      BY <3>2, <2>1 DEF HadFatal, HadErrors
    <3>3. CASE ~HadFatal
      <4>1. Loaded(Root)
        BY <3>1, <3>3, <2>1, <1>1 DEF HasImport, Loaded, ImportIndex
      <4> QED BY <4>1, <2>1, <1>1 DEF Loaded, Body
    <3> QED BY <3>2, <3>3
  <2> QED BY <2>5, <2>6
<1> QED BY <1>2, <1>3, <1>4, <1>5, <1>1 DEF LoaderNext

-----------------------------------------------------------------------------
(* A module that imports only modules of an acyclic set closed under imports *)
(* can join it: what analyze_module does when it sets DONE.                 *)
LEMMA AcyclicExtension ==
    ASSUME NEW S, NEW f, f \notin S, Imports(f) \subseteq S,
           \A g \in S : Imports(g) \subseteq S, Acyclic(S)
    PROVE  Acyclic(S \cup {f})
<1> SUFFICES ASSUME NEW T \in SUBSET (S \cup {f}), T # {}
             PROVE  \E g \in T : Imports(g) \cap T = {}
  BY DEF Acyclic
<1>1. CASE T \ {f} = {}
  BY <1>1
<1>2. CASE T \ {f} # {}
  <2>1. PICK g \in T \ {f} : Imports(g) \cap (T \ {f}) = {}
    BY <1>2 DEF Acyclic
  <2>2. f \notin Imports(g)
    BY <2>1
  <2> QED BY <2>1, <2>2
<1> QED BY <1>1, <1>2

(* A unit whose imports were all passed with `ok' still true imports only DONE *)
(* modules (the fold of verdicts in analyze_program).                       *)
LEMMA ProgressClosesDone ==
    ASSUME TypeOK, AnalysisProgress
    PROVE  /\ DoneIsClosed
           /\ allOk[Root] /\ Analyzed(Root) => Imports(Root) \subseteq DoneModules
<1>1. ASSUME NEW u \in Units, allOk[u], Analyzed(u)
      PROVE  Imports(u) \subseteq DoneModules
  <2> SUFFICES ASSUME NEW i \in DOMAIN Body(u).imports
               PROVE  Body(u).imports[i] \in DoneModules
    BY DEF Imports
  <2>1. Body(u).imports \in Seq(Files \cup {NotFound})
    BY BodyType DEF TypeOK
  <2>2. DOMAIN Body(u).imports = 1 .. Len(Body(u).imports) /\ Len(Body(u).imports) \in Nat
    BY <2>1
  <2>3. nextDep[u] \in Nat \ {0}
    BY DEF TypeOK, AnalysisTypeOK
  <2>4. i < nextDep[u]
    BY <1>1, <2>2, <2>3 DEF Analyzed
  <2> QED BY <1>1, <2>4 DEF AnalysisProgress
<1>2. \A f \in DoneModules : f \in Units
  BY DEF DoneModules, Units
<1>3. Root \in Units
  BY DEF Units
<1> QED BY <1>1, <1>2, <1>3 DEF DoneIsClosed, AnalysisProgress

(* Every branch of analyze_program and analyze_module keeps the invariant, given *)
(* that the modules it meets were loaded.                                   *)
LEMMA AnalysisStep ==
    ASSUME TypeOK, LoaderProgress, InProgressIsOnStack, AnalysisProgress,
           AnalysisSeesLoadedModules, VerdictIsLogged, DoneIsAcyclic,
           stage = "analyze", AnalysisNext
    PROVE  /\ InProgressIsOnStack'
           /\ AnalysisProgress'
           /\ VerdictIsLogged'
           /\ DoneIsAcyclic'
           /\ analyzing' = <<>> => Analyzed(Root)'
           /\ HadErrors => HadErrors'
<1>1. /\ analyzing # <<>> /\ src' = src /\ state' = state
      /\ log \in Severity
      /\ analyzing \in Seq(Units)
      /\ analysis \in [Files -> AnalysisState]
      /\ nextDep \in [Units -> Nat \ {0}]
      /\ allOk \in [Units -> BOOLEAN]
  BY DEF AnalysisNext, DepImported, DepFailed, DepCyclic, DepEntered, AnalyzeReturn,
         HasDep, TypeOK, AnalysisTypeOK
<1>2. \A u : Body(u)' = Body(u)
  BY <1>1 DEF Body
<1>3. \A u : Imports(u)' = Imports(u)
  BY <1>2 DEF Imports
<1>4. Root \in Units /\ (\A f \in Files : f \in Units /\ f # Root)
  BY InputAssumption DEF Units
<1>5. Current \in Units /\ (Current # Root => Current \in Files /\ analysis[Current] = "IN_PROGRESS")
  <2>1. Current \in Units /\ Current = analyzing[1] /\ 1 \in DOMAIN analyzing
    BY <1>1, PopProperties DEF Current
  <2> QED BY <2>1 DEF InProgressIsOnStack, Units
<1>6. DepIndex = nextDep[Current] /\ DepIndex \in Nat \ {0}
  BY <1>1, <1>5 DEF DepIndex
<1>7. ASSUME HasDep
      PROVE  /\ DepResolved /\ Dep \in Files /\ state[Dep] = "LOADED"
             /\ DepIndex \in DOMAIN Body(Current).imports
             /\ ~Analyzed(Current)
  <2>1. /\ resolved[Current] = DOMAIN Body(Current).imports
        /\ \A f \in Imports(Current) : f \in Files /\ state[f] = "LOADED"
    BY <1>5 DEF AnalysisSeesLoadedModules, AnalysisProgress
  <2>2. Dep \in Imports(Current)
    BY <1>7 DEF HasDep, Dep, Imports
  <2> QED BY <1>6, <1>7, <2>1, <2>2 DEF HasDep, DepResolved, Analyzed
<1>8. ASSUME NextDep
      PROVE  \A u \in Units :
                nextDep'[u] = IF u = Current THEN DepIndex + 1 ELSE nextDep[u]
  BY <1>8, <1>1, <1>5 DEF NextDep
<1>9. ASSUME NotOk
      PROVE  \A u \in Units : allOk'[u] = IF u = Current THEN FALSE ELSE allOk[u]
  BY <1>9, <1>1, <1>5 DEF NotOk
<1>10. \A u \in Units : DOMAIN Body(u).imports \subseteq Nat
  BY BodyType DEF TypeOK
<1>11. \A f \in DoneModules : f \in Files /\ f \in Units /\ f # Current
  BY <1>4, <1>5 DEF DoneModules
<1> HIDE DEF Units
<1>12. CASE DepImported
  <2>1. /\ HasDep /\ NextDep /\ analysis[Dep] = "DONE"
        /\ UNCHANGED <<analysis, analyzing, allOk>>
    BY <1>12 DEF DepImported
  <2>2. HadErrors => HadErrors'
    BY <1>12 DEF DepImported, LogErrorIf, LogFatal, Logged, HadErrors, HadFatal
  <2>3. DoneModules' = DoneModules
    BY <2>1 DEF DoneModules
  <2>4. InProgressIsOnStack'
    BY <2>1 DEF InProgressIsOnStack, OneActivationEach
  <2>5. AnalysisProgress'
    <3>1. ASSUME NEW u \in Units, allOk[u], NEW i \in DOMAIN Body(u).imports,
                 i < nextDep'[u]
          PROVE  Body(u).imports[i] \in DoneModules
      <4>1. CASE u = Current /\ i = DepIndex
        BY <4>1, <2>1, <1>7 DEF DoneModules, Dep
      <4>2. CASE ~(u = Current /\ i = DepIndex)
        <5>1. i < nextDep[u]
          BY <4>2, <3>1, <2>1, <1>6, <1>8, <1>10
        <5> QED BY <5>1, <3>1 DEF AnalysisProgress
      <4> QED BY <4>1, <4>2
    <3>2. ASSUME NEW f \in DoneModules PROVE allOk[f] /\ Analyzed(f)'
      BY <2>1, <1>2, <1>8, <1>11 DEF AnalysisProgress, Analyzed
    <3> QED BY <3>1, <3>2, <2>1, <2>3, <1>1, <1>2 DEF AnalysisProgress
  <2>6. VerdictIsLogged'
    BY <2>1, <2>2 DEF VerdictIsLogged
  <2>7. DoneIsAcyclic'
    BY <2>3, <1>3 DEF DoneIsAcyclic, Acyclic
  <2> QED BY <2>1, <2>2, <2>4, <2>5, <2>6, <2>7, <1>1
<1>13. CASE DepFailed \/ DepCyclic
  <2>1. HasDep /\ NextDep /\ NotOk /\ analyzing' = analyzing
    BY <1>13 DEF DepFailed, DepCyclic
  <2>2. analysis' = analysis
    <3>1. CASE DepCyclic
      BY <3>1 DEF DepCyclic
    <3>2. CASE DepFailed
      <4>1. analysis[Dep] = "FAILED" /\ analysis' = [analysis EXCEPT ![Dep] = "FAILED"]
        BY <3>2, <2>1, <1>7 DEF DepFailed, DepUnusable
      <4> QED BY <4>1, <1>1
    <3> QED BY <1>13, <3>1, <3>2
  <2>3. HadErrors'
    <3>1. CASE DepCyclic
      BY <3>1 DEF DepCyclic, LogError, Logged, HadErrors, HadFatal
    <3>2. CASE DepFailed
      <4>1. analysis[Dep] = "FAILED" /\ log' = log
        BY <3>2, <2>1, <1>7 DEF DepFailed, DepUnusable
      <4> QED BY <4>1, <2>1, <1>7 DEF VerdictIsLogged, HadErrors
    <3> QED BY <1>13, <3>1, <3>2
  <2>4. DoneModules' = DoneModules
    BY <2>2 DEF DoneModules
  <2>5. InProgressIsOnStack'
    BY <2>1, <2>2 DEF InProgressIsOnStack, OneActivationEach
  <2>6. AnalysisProgress'
    <3>1. ASSUME NEW u \in Units, allOk'[u], NEW i \in DOMAIN Body(u).imports,
                 i < nextDep'[u]
          PROVE  Body(u).imports[i] \in DoneModules
      <4>1. u # Current /\ allOk[u] /\ i < nextDep[u]
        BY <3>1, <2>1, <1>8, <1>9
      <4> QED BY <4>1 DEF AnalysisProgress
    <3>2. ASSUME NEW f \in DoneModules PROVE allOk'[f] /\ Analyzed(f)'
      BY <2>1, <1>2, <1>8, <1>9, <1>11 DEF AnalysisProgress, Analyzed
    <3> QED BY <3>1, <3>2, <2>2, <2>4, <1>1, <1>2 DEF AnalysisProgress
  <2>7. VerdictIsLogged'
    BY <2>3 DEF VerdictIsLogged
  <2>8. DoneIsAcyclic'
    BY <2>4, <1>3 DEF DoneIsAcyclic, Acyclic
  <2> QED BY <2>1, <2>3, <2>5, <2>6, <2>7, <2>8, <1>1
<1>14. CASE DepEntered
  <2>1. /\ HasDep /\ analysis[Dep] = "PENDING"
        /\ analysis' = [analysis EXCEPT ![Dep] = "IN_PROGRESS"]
        /\ analyzing' = <<Dep>> \o analyzing
        /\ UNCHANGED <<log, nextDep, allOk>>
    BY <1>14 DEF DepEntered
  <2>2. Dep \in Files /\ state[Dep] = "LOADED"
    BY <2>1, <1>7
  <2>3. \A f \in Files : analysis'[f] = IF f = Dep THEN "IN_PROGRESS" ELSE analysis[f]
    BY <2>1, <2>2, <1>1
  <2>4. DoneModules' = DoneModules
    BY <2>1, <2>3 DEF DoneModules
  <2>5. /\ OneActivationEach(analyzing')
        /\ \A u \in Units : (\E i \in DOMAIN analyzing' : analyzing'[i] = u)
               <=> u = Dep \/ \E i \in DOMAIN analyzing : analyzing[i] = u
    <3>1. \A i \in DOMAIN analyzing : analyzing[i] # Dep
      BY <2>1, <2>2 DEF InProgressIsOnStack
    <3>2. OneActivationEach(analyzing)
      BY DEF InProgressIsOnStack
    <3>3. analyzing' = <<Dep>> \o analyzing
      BY <2>1
    <3> QED BY <3>1, <3>2, <3>3, <2>2, <1>1, PushActivation
  <2>6. analyzing' # <<>>
    BY <2>1, <2>2, <1>1, <1>4, PushProperties
  <2>7. InProgressIsOnStack'
    <3>1. \A f \in Files :
             analysis'[f] = "IN_PROGRESS" <=> \E i \in DOMAIN analyzing' : analyzing'[i] = f
      BY <2>3, <2>5, <1>4 DEF InProgressIsOnStack
    <3> QED BY <3>1, <2>5 DEF InProgressIsOnStack, OneActivationEach
  <2>8. AnalysisProgress'
    <3>1. \A u \in Units : Analyzed(u)' = Analyzed(u)
      BY <2>1, <1>2 DEF Analyzed
    <3>2. \A f \in Files : analysis'[f] # "PENDING" => state[f] = "LOADED"
      BY <2>2, <2>3 DEF AnalysisProgress
    <3> QED BY <3>1, <3>2, <2>1, <2>4, <1>1, <1>2, <1>11 DEF AnalysisProgress
  <2>9. VerdictIsLogged'
    BY <2>1, <2>3 DEF VerdictIsLogged, HadErrors
  <2>10. DoneIsAcyclic'
    BY <2>4, <1>3 DEF DoneIsAcyclic, Acyclic
  <2> QED BY <2>1, <2>6, <2>7, <2>8, <2>9, <2>10 DEF HadErrors
<1>15. CASE AnalyzeReturn
  <2>1. /\ ~HasDep
        /\ analyzing' = Tail(analyzing)
        /\ analysis' = IF Current = Root THEN analysis
                       ELSE [analysis EXCEPT ![Current] = VerdictOn(Current)]
        /\ UNCHANGED <<nextDep, allOk>>
    BY <1>15 DEF AnalyzeReturn
  <2>2. HadErrors => HadErrors'
    BY <1>15 DEF AnalyzeReturn, LogErrorIf, LogFatal, Logged, HadErrors, HadFatal
  <2>3. \A u \in Units : Analyzed(u)' = Analyzed(u)
    BY <2>1, <1>2 DEF Analyzed
  <2>4. Analyzed(Current)
    BY <2>1, <1>1 DEF HasDep, Analyzed, DepIndex
  <2>5. /\ OneActivationEach(analyzing')
        /\ analyzing' = <<>> <=> Current = Root
        /\ \A u \in Units : (\E i \in DOMAIN analyzing' : analyzing'[i] = u)
               <=> u # Current /\ \E i \in DOMAIN analyzing : analyzing[i] = u
    BY <2>1, <1>1, PopActivation DEF InProgressIsOnStack, Current
  <2>6. \A f \in Files :
           analysis'[f] = IF f = Current THEN (IF allOk[f] THEN "DONE" ELSE "FAILED")
                          ELSE analysis[f]
    BY <2>1, <1>1, <1>4 DEF VerdictOn
  <2>7. InProgressIsOnStack'
    <3>1. \A f \in Files :
             analysis'[f] = "IN_PROGRESS" <=> \E i \in DOMAIN analyzing' : analyzing'[i] = f
      BY <2>5, <2>6, <1>4 DEF InProgressIsOnStack
    <3> QED BY <3>1, <2>5 DEF InProgressIsOnStack, OneActivationEach
  <2>8. DoneModules \subseteq DoneModules'
    BY <2>6, <1>11 DEF DoneModules
  <2>9. AnalysisProgress'
    <3>1. \A f \in DoneModules' : allOk[f] /\ Analyzed(f)
      BY <2>4, <2>6 DEF DoneModules, AnalysisProgress
    <3>2. \A f \in Files : analysis'[f] # "PENDING" => state[f] = "LOADED"
      <4>1. Current \in Files => state[Current] = "LOADED"
        BY <1>4, <1>5 DEF AnalysisProgress
      <4> QED BY <4>1, <2>6 DEF AnalysisProgress
    <3>3. \A f \in DoneModules' : f \in Units
      BY <1>4 DEF DoneModules
    <3>4. \A u \in Units : allOk[u] =>
             \A i \in DOMAIN Body(u).imports :
                 i < nextDep[u] => Body(u).imports[i] \in DoneModules'
      BY <2>8 DEF AnalysisProgress
    <3> QED BY <3>1, <3>2, <3>3, <3>4, <2>1, <2>3, <1>1, <1>2 DEF AnalysisProgress
  <2>10. VerdictIsLogged'
    BY <2>1, <2>2, <2>6, <1>4 DEF VerdictIsLogged
  <2>11. DoneIsAcyclic'
    <3>1. CASE Current # Root /\ allOk[Current]
      <4>1. DoneModules' = DoneModules \cup {Current}
        BY <3>1, <2>6, <1>5 DEF DoneModules
      <4>2. Current \notin DoneModules
        BY <1>11
      <4>3. Imports(Current) \subseteq DoneModules
        <5> SUFFICES ASSUME NEW i \in DOMAIN Body(Current).imports
                     PROVE  Body(Current).imports[i] \in DoneModules
          BY DEF Imports
        <5>1. Body(Current).imports \in Seq(Files \cup {NotFound})
          BY <1>5, BodyType DEF TypeOK
        <5>2. i < nextDep[Current]
          BY <5>1, <2>4, <1>1, <1>5 DEF Analyzed
        <5> QED BY <5>2, <3>1, <1>5 DEF AnalysisProgress
      <4>4. \A g \in DoneModules : Imports(g) \subseteq DoneModules
        BY ProgressClosesDone DEF DoneIsClosed
      <4>5. Acyclic(DoneModules \cup {Current})
        BY <4>2, <4>3, <4>4, AcyclicExtension DEF DoneIsAcyclic
      <4> QED BY <4>1, <4>5, <1>3 DEF DoneIsAcyclic, Acyclic
    <3>2. CASE ~(Current # Root /\ allOk[Current])
      <4>1. DoneModules' = DoneModules
        BY <3>2, <2>6, <1>4, <1>5 DEF DoneModules
      <4> QED BY <4>1, <1>3 DEF DoneIsAcyclic, Acyclic
    <3> QED BY <3>1, <3>2
  <2>12. analyzing' = <<>> => Analyzed(Root)'
    BY <2>3, <2>4, <2>5, <1>4
  <2> QED BY <2>2, <2>7, <2>9, <2>10, <2>11, <2>12
<1> QED BY <1>12, <1>13, <1>14, <1>15 DEF AnalysisNext

-----------------------------------------------------------------------------
(* main and compilation_run between the walks: they move the stage, extend  *)
(* the log and set up the first activation of a walk, and nothing else.     *)
LEMMA DriverFrame ==
    ASSUME LoaderProgress, AnalysisProgress, VerdictIsLogged, DoneIsAcyclic,
           UNCHANGED <<src, state, resolved, nextImport, analysis, nextDep, allOk>>,
           HadErrors => HadErrors'
    PROVE  LoaderProgress' /\ AnalysisProgress' /\ VerdictIsLogged' /\ DoneIsAcyclic'
<1>1. \A u : Body(u)' = Body(u)
  BY DEF Body
<1>2. \A u : Imports(u)' = Imports(u) /\ Loaded(u)' = Loaded(u) /\ Analyzed(u)' = Analyzed(u)
  BY <1>1 DEF Imports, Loaded, Analyzed
<1>3. DoneModules' = DoneModules
  BY DEF DoneModules
<1>4. LoaderProgress'
  BY <1>1, <1>2 DEF LoaderProgress
<1>5. AnalysisProgress'
  BY <1>1, <1>2, <1>3 DEF AnalysisProgress
<1>6. VerdictIsLogged'
  BY DEF VerdictIsLogged
<1>7. DoneIsAcyclic'
  BY <1>2, <1>3 DEF DoneIsAcyclic, Acyclic
<1> QED BY <1>4, <1>5, <1>6, <1>7

(* The test at the end of a stage: the next stage is entered only with a     *)
(* clean log.                                                                *)
LEMMA EnterClean ==
    ASSUME NEW next, Enter(next), stage' # "failed"
    PROVE  stage' = next /\ ~HadErrors' /\ log' = "clean"
  BY DEF Enter, HadErrors

(* compilation_run starts both walks at the program itself.                 *)
LEMMA RootActivation ==
    /\ <<Root>> \in Seq(Units)
    /\ <<Root>> # <<>>
    /\ OneActivationEach(<<Root>>)
    /\ \A f \in Files : \A i \in DOMAIN <<Root>> : <<Root>>[i] # f
<1>1. <<Root>> \in Seq(Units) /\ DOMAIN <<Root>> = {1} /\ Len(<<Root>>) = 1 /\ <<Root>>[1] = Root
  BY DEF Units
<1> QED BY <1>1, InputAssumption DEF OneActivationEach

(* resolve_import never touches a module that is LOADED or FAILED again.    *)
LEMMA DecisionStays ==
    ASSUME TypeOK, LoadingIsOnStack, LoaderNext
    PROVE  \A f \in Files : state[f] \in {"LOADED", "FAILED"} => state'[f] = state[f]
<1> USE DEF TypeOK, LoaderTypeOK
<1>1. CASE ImportNotFound \/ ImportOutOfMemory \/ ImportKnown
  BY <1>1 DEF ImportNotFound, ImportOutOfMemory, ImportKnown
<1>2. CASE ImportRejected
  BY <1>2 DEF ImportRejected, Listed
<1>3. CASE ImportEntered
  BY <1>3 DEF ImportEntered, Listed
<1>4. CASE LoadReturn
  <2>1. Importer \in Files => state[Importer] = "LOADING"
    <3>1. Importer = loading[1] /\ 1 \in DOMAIN loading
      BY <1>4, PopProperties DEF LoadReturn, Importer
    <3> QED BY <3>1 DEF LoadingIsOnStack
  <2> QED BY <1>4, <2>1 DEF LoadReturn
<1> QED BY <1>1, <1>2, <1>3, <1>4 DEF LoaderNext

(* main's initial state satisfies the inductive invariant.                  *)
LEMMA InvInit == Init => IInv
<1> SUFFICES ASSUME Init PROVE IInv
  OBVIOUS
<1>1. TypeOK
  BY TypeInit
<1>2. /\ stage = "flags" /\ log = "clean" /\ loading = <<>> /\ analyzing = <<>>
      /\ \A f \in Files : state[f] = "UNLOADED" /\ analysis[f] = "PENDING"
      /\ \A u \in Units : /\ nextImport[u] = 1 /\ nextDep[u] = 1
                          /\ allOk[u] /\ resolved[u] = {}
  BY DEF Init, LoaderInit, AnalysisInit
<1>3. \A u \in Units : \A i \in DOMAIN Body(u).imports : i \in Nat \ {0}
  BY <1>1, BodyType DEF TypeOK
<1>4. \A u \in Units : \A i \in DOMAIN Body(u).imports : ~(i < 1)
  BY <1>3
<1>5. DOMAIN <<>> = {} /\ DoneModules = {}
  BY <1>2 DEF DoneModules
<1>6. LoadingIsOnStack /\ InProgressIsOnStack
  BY <1>2, <1>5 DEF LoadingIsOnStack, InProgressIsOnStack, OneActivationEach
<1>7. LoaderProgress
  BY <1>2, <1>4 DEF LoaderProgress
<1>8. AnalysisProgress
  BY <1>2, <1>4, <1>5 DEF AnalysisProgress
<1>9. StageProgress /\ AnalysisSeesLoadedModules
  BY <1>2 DEF StageProgress, AnalysisSeesLoadedModules
<1>10. VerdictIsLogged
  BY <1>2 DEF VerdictIsLogged
<1>11. DoneIsAcyclic
  BY <1>5 DEF DoneIsAcyclic, Acyclic
<1> QED BY <1>1, <1>6, <1>7, <1>8, <1>9, <1>10, <1>11 DEF IInv

(* A step of the loader keeps the invariant; it leaves the analysis alone.  *)
LEMMA LoadModulesStep == ASSUME IInv, LoadModules PROVE IInv'
<1> USE DEF LoadModules, IInv
<1>1. src' = src /\ loading # <<>>
  BY DEF LoaderNext, ImportNotFound, ImportOutOfMemory, ImportKnown, ImportRejected,
         ImportEntered, LoadReturn, HasImport
<1>2. stage = "resolve" /\ analyzing = <<>> /\ UNCHANGED <<setting, cmdline, stage, output, analysisVars>>
  BY DEF StageProgress
<1>3. TypeOK'
  BY <1>1, <1>2, LoaderTypeStep DEF TypeOK, InputTypeOK, analysisVars, AnalysisTypeOK
<1>4. LoaderProgress' /\ (HadErrors => HadErrors')
  BY LoaderProgressStep
<1>5. LoadingIsOnStack' /\ (loading' = <<>> => HadErrors' \/ Loaded(Root)')
  BY LoadingStep
<1>6. InProgressIsOnStack'
  BY <1>2 DEF InProgressIsOnStack, OneActivationEach, analysisVars
<1>7. AnalysisProgress'
  <2>1. \A u : Body(u)' = Body(u)
    BY <1>1 DEF Body
  <2>2. DoneModules' = DoneModules /\ \A u : Analyzed(u)' = Analyzed(u)
    BY <1>2, <2>1 DEF DoneModules, Analyzed, analysisVars
  <2>3. \A f \in Files : state[f] = "LOADED" => state'[f] = "LOADED"
    BY DecisionStays
  <2> QED BY <1>2, <2>1, <2>2, <2>3 DEF AnalysisProgress, analysisVars
<1>8. StageProgress' /\ AnalysisSeesLoadedModules'
  BY <1>2, <1>5 DEF StageProgress, AnalysisSeesLoadedModules, analysisVars
<1>9. VerdictIsLogged'
  BY <1>2, <1>4 DEF VerdictIsLogged, analysisVars
<1>10. DoneIsAcyclic'
  <2>1. DoneModules' = DoneModules /\ \A u : Imports(u)' = Imports(u)
    BY <1>1, <1>2 DEF DoneModules, analysisVars, Imports, Body
  <2> QED BY <2>1 DEF DoneIsAcyclic, Acyclic
<1> QED BY <1>3, <1>4, <1>5, <1>6, <1>7, <1>8, <1>9, <1>10

(* A step of the semantic driver keeps the invariant; it leaves the loader alone. *)
LEMMA AnalyzeModulesStep == ASSUME IInv, AnalyzeModules PROVE IInv'
<1> USE DEF AnalyzeModules, IInv
<1>1. /\ stage = "analyze" /\ loading = <<>>
      /\ UNCHANGED <<src, setting, cmdline, stage, output, loading, nextImport, state, resolved>>
  BY DEF StageProgress, AnalysisNext, DepImported, DepFailed, DepCyclic, DepEntered,
         AnalyzeReturn
<1>2. TypeOK'
  BY <1>1, AnalysisTypeStep DEF TypeOK, InputTypeOK, LoaderTypeOK
<1>3. /\ InProgressIsOnStack' /\ AnalysisProgress' /\ VerdictIsLogged' /\ DoneIsAcyclic'
      /\ analyzing' = <<>> => Analyzed(Root)'
      /\ HadErrors => HadErrors'
  BY <1>1, AnalysisStep
<1>4. \A u : Body(u)' = Body(u) /\ Imports(u)' = Imports(u) /\ Loaded(u)' = Loaded(u)
  BY <1>1 DEF Body, Imports, Loaded
<1>5. LoaderProgress' /\ LoadingIsOnStack'
  BY <1>1, <1>3, <1>4 DEF LoaderProgress, LoadingIsOnStack, OneActivationEach
<1>6. AnalysisSeesLoadedModules'
  BY <1>1, <1>4 DEF AnalysisSeesLoadedModules
<1>7. StageProgress'
  BY <1>1, <1>3 DEF StageProgress
<1> QED BY <1>2, <1>3, <1>5, <1>6, <1>7

(* The stage of resolution ended with a clean log: by then the loader has    *)
(* passed every import of every unit that it parsed.                         *)
LEMMA ResolutionIsComplete ==
    ASSUME IInv, stage = "resolve", loading = <<>>, ~HadErrors
    PROVE  \A u \in {Root} \cup {f \in Files : state[f] # "UNLOADED"} :
               /\ u \in Files => state[u] = "LOADED"
               /\ resolved[u] = DOMAIN Body(u).imports
               /\ \A f \in Imports(u) : f \in Files /\ state[f] = "LOADED"
<1> USE DEF IInv
<1>1. \A f \in Files : state[f] \in {"UNLOADED", "LOADED"}
  BY DEF LoadingIsOnStack, LoaderProgress, TypeOK, LoaderTypeOK, ModuleState
<1> SUFFICES ASSUME NEW u \in {Root} \cup {f \in Files : state[f] # "UNLOADED"}
             PROVE  /\ u \in Files => state[u] = "LOADED"
                    /\ resolved[u] = DOMAIN Body(u).imports
                    /\ \A f \in Imports(u) : f \in Files /\ state[f] = "LOADED"
  OBVIOUS
<1>2. u \in Units /\ Loaded(u)
  BY <1>1 DEF Units, LoaderProgress, StageProgress
<1>3. Body(u).imports \in Seq(Files \cup {NotFound}) /\ nextImport[u] \in Nat \ {0}
  BY <1>2, BodyType DEF TypeOK, LoaderTypeOK
<1>4. \A i \in DOMAIN Body(u).imports : i < nextImport[u]
  BY <1>2, <1>3 DEF Loaded
<1>5. \A i \in DOMAIN Body(u).imports :
         /\ i \in resolved[u]
         /\ Body(u).imports[i] \in Files
         /\ state[Body(u).imports[i]] # "UNLOADED"
  BY <1>2, <1>4 DEF LoaderProgress
<1>6. resolved[u] = DOMAIN Body(u).imports
  <2>1. \A i \in resolved[u] : i \in DOMAIN Body(u).imports
    BY <1>2 DEF LoaderProgress
  <2>2. \A i \in DOMAIN Body(u).imports : i \in resolved[u]
    BY <1>5
  <2> QED BY <2>1, <2>2
<1>7. \A f \in Imports(u) : f \in Files /\ state[f] = "LOADED"
  BY <1>1, <1>5 DEF Imports
<1>8. u \in Files => state[u] = "LOADED"
  BY <1>1, InputAssumption
<1> QED BY <1>6, <1>7, <1>8

(* A step of main or compilation_run between the two walks keeps the invariant. *)
LEMMA DriverStep ==
    ASSUME IInv,
           \/ ParseFlags \/ ParseProgram \/ ResolveDone \/ AnalyzeDone
           \/ Generate \/ WriteOutput
    PROVE  IInv'
<1> USE DEF IInv
<1>1. /\ UNCHANGED <<src, setting, cmdline, state, resolved, nextImport, analysis, nextDep, allOk,
                     imported, own>>
      /\ log' \in Severity
      /\ HadErrors => HadErrors'
  <2>1. UNCHANGED <<src, setting, cmdline, state, resolved, nextImport, analysis, nextDep, allOk,
                     imported, own>>
    BY DEF ParseFlags, ParseProgram, ResolveDone, AnalyzeDone, Generate, WriteOutput,
           inputs, loaderVars, analysisVars
  <2>2. \/ log' = log \/ log' = "fatal" \/ log' = Logged("errors")
    BY DEF ParseFlags, ParseProgram, ResolveDone, AnalyzeDone, Generate, WriteOutput,
           LogFatal, LogErrorIf
  <2> QED BY <2>1, <2>2 DEF TypeOK, Severity, Logged, HadErrors, HadFatal
<1>2. LoaderProgress' /\ AnalysisProgress' /\ VerdictIsLogged' /\ DoneIsAcyclic'
  BY <1>1, DriverFrame
<1>3. \A u : /\ Body(u)' = Body(u) /\ Imports(u)' = Imports(u)
            /\ Loaded(u)' = Loaded(u) /\ Analyzed(u)' = Analyzed(u)
  BY <1>1 DEF Body, Imports, Loaded, Analyzed
<1>4. ASSUME loading' \in Seq(Units), analyzing' \in Seq(Units), stage' \in Stage,
             output' \in {"previous", "partial", "complete"}
      PROVE  TypeOK'
  BY <1>1, <1>4 DEF TypeOK, InputTypeOK, LoaderTypeOK, AnalysisTypeOK
<1>5. ASSUME loading' = loading PROVE LoadingIsOnStack'
  BY <1>1, <1>5 DEF LoadingIsOnStack, OneActivationEach
<1>6. ASSUME analyzing' = analyzing PROVE InProgressIsOnStack'
  BY <1>1, <1>6 DEF InProgressIsOnStack, OneActivationEach
<1>7. /\ loading \in Seq(Units) /\ analyzing \in Seq(Units)
      /\ stage \in Stage /\ output \in {"previous", "partial", "complete"}
  BY DEF TypeOK, LoaderTypeOK, AnalysisTypeOK
<1>8. CASE ParseFlags
  <2>1. /\ stage = "flags" /\ stage' \in {"frontend", "failed"}
        /\ UNCHANGED <<output, loading, analyzing>>
    BY <1>8 DEF ParseFlags, Enter, loaderVars, analysisVars
  <2>2. TypeOK'
    BY <1>4, <1>7, <2>1 DEF Stage
  <2> QED BY <1>2, <1>5, <1>6, <2>1, <2>2 DEF StageProgress, AnalysisSeesLoadedModules
<1>9. CASE ParseProgram
  <2>1. /\ stage = "frontend" /\ stage' \in {"resolve", "failed"}
        /\ loading' = IF stage' = "resolve" THEN <<Root>> ELSE loading
        /\ loading = <<>> /\ analyzing = <<>>
        /\ UNCHANGED <<output, analyzing>>
    BY <1>9 DEF ParseProgram, Enter, analysisVars, StageProgress
  <2>2. TypeOK'
    BY <1>4, <1>7, <2>1, RootActivation DEF Stage
  <2>3. LoadingIsOnStack'
    BY <1>1, <2>1, RootActivation DEF LoadingIsOnStack, OneActivationEach
  <2>4. StageProgress' /\ AnalysisSeesLoadedModules'
    BY <2>1, RootActivation DEF StageProgress, AnalysisSeesLoadedModules
  <2> QED BY <1>2, <1>6, <2>1, <2>2, <2>3, <2>4
<1>10. CASE ResolveDone
  <2>1. /\ stage = "resolve" /\ loading = <<>> /\ log' = log
        /\ analyzing' = IF stage' = "analyze" THEN <<Root>> ELSE analyzing
        /\ analyzing = <<>>
        /\ UNCHANGED <<output, loading>>
    BY <1>10 DEF ResolveDone, loaderVars, StageProgress
  <2>2. stage' \in {"analyze", "failed"} /\ (stage' = "analyze" => ~HadErrors)
    BY <1>10, <2>1 DEF ResolveDone, Enter, HadErrors
  <2>3. TypeOK'
    BY <1>4, <1>7, <2>1, <2>2, RootActivation DEF Stage
  <2>4. InProgressIsOnStack'
    BY <1>1, <2>1, RootActivation DEF InProgressIsOnStack, OneActivationEach
  <2>5. StageProgress'
    BY <2>1, <2>2, RootActivation DEF StageProgress
  <2>6. AnalysisSeesLoadedModules'
    BY <1>1, <1>3, <2>1, <2>2, ResolutionIsComplete DEF AnalysisSeesLoadedModules
  <2> QED BY <1>2, <1>5, <2>1, <2>3, <2>4, <2>5, <2>6
<1>11. CASE AnalyzeDone \/ Generate \/ WriteOutput
  <2>1. /\ stage \in {"analyze", "codegen", "write"}
        /\ stage' \in {"codegen", "write", "done", "failed"}
        /\ UNCHANGED <<loading, analyzing>>
        /\ output' \in {"previous", "partial", "complete"}
    BY <1>7, <1>11 DEF AnalyzeDone, Generate, WriteOutput, Enter, loaderVars, analysisVars
  <2>2. stage' # "failed" => ~HadErrors' /\ analyzing = <<>> /\ Analyzed(Root) /\ loading = <<>>
    BY <1>11, <2>1 DEF AnalyzeDone, Generate, WriteOutput, Enter, StageProgress, HadErrors
  <2>3. TypeOK'
    BY <1>4, <1>7, <2>1 DEF Stage
  <2>4. StageProgress'
    BY <1>3, <2>1, <2>2 DEF StageProgress
  <2>5. AnalysisSeesLoadedModules'
    BY <1>1, <1>3, <2>1 DEF AnalysisSeesLoadedModules
  <2> QED BY <1>2, <1>5, <1>6, <2>1, <2>3, <2>4, <2>5
<1> QED BY <1>8, <1>9, <1>10, <1>11

(* A compiler that does nothing keeps the invariant.                        *)
LEMMA StutterStep == ASSUME IInv, UNCHANGED vars PROVE IInv'
<1> USE DEF IInv
<1>1. UNCHANGED <<src, setting, cmdline, log, state, resolved, loading, nextImport, analysis,
                  analyzing, nextDep, allOk, imported, own, stage, output>>
  BY DEF vars, inputs, loaderVars, analysisVars
<1>2. LoaderProgress' /\ AnalysisProgress' /\ VerdictIsLogged' /\ DoneIsAcyclic'
  BY <1>1, DriverFrame DEF HadErrors
<1>3. \A u : /\ Body(u)' = Body(u) /\ Imports(u)' = Imports(u)
            /\ Loaded(u)' = Loaded(u) /\ Analyzed(u)' = Analyzed(u)
  BY <1>1 DEF Body, Imports, Loaded, Analyzed
<1>4. TypeOK'
  BY <1>1 DEF TypeOK, InputTypeOK, LoaderTypeOK, AnalysisTypeOK
<1>5. LoadingIsOnStack' /\ InProgressIsOnStack'
  BY <1>1 DEF LoadingIsOnStack, InProgressIsOnStack, OneActivationEach
<1>6. StageProgress' /\ AnalysisSeesLoadedModules'
  BY <1>1, <1>3 DEF StageProgress, AnalysisSeesLoadedModules, HadErrors
<1> QED BY <1>2, <1>4, <1>5, <1>6

(* Every step keeps the invariant.                                          *)
LEMMA InvStep == IInv /\ [Next]_vars => IInv'
  BY LoadModulesStep, AnalyzeModulesStep, DriverStep, StutterStep DEF Next, Step, Terminated

-----------------------------------------------------------------------------
(* A program for which code is generated: everything it reaches is DONE,    *)
(* the DONE modules are closed under imports and acyclic.                   *)
LEMMA DoneCoversReachable == IInv => NothingBuiltOnACycle
<1> SUFFICES ASSUME IInv, stage \in {"codegen", "write", "done"}
             PROVE  /\ Acyclic(Reachable)
                    /\ \A u \in Reachable \cup {Root} : NotFound \notin Imports(u)
  BY DEF NothingBuiltOnACycle
<1>1. allOk[Root] /\ Analyzed(Root)
  BY DEF IInv, StageProgress, VerdictIsLogged, Units
<1>2. DoneIsClosed /\ Imports(Root) \subseteq DoneModules
  BY <1>1, ProgressClosesDone DEF IInv
<1>3. DoneModules \subseteq Files
  BY DEF DoneModules
<1>4. Reachable \subseteq DoneModules
  <2> SUFFICES ASSUME NEW f \in Reachable PROVE f \in DoneModules
    OBVIOUS
  <2>1. /\ DoneModules \in SUBSET (Files \cup {NotFound})
        /\ Imports(Root) \subseteq DoneModules
        /\ \A g \in DoneModules \cap Files : Imports(g) \subseteq DoneModules
    BY <1>2, <1>3 DEF DoneIsClosed
  <2> QED BY <2>1 DEF Reachable
<1>5. Acyclic(Reachable)
  BY <1>4 DEF IInv, DoneIsAcyclic, Acyclic
<1>6. \A u \in Reachable \cup {Root} : Imports(u) \subseteq DoneModules
  BY <1>2, <1>4 DEF DoneIsClosed
<1> QED BY <1>3, <1>5, <1>6, InputAssumption

(* What a unit imports is direct: only import_public_symbols adds to it.    *)
LEMMA ImportsAreDirectStep ==
    ASSUME IInv, ImportsAreDirect, [Next]_vars
    PROVE  ImportsAreDirect'
<1> USE DEF IInv
<1>1. src' = src /\ \A u : Imports(u)' = Imports(u)
  <2>1. src' = src
    BY DEF Next, Step, Terminated, vars, inputs, ParseFlags, ParseProgram, LoadModules,
           ResolveDone, AnalyzeModules, AnalyzeDone, Generate, WriteOutput, LoaderNext,
           ImportNotFound, ImportOutOfMemory, ImportKnown, ImportRejected, ImportEntered,
           LoadReturn, AnalysisNext, DepImported, DepFailed, DepCyclic, DepEntered,
           AnalyzeReturn
  <2> QED BY <2>1 DEF Imports, Body
<1>2. CASE imported' = imported
  BY <1>1, <1>2 DEF ImportsAreDirect
<1>3. CASE DepImported
  <2>1. Current \in Units /\ imported \in [Units -> SUBSET Names]
    BY <1>3, PopProperties DEF DepImported, HasDep, Current, TypeOK, AnalysisTypeOK
  <2>2. Dep \in Files /\ Dep \in Imports(Current)
    BY <1>3, <2>1 DEF DepImported, HasDep, Dep, Imports, LoaderProgress, DepResolved
  <2>3. Visible(Dep) \subseteq UNION {src[f].public : f \in Imports(Current) \cap Files}
    BY <2>2 DEF Visible
  <2>4. PICK copied \in SUBSET Visible(Dep) :
           imported' = [imported EXCEPT ![Current] = @ \cup copied]
    BY <1>3 DEF DepImported
  <2>5. \A u \in Units : imported'[u] = IF u = Current THEN imported[u] \cup copied
                                        ELSE imported[u]
    BY <2>1, <2>4
  <2> QED BY <1>1, <2>3, <2>5 DEF ImportsAreDirect
<1>4. imported' = imported \/ DepImported
  BY DEF Next, Step, Terminated, vars, analysisVars, ParseFlags, ParseProgram, LoadModules,
         ResolveDone, AnalyzeModules, AnalyzeDone, Generate, WriteOutput, AnalysisNext,
         DepFailed, DepCyclic, DepEntered, AnalyzeReturn
<1> QED BY <1>2, <1>3, <1>4

(* Every step either leaves the modules' states alone or is one of the loader's. *)
LEMMA LoadedOnceStep ==
    ASSUME IInv, [Next]_vars
    PROVE  [\A f \in Files : state[f] \in {"LOADED", "FAILED"} => state'[f] = state[f]]_state
<1>1. state' = state \/ LoaderNext
  BY DEF Next, Step, Terminated, vars, loaderVars, ParseFlags, ParseProgram, LoadModules,
         ResolveDone, AnalyzeModules, AnalyzeDone, Generate, WriteOutput, AnalysisNext,
         DepImported, DepFailed, DepCyclic, DepEntered, AnalyzeReturn
<1> QED BY <1>1, DecisionStays DEF IInv

-----------------------------------------------------------------------------
(* The inductive invariant holds of every run of main.                      *)
THEOREM Invariant == Spec => []IInv
  BY InvInit, InvStep, PTL DEF Spec

(* The loop counters, the call stacks of the two recursions and the module  *)
(* states keep their types in main.c, module.c and semantic.c.              *)
THEOREM TypeCorrect == Spec => []TypeOK
<1>1. IInv => TypeOK
  BY DEF IInv
<1> QED BY <1>1, Invariant, PTL

(* analyze_program and analyze_module never see an unresolved import or a   *)
(* module that did not load, the cases they would pass over in silence.     *)
THEOREM LoadedBeforeAnalysis == Spec => []AnalysisSeesLoadedModules
<1>1. IInv => AnalysisSeesLoadedModules
  BY DEF IInv
<1> QED BY <1>1, Invariant, PTL

(* IN_PROGRESS means: on analyze_program's call stack, once.                *)
THEOREM CyclesAreOnStack == Spec => []InProgressIsOnStack
<1>1. IInv => InProgressIsOnStack
  BY DEF IInv
<1> QED BY <1>1, Invariant, PTL

(* The verdict that compilation_run drops is in the log whenever it is      *)
(* false.                                                                   *)
THEOREM DroppedVerdictIsSafe == Spec => []VerdictIsLogged
<1>1. IInv => VerdictIsLogged
  BY DEF IInv
<1> QED BY <1>1, Invariant, PTL

(* analyze_module answers true only for a module whose imports it answered  *)
(* true for, and so never for a module on an import cycle.                  *)
THEOREM DoneModulesAreSound == Spec => [](DoneIsClosed /\ DoneIsAcyclic)
<1>1. IInv => DoneIsClosed /\ DoneIsAcyclic
  BY ProgressClosesDone DEF IInv
<1> QED BY <1>1, Invariant, PTL

(* compilation_run reaches code generation only for programs whose import   *)
(* graph has neither a cycle nor a missing file, whatever its size.         *)
THEOREM CodeOnlyForAcyclicPrograms == Spec => []NothingBuiltOnACycle
  BY DoneCoversReachable, Invariant, PTL

(* import_public_symbols never passes a function on: a unit only has the    *)
(* public functions of the modules it imports itself.                       *)
THEOREM ImportedNamesAreDirect == Spec => []ImportsAreDirect
<1>1. Init => ImportsAreDirect
  BY DEF Init, AnalysisInit, ImportsAreDirect
<1>2. IInv /\ ImportsAreDirect /\ [Next]_vars => ImportsAreDirect'
  BY ImportsAreDirectStep
<1> QED BY <1>1, <1>2, Invariant, PTL DEF Spec

(* resolve_import decides about a file once.                                *)
THEOREM ModulesLoadOnce == Spec => LoadedOnce
  BY LoadedOnceStep, Invariant, PTL DEF Spec, LoadedOnce

=============================================================================
