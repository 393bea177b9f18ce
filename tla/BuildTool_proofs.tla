---------------------------- MODULE BuildTool_proofs ----------------------------
(***************************************************************************)
(* Proofs about BuildTool, for any number of sources, texts, commands and  *)
(* edits, on a disk that does not fill up and where a library that can be  *)
(* written can be removed: what is reported is true, what is run is the    *)
(* binary of one build, and a library has no stale members.                *)
(***************************************************************************)
EXTENDS BuildTool, TLAPS

Contents == Texts \cup {Absent}
Histories == [Files -> SUBSET Contents]
Steps == {"collect", "loop", "assemble", "archive"}

Builds == [op : {"build"}, step : Steps, emit : Emits, files : SUBSET Files,
           todo : SUBSET Files, file : Files, had : Histories]
Cleans == [op : {"clean"}, ok : BOOLEAN, todo : SUBSET Artifacts]

TypeOK ==
    /\ src \in [Files -> Contents]
    /\ emit \in Emits
    /\ DOMAIN disk = Artifacts /\ disk = [a \in Artifacts |-> disk[a]]
    /\ cmd \in Builds \cup Cleans \cup {Idle}
    /\ due \in [Emits -> [files : SUBSET Files, had : Histories]]

(* A running command has reported and executed nothing yet.                *)
Silent ==
    /\ cmd # Idle => said = Nothing
    /\ cmd # Idle => ran = Absent

(* A source has one of the texts that it had during the build.             *)
HistoryIsKept == cmd.op = "build" => \A f \in Files : src[f] \in cmd.had[f]

(* What the build makes of f, and that it was made in this build.          *)
Target(f) == IF cmd.emit = "asm" THEN Asm(f) ELSE Obj(f)
MadeNow(f, content) == content \in cmd.had[f] \ {Absent}

BuildIsOnTrack ==
    cmd.op = "build" =>
        /\ cmd.step = "collect" => cmd.files = {}
        /\ cmd.todo \subseteq cmd.files
        /\ \A f \in cmd.files \ cmd.todo : MadeNow(f, disk[Target(f)])
        /\ cmd.step = "assemble" =>
               /\ cmd.emit # "asm"
               /\ cmd.file \in cmd.todo
               /\ MadeNow(cmd.file, disk[Asm(cmd.file)])
        /\ cmd.step = "archive" =>
               /\ cmd.emit = "lib"
               /\ cmd.todo = {}
               /\ disk[Lib] = Absent

(* What clean has passed and could remove is gone.                         *)
CleanIsOnTrack ==
    cmd.op = "clean" => (cmd.ok => \A a \in Artifacts \ cmd.todo : disk[a] = Absent)

(* Failed and interrupted builds leave no whole binary of their own.       *)
BinaryIsExact == disk[Bin] \notin {Absent, Partial} => IsProduct("bin", disk[Bin])

IInv ==
    /\ TypeOK
    /\ Silent
    /\ HistoryIsKept
    /\ BuildIsOnTrack
    /\ CleanIsOnTrack
    /\ BinaryIsExact
    /\ LibraryIsExact
    /\ ReportsAreTrue
    /\ RunsWhatWasBuilt

(* The folders of build/ are apart and keep their files apart.             *)
LEMMA ArtifactsDiffer ==
    /\ Bin \in Artifacts /\ Lib \in Artifacts /\ Bin # Lib
    /\ \A f \in Files : /\ Asm(f) \in Artifacts /\ Obj(f) \in Artifacts
                       /\ Asm(f) # Bin /\ Asm(f) # Lib /\ Obj(f) # Bin /\ Obj(f) # Lib
    /\ \A f, g \in Files : /\ Asm(f) # Obj(g)
                           /\ f # g => Asm(f) # Asm(g) /\ Obj(f) # Obj(g)
BY DEF Artifacts, Asm, Obj, Bin, Lib

(* Idle is no command, and the two commands differ.                        *)
LEMMA CommandsDiffer ==
    /\ Idle.op = "none"
    /\ Idle \notin Builds \cup Cleans
    /\ \A c \in Builds : c.op = "build"
    /\ \A c \in Cleans : c.op = "clean"
BY DEF Idle, Builds, Cleans

LEMMA InitIsCorrect == Init => IInv
<1> SUFFICES ASSUME Init PROVE IInv
  OBVIOUS
<1> USE DEF Init
<1>1. TypeOK
  BY DEF TypeOK, Contents, Histories, NothingDue
<1>2. Silent /\ HistoryIsKept /\ BuildIsOnTrack /\ CleanIsOnTrack
  BY CommandsDiffer DEF Silent, HistoryIsKept, BuildIsOnTrack, CleanIsOnTrack
<1>3. BinaryIsExact /\ LibraryIsExact
  BY ArtifactsDiffer DEF BinaryIsExact, LibraryIsExact
<1>4. ReportsAreTrue /\ RunsWhatWasBuilt
  BY DEF ReportsAreTrue, RunsWhatWasBuilt, Nothing
<1> QED
  BY <1>1, <1>2, <1>3, <1>4 DEF IInv

(* The messages that claim something.                                      *)
Success == {<<"build", e>> : e \in Emits} \cup {<<"clean", "done">>}

LEMMA NothingIsNoReport == Nothing \notin Success
BY DEF Success, Nothing, Emits

(* What is reported stays true while neither it nor the disk changes.      *)
LEMMA NothingReported ==
    ASSUME BinaryIsExact, LibraryIsExact, ReportsAreTrue, RunsWhatWasBuilt,
           UNCHANGED <<disk, due>>,
           said' = said \/ said' \notin Success,
           ran' = ran \/ ran' = Absent
    PROVE  BinaryIsExact' /\ LibraryIsExact' /\ ReportsAreTrue' /\ RunsWhatWasBuilt'
<1>2. BinaryIsExact' /\ LibraryIsExact'
  BY DEF BinaryIsExact, LibraryIsExact, IsProduct, IsFrom
<1>3. RunsWhatWasBuilt'
  BY DEF RunsWhatWasBuilt, IsProduct, IsFrom
<1>4. ReportsAreTrue'
  <2>1. CASE said' = said
    BY <2>1 DEF ReportsAreTrue, IsProduct, IsFrom
  <2>2. CASE said' # said
    BY <2>2 DEF ReportsAreTrue, Success, Emits
  <2> QED
    BY <2>1, <2>2
<1> QED
  BY <1>2, <1>3, <1>4

LEMMA EditKeeps ==
    ASSUME IInv, Edit
    PROVE  IInv'
<1>1. CASE emit' \in Emits \ {emit} /\ UNCHANGED <<src, cmd>>
  <2>1. TypeOK' /\ Silent' /\ HistoryIsKept'
    BY <1>1 DEF IInv, Edit, TypeOK, Silent, HistoryIsKept
  <2>2. BuildIsOnTrack' /\ CleanIsOnTrack'
    BY <1>1 DEF IInv, Edit, BuildIsOnTrack, CleanIsOnTrack, Target, MadeNow
  <2>3. BinaryIsExact' /\ LibraryIsExact' /\ ReportsAreTrue' /\ RunsWhatWasBuilt'
    BY NothingReported DEF IInv, Edit
  <2> QED
    BY <2>1, <2>2, <2>3 DEF IInv
<1>2. ASSUME NEW f \in Files, NEW t \in Texts \cup {Absent},
             src' = [src EXCEPT ![f] = t],
             cmd' = IF cmd.op = "build" THEN [cmd EXCEPT !.had[f] = @ \cup {t}] ELSE cmd,
             UNCHANGED emit
      PROVE  IInv'
  <2>1. BinaryIsExact' /\ LibraryIsExact' /\ ReportsAreTrue' /\ RunsWhatWasBuilt'
    BY NothingReported DEF IInv, Edit
  <2>2. CASE cmd.op # "build"
    <3>1. TypeOK' /\ Silent' /\ HistoryIsKept'
      BY <1>2, <2>2 DEF IInv, Edit, TypeOK, Silent, HistoryIsKept, Contents
    <3>2. BuildIsOnTrack' /\ CleanIsOnTrack'
      BY <1>2, <2>2 DEF IInv, Edit, BuildIsOnTrack, CleanIsOnTrack
    <3> QED
      BY <2>1, <3>1, <3>2 DEF IInv
  <2>3. CASE cmd.op = "build"
    <3>1. cmd \in Builds
      BY <2>3, CommandsDiffer DEF IInv, TypeOK
    <3>2. /\ cmd' \in Builds
          /\ cmd'.op = "build" /\ cmd'.step = cmd.step /\ cmd'.emit = cmd.emit
          /\ cmd'.files = cmd.files /\ cmd'.todo = cmd.todo /\ cmd'.file = cmd.file
          /\ cmd'.had = [cmd.had EXCEPT ![f] = @ \cup {t}]
      BY <1>2, <2>3, <3>1 DEF Builds, Histories, Contents
    <3>3. \A g \in Files : cmd.had[g] \subseteq cmd'.had[g]
      BY <3>1, <3>2 DEF Builds, Histories
    <3>4. TypeOK' /\ Silent'
      BY <1>2, <2>3, <3>1, <3>2, CommandsDiffer DEF IInv, Edit, TypeOK, Silent, Contents
    <3>5. HistoryIsKept'
      BY <1>2, <2>3, <3>1, <3>2, <3>3
      DEF IInv, TypeOK, HistoryIsKept, Builds, Histories
    <3>6. BuildIsOnTrack'
      BY <2>3, <3>1, <3>2, <3>3 DEF IInv, Edit, BuildIsOnTrack, Target, MadeNow, Builds
    <3>7. CleanIsOnTrack'
      BY <3>2 DEF CleanIsOnTrack
    <3> QED
      BY <2>1, <3>4, <3>5, <3>6, <3>7 DEF IInv
  <2> QED
    BY <2>2, <2>3
<1> QED
  BY <1>1, <1>2 DEF Edit

(* What follows when a command ends.                                       *)
LEMMA IdleIsOnTrack ==
    ASSUME cmd' = Idle
    PROVE  Silent' /\ HistoryIsKept' /\ BuildIsOnTrack' /\ CleanIsOnTrack'
BY CommandsDiffer DEF Silent, HistoryIsKept, BuildIsOnTrack, CleanIsOnTrack

(* Whole binaries and libraries only change when a build is done.          *)
LEMMA ProductsKept ==
    ASSUME BinaryIsExact, LibraryIsExact, RunsWhatWasBuilt,
           due' = due, ran' \in {ran, Absent},
           disk'[Bin] \in {disk[Bin], Absent, Partial},
           disk'[Lib] \in {disk[Lib], Absent, Partial}
    PROVE  BinaryIsExact' /\ LibraryIsExact' /\ RunsWhatWasBuilt'
<1>1. BinaryIsExact' /\ LibraryIsExact'
  BY DEF BinaryIsExact, LibraryIsExact, IsProduct, IsFrom
<1>2. RunsWhatWasBuilt'
  BY DEF RunsWhatWasBuilt, IsProduct, IsFrom
<1> QED
  BY <1>1, <1>2

LEMMA NoClaim ==
    ASSUME said' \notin Success
    PROVE  ReportsAreTrue'
BY DEF ReportsAreTrue, Success, Emits

LEMMA BuildingShape ==
    ASSUME IInv, cmd.op = "build"
    PROVE  /\ cmd \in Builds /\ cmd # Idle
           /\ said = Nothing /\ said \notin Success
           /\ ran = Absent
BY CommandsDiffer, NothingIsNoReport DEF IInv, TypeOK, Silent

LEMMA BuildStartsKeeps ==
    ASSUME IInv, BuildStarts
    PROVE  IInv'
<1>1. cmd' \in Builds /\ cmd'.op = "build" /\ cmd'.step = "collect"
      /\ cmd'.files = {} /\ cmd'.todo = {} /\ cmd'.had = [f \in Files |-> {src[f]}]
  BY BuildToolAssumption DEF IInv, TypeOK, BuildStarts, Builds, Histories, Steps
<1>2. TypeOK' /\ Silent' /\ HistoryIsKept'
  BY <1>1 DEF IInv, TypeOK, BuildStarts, Silent, HistoryIsKept
<1>3. BuildIsOnTrack' /\ CleanIsOnTrack'
  BY <1>1 DEF BuildIsOnTrack, CleanIsOnTrack
<1>4. BinaryIsExact' /\ LibraryIsExact' /\ ReportsAreTrue' /\ RunsWhatWasBuilt'
  BY NothingReported, NothingIsNoReport DEF IInv, BuildStarts
<1> QED
  BY <1>2, <1>3, <1>4 DEF IInv

LEMMA CollectKeeps ==
    ASSUME IInv, Collect
    PROVE  IInv'
<1>1. cmd \in Builds /\ said = Nothing /\ ran = Absent
  BY BuildingShape DEF Collect, Building
<1>2. /\ cmd' \in Builds /\ cmd'.op = "build" /\ cmd'.step = "loop"
      /\ cmd'.files = Present /\ cmd'.todo = Present /\ cmd'.had = cmd.had
  BY <1>1 DEF Collect, Builds, Steps, Present, Building
<1>3. TypeOK' /\ Silent' /\ HistoryIsKept'
  BY <1>1, <1>2 DEF IInv, TypeOK, Collect, Silent, HistoryIsKept, Building
<1>4. BuildIsOnTrack' /\ CleanIsOnTrack'
  BY <1>2 DEF BuildIsOnTrack, CleanIsOnTrack
<1>5. BinaryIsExact' /\ LibraryIsExact' /\ ReportsAreTrue' /\ RunsWhatWasBuilt'
  BY NothingReported DEF IInv, Collect
<1> QED
  BY <1>3, <1>4, <1>5 DEF IInv

LEMMA CompileKeeps ==
    ASSUME IInv, Compile, ~DiskMayFill
    PROVE  IInv'
<1>1. cmd \in Builds /\ said = Nothing /\ said \notin Success /\ ran = Absent
  BY BuildingShape DEF Compile, Building
<1>2. PICK f \in cmd.todo :
          /\ src[f] # Absent
          /\ disk' = [disk EXCEPT ![Asm(f)] = src[f]]
          /\ cmd' = IF cmd.emit = "asm"
                    THEN [cmd EXCEPT !.todo = @ \ {f}]
                    ELSE [cmd EXCEPT !.step = "assemble", !.file = f]
  BY DEF Compile, Written
<1>3. f \in Files /\ f \in cmd.files /\ MadeNow(f, src[f]) /\ cmd.step = "loop"
  BY <1>1, <1>2 DEF IInv, BuildIsOnTrack, HistoryIsKept, MadeNow, Builds, Compile, Building
<1>4. /\ disk'[Asm(f)] = src[f]
      /\ \A a \in Artifacts \ {Asm(f)} : disk'[a] = disk[a]
      /\ DOMAIN disk' = Artifacts /\ disk' = [a \in Artifacts |-> disk'[a]]
  BY <1>2, <1>3, ArtifactsDiffer DEF IInv, TypeOK
<1>5. BinaryIsExact' /\ LibraryIsExact' /\ RunsWhatWasBuilt'
  BY <1>1, <1>3, <1>4, ArtifactsDiffer, ProductsKept DEF IInv, Compile
<1>6. ReportsAreTrue'
  BY <1>1, NoClaim DEF Compile
<1>7. CASE cmd.emit = "asm"
  <2>1. /\ cmd' \in Builds /\ cmd'.op = "build" /\ cmd'.step = "loop"
        /\ cmd'.files = cmd.files /\ cmd'.todo = cmd.todo \ {f}
        /\ cmd'.had = cmd.had /\ cmd'.emit = "asm"
    BY <1>1, <1>2, <1>3, <1>7 DEF Builds
  <2>2. TypeOK' /\ Silent' /\ HistoryIsKept'
    BY <1>1, <1>4, <2>1 DEF IInv, TypeOK, Compile, Silent, HistoryIsKept, Building
  <2>3. \A g \in cmd.files \ (cmd.todo \ {f}) : MadeNow(g, disk'[Asm(g)])
    <3> SUFFICES ASSUME NEW g \in cmd.files \ (cmd.todo \ {f}) PROVE MadeNow(g, disk'[Asm(g)])
      OBVIOUS
    <3>1. CASE g = f
      BY <1>3, <1>4, <3>1
    <3>2. CASE g # f
      <4>1. g \in Files /\ MadeNow(g, disk[Asm(g)])
        BY <1>1, <1>3, <1>7, <3>2 DEF IInv, BuildIsOnTrack, Target, Builds
      <4>2. Asm(g) \in Artifacts /\ Asm(g) # Asm(f)
        BY <1>3, <3>2, <4>1, ArtifactsDiffer
      <4> QED
        BY <1>4, <4>1, <4>2
    <3> QED
      BY <3>1, <3>2
  <2>4. cmd'.todo \subseteq cmd'.files
    BY <1>1, <2>1 DEF IInv, BuildIsOnTrack, Builds
  <2>5. BuildIsOnTrack' /\ CleanIsOnTrack'
    BY <2>1, <2>3, <2>4 DEF BuildIsOnTrack, CleanIsOnTrack, Target, MadeNow
  <2> QED
    BY <1>5, <1>6, <2>2, <2>5 DEF IInv
<1>8. CASE cmd.emit # "asm"
  <2>1. /\ cmd' \in Builds /\ cmd'.op = "build" /\ cmd'.step = "assemble"
        /\ cmd'.files = cmd.files /\ cmd'.todo = cmd.todo /\ cmd'.file = f
        /\ cmd'.had = cmd.had /\ cmd'.emit = cmd.emit
    BY <1>1, <1>2, <1>3, <1>8 DEF Builds, Steps
  <2>2. TypeOK' /\ Silent' /\ HistoryIsKept'
    BY <1>1, <1>4, <2>1 DEF IInv, TypeOK, Compile, Silent, HistoryIsKept, Building
  <2>3. \A g \in cmd.files \ cmd.todo : MadeNow(g, disk'[Obj(g)])
    <3> SUFFICES ASSUME NEW g \in cmd.files \ cmd.todo PROVE MadeNow(g, disk'[Obj(g)])
      OBVIOUS
    <3>1. g \in Files /\ MadeNow(g, disk[Obj(g)])
      BY <1>1, <1>3, <1>8 DEF IInv, BuildIsOnTrack, Target, Builds
    <3>2. Obj(g) \in Artifacts /\ Obj(g) # Asm(f)
      BY <1>3, <3>1, ArtifactsDiffer
    <3> QED
      BY <1>4, <3>1, <3>2
  <2>4. MadeNow(f, disk'[Asm(f)]) /\ cmd.todo \subseteq cmd.files
    BY <1>1, <1>3, <1>4 DEF IInv, BuildIsOnTrack, MadeNow, Builds
  <2>5. BuildIsOnTrack' /\ CleanIsOnTrack'
    BY <1>8, <2>1, <2>3, <2>4 DEF BuildIsOnTrack, CleanIsOnTrack, Target, MadeNow
  <2> QED
    BY <1>5, <1>6, <2>2, <2>5 DEF IInv
<1> QED
  BY <1>7, <1>8

LEMMA AssembleKeeps ==
    ASSUME IInv, Assemble
    PROVE  IInv'
<1> DEFINE f == cmd.file
<1>1. cmd \in Builds /\ said = Nothing /\ said \notin Success /\ ran = Absent
  BY BuildingShape DEF Assemble, Building
<1>2. /\ f \in Files /\ f \in cmd.todo /\ cmd.todo \subseteq cmd.files
      /\ cmd.emit # "asm" /\ MadeNow(f, disk[Asm(f)])
  BY <1>1 DEF IInv, BuildIsOnTrack, Assemble, Building, Builds
<1>3. /\ cmd' \in Builds /\ cmd'.op = "build" /\ cmd'.step = "loop"
      /\ cmd'.files = cmd.files /\ cmd'.todo = cmd.todo \ {f}
      /\ cmd'.had = cmd.had /\ cmd'.emit = cmd.emit
  BY <1>1 DEF Assemble, Builds, Steps, Building
<1>4. /\ disk'[Obj(f)] = disk[Asm(f)]
      /\ \A a \in Artifacts \ {Obj(f)} : disk'[a] = disk[a]
      /\ DOMAIN disk' = Artifacts /\ disk' = [a \in Artifacts |-> disk'[a]]
  BY <1>2, ArtifactsDiffer DEF IInv, TypeOK, Assemble
<1>5. BinaryIsExact' /\ LibraryIsExact' /\ RunsWhatWasBuilt'
  BY <1>1, <1>2, <1>4, ArtifactsDiffer, ProductsKept DEF IInv, Assemble
<1>6. ReportsAreTrue'
  BY <1>1, NoClaim DEF Assemble
<1>7. TypeOK' /\ Silent' /\ HistoryIsKept'
  BY <1>1, <1>3, <1>4 DEF IInv, TypeOK, Assemble, Silent, HistoryIsKept, Building
<1>8. \A g \in cmd.files \ (cmd.todo \ {f}) : MadeNow(g, disk'[Obj(g)])
  <2> SUFFICES ASSUME NEW g \in cmd.files \ (cmd.todo \ {f}) PROVE MadeNow(g, disk'[Obj(g)])
    OBVIOUS
  <2>1. CASE g = f
    BY <1>2, <1>4, <2>1
  <2>2. CASE g # f
    <3>1. g \in Files /\ MadeNow(g, disk[Obj(g)])
      BY <1>1, <1>2, <2>2 DEF IInv, BuildIsOnTrack, Target, Builds
    <3>2. Obj(g) \in Artifacts /\ Obj(g) # Obj(f)
      BY <1>2, <2>2, <3>1, ArtifactsDiffer
    <3> QED
      BY <1>4, <3>1, <3>2
  <2> QED
    BY <2>1, <2>2
<1>9. BuildIsOnTrack' /\ CleanIsOnTrack'
  BY <1>2, <1>3, <1>8 DEF BuildIsOnTrack, CleanIsOnTrack, Target, MadeNow
<1> QED
  BY <1>5, <1>6, <1>7, <1>9 DEF IInv

(* What is due after a build that is done is what it compiled.             *)
LEMMA BuildDoneEffects ==
    ASSUME IInv, cmd.op = "build", BuildDone
    PROVE  /\ cmd' = Idle /\ said' = <<"build", cmd.emit>> /\ ran' = Absent
           /\ emit' \in Emits /\ src' \in [Files -> Contents]
           /\ due' \in [Emits -> [files : SUBSET Files, had : Histories]]
           /\ due'[cmd.emit].files = cmd.files /\ due'[cmd.emit].had = cmd.had
           /\ \A e \in Emits \ {cmd.emit} : due'[e] = due[e]
<1>1. cmd \in Builds /\ ran = Absent
  BY BuildingShape
<1>2. due' = [due EXCEPT ![cmd.emit] = [files |-> cmd.files, had |-> cmd.had]]
  BY DEF BuildDone
<1>3. cmd.emit \in Emits /\ cmd.files \in SUBSET Files /\ cmd.had \in Histories
  BY <1>1 DEF Builds
<1> QED
  BY <1>1, <1>2, <1>3 DEF IInv, TypeOK, BuildDone, Says

LEMMA EmitDoneKeeps ==
    ASSUME IInv, EmitDone
    PROVE  IInv'
<1>1. cmd \in Builds /\ cmd.op = "build" /\ cmd.todo = {} /\ UNCHANGED disk
  BY BuildingShape DEF EmitDone, AllCompiled, Building
<1>2. /\ cmd' = Idle /\ said' = <<"build", cmd.emit>> /\ ran' = Absent
      /\ due'[cmd.emit].files = cmd.files /\ due'[cmd.emit].had = cmd.had
      /\ due'["bin"] = due["bin"] /\ due'["lib"] = due["lib"]
      /\ cmd.emit \in {"asm", "obj"}
  BY <1>1, BuildDoneEffects DEF EmitDone, Emits
<1>3. TypeOK'
  BY <1>1, <1>2, BuildDoneEffects DEF IInv, TypeOK, EmitDone, BuildDone
<1>4. Silent' /\ HistoryIsKept' /\ BuildIsOnTrack' /\ CleanIsOnTrack'
  BY <1>2, IdleIsOnTrack
<1>5. BinaryIsExact' /\ LibraryIsExact' /\ RunsWhatWasBuilt'
  BY <1>1, <1>2 DEF IInv, BinaryIsExact, LibraryIsExact, RunsWhatWasBuilt, IsProduct, IsFrom
<1>6. \A f \in cmd.files : MadeNow(f, disk[Target(f)])
  BY <1>1 DEF IInv, BuildIsOnTrack
<1>7. ReportsAreTrue'
  BY <1>1, <1>2, <1>6 DEF ReportsAreTrue, IsFrom, MadeNow, Target
<1> QED
  BY <1>3, <1>4, <1>5, <1>7 DEF IInv

(* The objects of a build are one program, or the members of one library.  *)
LEMMA ObjectsAreMadeNow ==
    ASSUME IInv, cmd.op = "build", cmd.todo = {}, cmd.emit # "asm"
    PROVE  /\ DOMAIN Objects = cmd.files
           /\ \A f \in cmd.files : MadeNow(f, Objects[f])
           /\ Objects \notin {Absent, Partial}
<1>1. cmd \in Builds
  BY BuildingShape
<1>2. \A f \in cmd.files : disk[Obj(f)] \in cmd.had[f] \ {Absent}
  BY DEF IInv, BuildIsOnTrack, MadeNow, Target
<1>3. Objects = [f \in cmd.files |-> disk[Obj(f)]]
  BY DEF Objects, ObjectFiles
<1>4. \A f \in cmd.files : disk[Obj(f)] \in Texts
  BY <1>1, <1>2 DEF Builds, Histories, Contents
<1>5. Objects \in [cmd.files -> Texts] /\ cmd.files \in SUBSET Files
  BY <1>1, <1>3, <1>4 DEF Builds
<1>6. Objects \notin {Absent, Partial}
  BY <1>5, BuildToolAssumption
<1> QED
  BY <1>2, <1>3, <1>6 DEF MadeNow

LEMMA LinkKeeps ==
    ASSUME IInv, Link
    PROVE  IInv'
<1>1. /\ cmd \in Builds /\ cmd.op = "build" /\ cmd.todo = {} /\ cmd.emit = "bin"
      /\ disk' = [disk EXCEPT ![Bin] = Objects]
  BY BuildingShape DEF Link, AllCompiled, Building
<1>2. /\ cmd' = Idle /\ said' = <<"build", "bin">> /\ ran' = Absent
      /\ due'["bin"].files = cmd.files /\ due'["bin"].had = cmd.had
      /\ due'["lib"] = due["lib"]
  BY <1>1, BuildDoneEffects DEF Link, Emits
<1>3. /\ disk'[Bin] = Objects /\ disk'[Lib] = disk[Lib]
      /\ DOMAIN disk' = Artifacts /\ disk' = [a \in Artifacts |-> disk'[a]]
  BY <1>1, ArtifactsDiffer DEF IInv, TypeOK
<1>4. TypeOK'
  BY <1>1, <1>2, <1>3, BuildDoneEffects DEF TypeOK, Link
<1>5. Silent' /\ HistoryIsKept' /\ BuildIsOnTrack' /\ CleanIsOnTrack'
  BY <1>2, IdleIsOnTrack
<1>6. IsProduct("bin", disk[Bin])'
  BY <1>1, <1>2, <1>3, ObjectsAreMadeNow DEF IsProduct, IsFrom, MadeNow
<1>7. BinaryIsExact' /\ LibraryIsExact' /\ RunsWhatWasBuilt' /\ ReportsAreTrue'
  BY <1>2, <1>3, <1>6
  DEF IInv, BinaryIsExact, LibraryIsExact, RunsWhatWasBuilt, ReportsAreTrue, IsProduct, IsFrom
<1> QED
  BY <1>4, <1>5, <1>7 DEF IInv

LEMMA RemoveLibraryKeeps ==
    ASSUME IInv, RemoveLibrary, ~RemovalMayFail
    PROVE  IInv'
<1>1. /\ cmd \in Builds /\ cmd.op = "build" /\ cmd.todo = {} /\ cmd.emit = "lib"
      /\ said = Nothing /\ said \notin Success /\ ran = Absent
  BY BuildingShape DEF RemoveLibrary, AllCompiled, Building
<1>2. /\ cmd' \in Builds /\ cmd'.op = "build" /\ cmd'.step = "archive"
      /\ cmd'.files = cmd.files /\ cmd'.todo = {}
      /\ cmd'.had = cmd.had /\ cmd'.emit = "lib"
  BY <1>1 DEF RemoveLibrary, Builds, Steps
<1>3. /\ disk'[Lib] = Absent
      /\ \A a \in Artifacts \ {Lib} : disk'[a] = disk[a]
      /\ DOMAIN disk' = Artifacts /\ disk' = [a \in Artifacts |-> disk'[a]]
  BY ArtifactsDiffer DEF IInv, TypeOK, RemoveLibrary, AfterRemoval, Removed
<1>4. BinaryIsExact' /\ LibraryIsExact' /\ RunsWhatWasBuilt'
  BY <1>1, <1>3, ArtifactsDiffer, ProductsKept DEF IInv, RemoveLibrary
<1>5. ReportsAreTrue'
  BY <1>1, NoClaim DEF RemoveLibrary
<1>6. TypeOK' /\ Silent' /\ HistoryIsKept'
  BY <1>1, <1>2, <1>3 DEF IInv, TypeOK, RemoveLibrary, Silent, HistoryIsKept
<1>7. ASSUME NEW f \in cmd.files PROVE MadeNow(f, disk'[Obj(f)])
  <2>1. MadeNow(f, disk[Obj(f)])
    BY <1>1 DEF IInv, BuildIsOnTrack, Target
  <2>2. Obj(f) \in Artifacts /\ Obj(f) # Lib
    BY <1>1, ArtifactsDiffer DEF Builds
  <2> QED
    BY <1>3, <2>1, <2>2
<1>8. BuildIsOnTrack' /\ CleanIsOnTrack'
  BY <1>2, <1>3, <1>7 DEF BuildIsOnTrack, CleanIsOnTrack, Target, MadeNow
<1> QED
  BY <1>4, <1>5, <1>6, <1>8 DEF IInv

LEMMA ArchiveKeeps ==
    ASSUME IInv, Archive
    PROVE  IInv'
<1>1. /\ cmd \in Builds /\ cmd.op = "build" /\ cmd.todo = {} /\ cmd.emit = "lib"
      /\ disk[Lib] = Absent
  BY BuildingShape DEF Archive, Building, IInv, BuildIsOnTrack
<1>2. disk' = [disk EXCEPT ![Lib] = Objects]
  BY <1>1 DEF Archive, Archived
<1>3. /\ cmd' = Idle /\ said' = <<"build", "lib">> /\ ran' = Absent
      /\ due'["lib"].files = cmd.files /\ due'["lib"].had = cmd.had
      /\ due'["bin"] = due["bin"]
  BY <1>1, BuildDoneEffects DEF Archive, Emits
<1>4. /\ disk'[Lib] = Objects /\ disk'[Bin] = disk[Bin]
      /\ DOMAIN disk' = Artifacts /\ disk' = [a \in Artifacts |-> disk'[a]]
  BY <1>2, ArtifactsDiffer DEF IInv, TypeOK
<1>5. TypeOK'
  BY <1>1, <1>3, <1>4, BuildDoneEffects DEF TypeOK, Archive
<1>6. Silent' /\ HistoryIsKept' /\ BuildIsOnTrack' /\ CleanIsOnTrack'
  BY <1>3, IdleIsOnTrack
<1>7. IsProduct("lib", disk[Lib])'
  BY <1>1, <1>3, <1>4, ObjectsAreMadeNow DEF IsProduct, IsFrom, MadeNow
<1>8. BinaryIsExact' /\ LibraryIsExact' /\ RunsWhatWasBuilt' /\ ReportsAreTrue'
  BY <1>3, <1>4, <1>7
  DEF IInv, BinaryIsExact, LibraryIsExact, RunsWhatWasBuilt, ReportsAreTrue, IsProduct, IsFrom
<1> QED
  BY <1>5, <1>6, <1>8 DEF IInv

(* A program that fails leaves no whole file that was not there before.    *)
LEMMA LeftBehindKeeps ==
    ASSUME IInv, LeftBehind, cmd.op = "build",
           cmd' = Idle, said' \notin Success, UNCHANGED <<src, emit, ran, due>>
    PROVE  IInv'
<1>1. cmd \in Builds
  BY BuildingShape
<1>2. Output \subseteq Artifacts
  <2>1. cmd.todo \subseteq Files /\ cmd.file \in Files
    BY <1>1 DEF Builds
  <2> QED
    BY <2>1, ArtifactsDiffer DEF Output
<1>3. /\ \A a \in Artifacts : disk'[a] \in {disk[a], Absent, Partial}
      /\ DOMAIN disk' = Artifacts /\ disk' = [a \in Artifacts |-> disk'[a]]
  <2>1. CASE UNCHANGED disk
    BY <2>1 DEF IInv, TypeOK
  <2>2. CASE \E a \in Output, content \in {Absent, Partial} :
                 disk' = [disk EXCEPT ![a] = content]
    BY <1>2, <2>2 DEF IInv, TypeOK
  <2> QED
    BY <2>1, <2>2 DEF LeftBehind
<1>4. TypeOK'
  BY <1>3 DEF IInv, TypeOK
<1>5. Silent' /\ HistoryIsKept' /\ BuildIsOnTrack' /\ CleanIsOnTrack'
  BY IdleIsOnTrack
<1>6. BinaryIsExact' /\ LibraryIsExact' /\ RunsWhatWasBuilt'
  BY <1>3, ArtifactsDiffer, ProductsKept DEF IInv
<1>7. ReportsAreTrue'
  BY NoClaim
<1> QED
  BY <1>4, <1>5, <1>6, <1>7 DEF IInv

LEMMA BuildFailsKeeps ==
    ASSUME IInv, BuildFails
    PROVE  IInv'
BY LeftBehindKeeps DEF BuildFails, Says, Success, Emits

LEMMA CleanStartsKeeps ==
    ASSUME IInv, CleanStarts
    PROVE  IInv'
<1>1. BinaryIsExact' /\ LibraryIsExact' /\ ReportsAreTrue' /\ RunsWhatWasBuilt'
  <2>1. said' \notin Success
    BY NothingIsNoReport DEF CleanStarts, Says, Success, Emits
  <2> QED
    BY <2>1, NothingReported DEF IInv, CleanStarts
<1>2. CASE ~made
  BY <1>1, <1>2, IdleIsOnTrack DEF IInv, TypeOK, CleanStarts, Says
<1>3. CASE made
  <2> DEFINE there == {a \in Artifacts : disk[a] # Absent}
  <2>1. cmd' = [op |-> "clean", ok |-> TRUE, todo |-> there] /\ said' = Nothing
    BY <1>3 DEF CleanStarts
  <2>2. cmd' \in Cleans /\ cmd'.op = "clean" /\ cmd'.todo = there
    BY <2>1 DEF Cleans
  <2>3. TypeOK' /\ Silent' /\ HistoryIsKept'
    BY <2>1, <2>2 DEF IInv, TypeOK, CleanStarts, Silent, HistoryIsKept
  <2>4. BuildIsOnTrack' /\ CleanIsOnTrack'
    BY <2>2 DEF BuildIsOnTrack, CleanIsOnTrack, CleanStarts
  <2> QED
    BY <1>1, <2>3, <2>4 DEF IInv
<1> QED
  BY <1>2, <1>3

LEMMA CleaningShape ==
    ASSUME IInv, cmd.op = "clean"
    PROVE  /\ cmd \in Cleans /\ cmd # Idle
           /\ said = Nothing /\ said \notin Success
           /\ ran = Absent
BY CommandsDiffer, NothingIsNoReport DEF IInv, TypeOK, Silent

LEMMA CleanOneKeeps ==
    ASSUME IInv, CleanOne
    PROVE  IInv'
<1>1. cmd \in Cleans /\ cmd.op = "clean" /\ said \notin Success /\ said = Nothing /\ ran = Absent
  BY CleaningShape DEF CleanOne
<1>2. PICK a \in cmd.todo :
          \/ /\ disk' = [disk EXCEPT ![a] = Absent]
             /\ cmd' = [cmd EXCEPT !.todo = @ \ {a}]
          \/ /\ cmd' = [cmd EXCEPT !.todo = @ \ {a}, !.ok = FALSE]
             /\ UNCHANGED disk
  BY DEF CleanOne
<1>3. a \in Artifacts
  BY <1>1 DEF Cleans
<1>4. /\ cmd' \in Cleans /\ cmd'.op = "clean" /\ cmd'.todo = cmd.todo \ {a}
      /\ cmd'.ok => cmd.ok /\ disk'[a] = Absent
  <2>1. CASE /\ disk' = [disk EXCEPT ![a] = Absent]
             /\ cmd' = [cmd EXCEPT !.todo = @ \ {a}]
    <3>1. disk'[a] = Absent
      BY <1>3, <2>1 DEF IInv, TypeOK
    <3> QED
      BY <1>1, <2>1, <3>1 DEF Cleans
  <2>2. CASE cmd' = [cmd EXCEPT !.todo = @ \ {a}, !.ok = FALSE]
    BY <1>1, <2>2 DEF Cleans
  <2> QED
    BY <1>2, <2>1, <2>2
<1>5. /\ \A b \in Artifacts : disk'[b] \in {disk[b], Absent}
      /\ DOMAIN disk' = Artifacts /\ disk' = [b \in Artifacts |-> disk'[b]]
  BY <1>2, <1>3 DEF IInv, TypeOK
<1>6. TypeOK' /\ Silent' /\ HistoryIsKept'
  BY <1>1, <1>4, <1>5 DEF IInv, TypeOK, CleanOne, Silent, HistoryIsKept
<1>7. BuildIsOnTrack' /\ CleanIsOnTrack'
  BY <1>1, <1>3, <1>4, <1>5 DEF IInv, BuildIsOnTrack, CleanIsOnTrack
<1>8. BinaryIsExact' /\ LibraryIsExact' /\ RunsWhatWasBuilt'
  BY <1>5, ArtifactsDiffer, ProductsKept DEF IInv, CleanOne
<1>9. ReportsAreTrue'
  BY <1>1, NoClaim DEF CleanOne
<1> QED
  BY <1>6, <1>7, <1>8, <1>9 DEF IInv

LEMMA CleanEndsKeeps ==
    ASSUME IInv, CleanEnds
    PROVE  IInv'
<1>1. cmd \in Cleans /\ ran = Absent
  BY CleaningShape DEF CleanEnds
<1>2. TypeOK'
  BY DEF IInv, TypeOK, CleanEnds, Says
<1>3. Silent' /\ HistoryIsKept' /\ BuildIsOnTrack' /\ CleanIsOnTrack'
  BY IdleIsOnTrack DEF CleanEnds, Says
<1>4. BinaryIsExact' /\ LibraryIsExact' /\ RunsWhatWasBuilt'
  BY ProductsKept DEF IInv, CleanEnds
<1>5. ReportsAreTrue'
  <2>1. CASE cmd.ok
    <3>1. \A a \in Artifacts : disk'[a] = Absent
      BY <2>1 DEF IInv, CleanIsOnTrack, CleanEnds
    <3>2. said' = <<"clean", "done">>
      BY <2>1 DEF CleanEnds, Cleaned, Says
    <3> QED
      BY <3>1, <3>2 DEF ReportsAreTrue
  <2>2. CASE ~cmd.ok
    BY <2>2, NoClaim DEF CleanEnds, Cleaned, Says, Success, Emits
  <2> QED
    BY <2>1, <2>2
<1> QED
  BY <1>2, <1>3, <1>4, <1>5 DEF IInv

LEMMA RunKeeps ==
    ASSUME IInv, Run
    PROVE  IInv'
<1>1. cmd' = Idle /\ said' \notin Success /\ ran' \in {disk[Bin], Absent}
  BY DEF Run, Says, Success, Emits
<1>2. TypeOK'
  BY <1>1 DEF IInv, TypeOK, Run
<1>3. Silent' /\ HistoryIsKept' /\ BuildIsOnTrack' /\ CleanIsOnTrack'
  BY <1>1, IdleIsOnTrack
<1>4. BinaryIsExact' /\ LibraryIsExact'
  BY DEF IInv, Run, BinaryIsExact, LibraryIsExact, IsProduct, IsFrom
<1>5. RunsWhatWasBuilt'
  BY DEF IInv, Run, Executable, RunsWhatWasBuilt, BinaryIsExact, IsProduct, IsFrom
<1>6. ReportsAreTrue'
  BY <1>1, NoClaim
<1> QED
  BY <1>2, <1>3, <1>4, <1>5, <1>6 DEF IInv

LEMMA InterruptKeeps ==
    ASSUME IInv, Interrupt
    PROVE  IInv'
<1>1. CASE cmd.op = "build"
  BY <1>1, BuildingShape, LeftBehindKeeps DEF Interrupt
<1>2. CASE cmd.op # "build"
  <2>1. TypeOK'
    BY <1>2 DEF IInv, TypeOK, Interrupt
  <2>2. Silent' /\ HistoryIsKept' /\ BuildIsOnTrack' /\ CleanIsOnTrack'
    BY IdleIsOnTrack DEF Interrupt
  <2>3. BinaryIsExact' /\ LibraryIsExact' /\ ReportsAreTrue' /\ RunsWhatWasBuilt'
    BY <1>2, NothingReported DEF IInv, Interrupt
  <2> QED
    BY <2>1, <2>2, <2>3 DEF IInv
<1> QED
  BY <1>1, <1>2

LEMMA StutterKeeps ==
    ASSUME IInv, UNCHANGED vars
    PROVE  IInv'
<1> USE DEF vars
<1>1. TypeOK' /\ Silent' /\ HistoryIsKept'
  BY DEF IInv, TypeOK, Silent, HistoryIsKept
<1>2. BuildIsOnTrack' /\ CleanIsOnTrack'
  BY DEF IInv, BuildIsOnTrack, CleanIsOnTrack, Target, MadeNow
<1>3. BinaryIsExact' /\ LibraryIsExact' /\ ReportsAreTrue' /\ RunsWhatWasBuilt'
  BY NothingReported DEF IInv
<1> QED
  BY <1>1, <1>2, <1>3 DEF IInv

LEMMA NextKeeps ==
    ASSUME IInv, [Next]_vars, ~DiskMayFill, ~RemovalMayFail
    PROVE  IInv'
<1>1. CASE Edit \/ BuildStarts \/ Collect \/ Compile \/ Assemble
  BY <1>1, EditKeeps, BuildStartsKeeps, CollectKeeps, CompileKeeps, AssembleKeeps
<1>2. CASE EmitDone \/ Link \/ RemoveLibrary \/ Archive \/ BuildFails
  BY <1>2, EmitDoneKeeps, LinkKeeps, RemoveLibraryKeeps, ArchiveKeeps, BuildFailsKeeps
<1>3. CASE CleanStarts \/ CleanOne \/ CleanEnds \/ Run \/ Interrupt
  BY <1>3, CleanStartsKeeps, CleanOneKeeps, CleanEndsKeeps, RunKeeps, InterruptKeeps
<1>4. CASE Rest \/ UNCHANGED vars
  BY <1>4, StutterKeeps DEF Rest
<1> QED
  BY <1>1, <1>2, <1>3, <1>4 DEF Next

(* While no write of the compiler is cut short and no removal fails, IInv  *)
(* always holds.                                                           *)
THEOREM ToolIsCorrect ==
    ASSUME ~DiskMayFill, ~RemovalMayFail
    PROVE  Spec => []IInv
<1>1. Init => IInv
  BY InitIsCorrect
<1>2. IInv /\ [Next]_vars => IInv'
  BY NextKeeps
<1> QED
  BY <1>1, <1>2, PTL DEF Spec

(* What build and clean say when they succeed is true of the disk, however *)
(* the sources were edited and whichever commands failed or were           *)
(* interrupted before, as long as the compiler's writes are not cut short  *)
(* and old libraries can be removed.                                       *)
THEOREM WhatIsReportedIsTrue ==
    ASSUME ~DiskMayFill, ~RemovalMayFail
    PROVE  Spec => []ReportsAreTrue
<1>1. IInv => ReportsAreTrue
  BY DEF IInv
<1> QED
  BY <1>1, ToolIsCorrect, PTL

(* What `run' executes is a whole binary of one build that was done.       *)
THEOREM WhatRunsWasBuilt ==
    ASSUME ~DiskMayFill, ~RemovalMayFail
    PROVE  Spec => []RunsWhatWasBuilt
<1>1. IInv => RunsWhatWasBuilt
  BY DEF IInv
<1> QED
  BY <1>1, ToolIsCorrect, PTL

(* A library holds the objects of one build and no members of older ones.  *)
THEOREM LibrariesAreExact ==
    ASSUME ~DiskMayFill, ~RemovalMayFail
    PROVE  Spec => []LibraryIsExact
<1>1. IInv => LibraryIsExact
  BY DEF IInv
<1> QED
  BY <1>1, ToolIsCorrect, PTL

=============================================================================
