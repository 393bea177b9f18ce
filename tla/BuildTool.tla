------------------------------- MODULE BuildTool -------------------------------
(***************************************************************************)
(* The build tool of a project: command_build, command_clean and           *)
(* command_run of cmd.c, on a directory that outlives them.  Sources and   *)
(* the configuration are edited at any time, also during a build; the      *)
(* compiler, the assembler, the linker and the archiver may fail, and the  *)
(* user may interrupt a command between any two steps.                     *)
(***************************************************************************)
EXTENDS Naturals

CONSTANTS
    Files,        \* the paths a source may have
    Entry,        \* src/main.slfr
    Texts,        \* what may be in a source
    Absent,       \* there is no such file
    Partial,      \* a file that was not written to its end
    DiskMayFill,  \* whether the compiler's write can be cut short unnoticed
    RemovalMayFail, \* whether an old library that ar can write to may be one
                  \* that remove() cannot remove
    MaxCommands,  \* bound: commands given
    MaxEdits      \* bound: edits made

ASSUME BuildToolAssumption ==
    /\ Entry \in Files
    /\ Absent # Partial /\ Texts \cap {Absent, Partial} = {}
    /\ \A S \in SUBSET Files : \A whole \in [S -> Texts] : whole \notin {Absent, Partial}
    /\ DiskMayFill \in BOOLEAN /\ RemovalMayFail \in BOOLEAN
    /\ MaxCommands \in Nat /\ MaxEdits \in Nat

Emits == {"asm", "obj", "bin", "lib"}

Asm(f) == <<"asm", f>>
Obj(f) == <<"obj", f>>
Bin == <<"bin", Entry>>
Lib == <<"lib", Entry>>
Artifacts == {Asm(f) : f \in Files} \cup {Obj(f) : f \in Files} \cup {Bin, Lib}

VARIABLES
    src,       \* the text of each source
    emit,      \* build.emit of sulfur.toml
    disk,      \* the artifacts under build/
    made,      \* the folder build/ exists
    cmd,       \* the running command
    said,      \* the message with which the last command ended
    ran,       \* the program that `run' executed
    due,       \* for each kind of output the files of the last build that
               \* said it was done, with the texts they had during that build
    commands,
    edits

vars == <<src, emit, disk, made, cmd, said, ran, due, commands, edits>>

Idle == [op |-> "none"]
Nothing == <<"", "">>
NothingDue == [files |-> {}, had |-> [f \in Files |-> {}]]
Present == {f \in Files : src[f] # Absent}

Init ==
    /\ src \in [Files -> Texts \cup {Absent}]
    /\ emit \in Emits
    /\ disk = [a \in Artifacts |-> Absent]
    /\ made = FALSE
    /\ cmd = Idle
    /\ said = Nothing
    /\ ran = Absent
    /\ due = [e \in Emits |-> NothingDue]
    /\ commands = 0
    /\ edits = 0

-----------------------------------------------------------------------------
(* The user edits, adds or removes a source, or edits sulfur.toml.         *)
Edit ==
    /\ edits < MaxEdits
    /\ edits' = edits + 1
    /\ \/ \E f \in Files, t \in Texts \cup {Absent} :
              /\ t # src[f]
              /\ src' = [src EXCEPT ![f] = t]
              /\ cmd' = IF cmd.op = "build" THEN [cmd EXCEPT !.had[f] = @ \cup {t}] ELSE cmd
              /\ UNCHANGED emit
       \/ emit' \in Emits \ {emit} /\ UNCHANGED <<src, cmd>>
    /\ UNCHANGED <<disk, made, said, ran, due, commands>>

Given ==
    /\ cmd = Idle
    /\ commands < MaxCommands
    /\ commands' = commands + 1

(* What a command says of itself; of a build that is done, the emit.       *)
Says(command, outcome) == said' = <<command, outcome>> /\ cmd' = Idle

-----------------------------------------------------------------------------
(* command_build: the configuration is read. *)
BuildStarts ==
    /\ Given
    /\ ran' = Absent
    /\ said' = Nothing
    /\ cmd' = [op |-> "build", step |-> "collect", emit |-> emit, files |-> {},
               todo |-> {}, file |-> Entry, had |-> [f \in Files |-> {src[f]}]]
    /\ UNCHANGED <<src, emit, disk, made, due, edits>>

Building(step) == cmd.op = "build" /\ cmd.step = step

Buildable(e, files) ==
    /\ files # {}
    /\ e = "bin" => Entry \in files
    /\ e = "lib" => Entry \notin files

(* The sources are collected and the folders made. *)
Collect ==
    /\ Building("collect")
    /\ Buildable(cmd.emit, Present)
    /\ cmd' = [cmd EXCEPT !.step = "loop", !.files = Present, !.todo = Present]
    /\ made' = TRUE
    /\ UNCHANGED <<src, emit, disk, said, ran, due, commands, edits>>

(* What the compiler writes: it does not notice that a write was cut.      *)
Written(text) == {text} \cup (IF DiskMayFill THEN {Partial} ELSE {})

(* compile_file of the next path; its imports only decide whether it fails. *)
Compile ==
    /\ Building("loop")
    /\ \E f \in cmd.todo :
           /\ src[f] # Absent
           /\ \E content \in Written(src[f]) : disk' = [disk EXCEPT ![Asm(f)] = content]
           /\ cmd' = IF cmd.emit = "asm"
                     THEN [cmd EXCEPT !.todo = @ \ {f}]
                     ELSE [cmd EXCEPT !.step = "assemble", !.file = f]
    /\ UNCHANGED <<src, emit, made, said, ran, due, commands, edits>>

(* A part of an assembly file can be assembled like a whole one.           *)
Assemble ==
    /\ Building("assemble")
    /\ disk' = [disk EXCEPT ![Obj(cmd.file)] = disk[Asm(cmd.file)]]
    /\ cmd' = [cmd EXCEPT !.step = "loop", !.todo = @ \ {cmd.file}]
    /\ UNCHANGED <<src, emit, made, said, ran, due, commands, edits>>

AllCompiled == Building("loop") /\ cmd.todo = {}

BuildDone ==
    /\ Says("build", cmd.emit)
    /\ due' = [due EXCEPT ![cmd.emit] = [files |-> cmd.files, had |-> cmd.had]]
    /\ UNCHANGED <<src, emit, made, ran, commands, edits>>

EmitDone ==
    /\ AllCompiled /\ cmd.emit \in {"asm", "obj"}
    /\ BuildDone
    /\ UNCHANGED disk

(* Mutant: every object in build/obj is taken. *)
ObjectsInFolder(files) == {f \in Files : disk[Obj(f)] # Absent}

ObjectFiles(files) == files

Objects == [f \in ObjectFiles(cmd.files) |-> disk[Obj(f)]]

Link ==
    /\ AllCompiled /\ cmd.emit = "bin"
    /\ disk' = [disk EXCEPT ![Bin] = Objects]
    /\ BuildDone

(* Mutant: the old library stays. *)
NotRemoved(library) == library

Removed(library) == Absent

(* What is there after the removal, whose result is not looked at.         *)
AfterRemoval(library) ==
    {Removed(library)} \cup (IF RemovalMayFail THEN {library} ELSE {})

RemoveLibrary ==
    /\ AllCompiled /\ cmd.emit = "lib"
    /\ \E content \in AfterRemoval(disk[Lib]) : disk' = [disk EXCEPT ![Lib] = content]
    /\ cmd' = [cmd EXCEPT !.step = "archive"]
    /\ UNCHANGED <<src, emit, made, said, ran, due, commands, edits>>

(* ar rcs adds to the members of a library that is there, but not to a     *)
(* file that is only a part of one.                                        *)
Archived(library, objects) ==
    IF library = Absent THEN objects
    ELSE [f \in DOMAIN library \cup DOMAIN objects |->
             IF f \in DOMAIN objects THEN objects[f] ELSE library[f]]

Archive ==
    /\ Building("archive")
    /\ disk[Lib] # Partial
    /\ disk' = [disk EXCEPT ![Lib] = Archived(disk[Lib], Objects)]
    /\ BuildDone

(* What the program that is running may leave behind when it does not end  *)
(* well: nothing new, no output, or a part of it (ld marks its output      *)
(* executable last, so that a part of a binary cannot be executed).        *)
Output ==
    CASE Building("loop") /\ cmd.todo # {} -> {Asm(f) : f \in cmd.todo}
      [] Building("assemble") -> {Obj(cmd.file)}
      [] AllCompiled /\ cmd.emit = "bin" -> {Bin}
      [] Building("archive") -> {Lib}
      [] OTHER -> {}

LeftBehind ==
    \/ UNCHANGED <<disk, made>>
    \/ Building("collect") /\ made' = TRUE /\ UNCHANGED disk
    \/ \E a \in Output, content \in {Absent, Partial} :
           disk' = [disk EXCEPT ![a] = content] /\ UNCHANGED made

(* Any check, allocation, folder or program that fails.                    *)
BuildFails ==
    /\ cmd.op = "build"
    /\ LeftBehind
    /\ Says("build", "failed")
    /\ UNCHANGED <<src, emit, ran, due, commands, edits>>

-----------------------------------------------------------------------------
CleanStarts ==
    /\ Given
    /\ ran' = Absent
    /\ IF made
       THEN /\ cmd' = [op |-> "clean", ok |-> TRUE,
                       todo |-> {a \in Artifacts : disk[a] # Absent}]
            /\ said' = Nothing
       ELSE Says("clean", "failed")
    /\ UNCHANGED <<src, emit, disk, made, due, edits>>

(* sf_delete_folder goes on when a file cannot be removed. *)
CleanOne ==
    /\ cmd.op = "clean"
    /\ \E a \in cmd.todo :
           \/ /\ disk' = [disk EXCEPT ![a] = Absent]
              /\ cmd' = [cmd EXCEPT !.todo = @ \ {a}]
           \/ /\ cmd' = [cmd EXCEPT !.todo = @ \ {a}, !.ok = FALSE]
              /\ UNCHANGED disk
    /\ UNCHANGED <<src, emit, made, said, ran, due, commands, edits>>

(* Mutant: what happened to the files does not matter. *)
CleanedAnyway == TRUE

Cleaned == cmd.ok

CleanEnds ==
    /\ cmd.op = "clean" /\ cmd.todo = {}
    /\ IF Cleaned
       THEN made' = FALSE /\ Says("clean", "done")
       ELSE UNCHANGED made /\ Says("clean", "failed")
    /\ UNCHANGED <<src, emit, disk, ran, due, commands, edits>>

-----------------------------------------------------------------------------
(* Mutant: the binary only has to exist. *)
Exists(content) == content # Absent

Executable(content) == content \notin {Absent, Partial}

Run ==
    /\ Given
    /\ \/ /\ emit = "bin" /\ Executable(disk[Bin])
          /\ ran' = disk[Bin]
          /\ Says("run", "done")
       \/ /\ ran' = Absent
          /\ Says("run", "failed")
    /\ UNCHANGED <<src, emit, disk, made, due, edits>>

(* The user interrupts a command. *)
Interrupt ==
    /\ cmd # Idle
    /\ IF cmd.op = "build" THEN LeftBehind ELSE UNCHANGED <<disk, made>>
    /\ cmd' = Idle
    /\ UNCHANGED <<src, emit, said, ran, due, commands, edits>>

(* The bounds are reached. *)
Rest ==
    /\ cmd = Idle /\ commands = MaxCommands /\ edits = MaxEdits
    /\ UNCHANGED vars

Next ==
    \/ Edit
    \/ BuildStarts \/ Collect \/ Compile \/ Assemble
    \/ EmitDone \/ Link \/ RemoveLibrary \/ Archive \/ BuildFails
    \/ CleanStarts \/ CleanOne \/ CleanEnds
    \/ Run
    \/ Interrupt
    \/ Rest

Spec == Init /\ [][Next]_vars

-----------------------------------------------------------------------------
(* A file of the last build for e, from a text it had during that build.   *)
IsFrom(e, f, content) == content \in due[e].had[f] \ {Absent}

IsProduct(e, content) ==
    /\ content \notin {Absent, Partial}
    /\ DOMAIN content = due[e].files
    /\ \A f \in due[e].files : IsFrom(e, f, content[f])

(***************************************************************************)
(* ReportsAreTrue: when the tool says that a build is done, its outputs    *)
(* are complete and made from all the sources, each as it was during that  *)
(* build and not before; when it says that it cleaned, nothing is left.    *)
(***************************************************************************)
ReportsAreTrue ==
    /\ said = <<"build", "asm">> =>
           \A f \in due["asm"].files : IsFrom("asm", f, disk[Asm(f)])
    /\ said = <<"build", "obj">> =>
           \A f \in due["obj"].files : IsFrom("obj", f, disk[Obj(f)])
    /\ said = <<"build", "bin">> => IsProduct("bin", disk[Bin])
    /\ said = <<"build", "lib">> => IsProduct("lib", disk[Lib])
    /\ said = <<"clean", "done">> => \A a \in Artifacts : disk[a] = Absent

(***************************************************************************)
(* RunsWhatWasBuilt: `run' executes the binary of one build that was done, *)
(* whatever builds failed or were interrupted since, never a part of a     *)
(* binary or a mixture of builds.                                          *)
(***************************************************************************)
RunsWhatWasBuilt == ran # Absent => IsProduct("bin", ran)

(***************************************************************************)
(* LibraryIsExact: a library holds the sources of one build and nothing of *)
(* sources that were removed before it.                                    *)
(***************************************************************************)
LibraryIsExact == disk[Lib] \notin {Absent, Partial} => IsProduct("lib", disk[Lib])

=============================================================================
