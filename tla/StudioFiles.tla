----------------------------- MODULE StudioFiles -----------------------------
(***************************************************************************)
(* Saving, loading, renaming and deleting studios (cmd_save_studio.c,      *)
(* cmd_load_studio.c, studio.c, studio_list.c and recent_store.c in        *)
(* src/daemon).                                                            *)
(*                                                                         *)
(* Studio n is kept in the file <<n, "xml">>; a save moves the file that   *)
(* is about to be replaced to <<n, "bak">> first and moves it back when    *)
(* writing fails.  The steps of a save on the disk are one sequence, so    *)
(* that the daemon can die between any two of them.                        *)
(*                                                                         *)
(* A save command holds the name it was asked to save under; it is run     *)
(* later, after other requests, and after the apps have saved their state. *)
(* What a studio contains is abstracted to an origin, one for each studio  *)
(* that was ever made, and a revision.                                     *)
(***************************************************************************)
EXTENDS Naturals, SequencesExt

CONSTANTS
  Names,
  NoName,
  MaxRecent,   \* length of the list of recent studios
  MaxQueue,    \* bound on waiting commands
  MaxOps       \* bound on requests, edits and crashes

ASSUME StudioFilesAssumption ==
  /\ NoName \notin Names
  /\ {MaxRecent, MaxQueue, MaxOps} \subseteq Nat \ {0}

VARIABLES
  disk,        \* what each file holds
  studio,      \* g_studio: name, filename, and what the studio contains
  queue,       \* the command queue
  recent,      \* the recent studios in memory, the last used first
  recentFile,  \* the same on the disk
  kept,        \* what was last saved of, or loaded into, the studio
  strayed,     \* a save failed after it changed the file name or lost its backup
  made,        \* counter of studios ever made
  ops          \* counter, for the bound

vars == <<disk, studio, queue, recent, recentFile, kept, strayed, made, ops>>

Absent == [origin |-> 0, rev |-> 0]
Broken == [origin |-> 0, rev |-> 1]
Xml(n) == <<n, "xml">>
Bak(n) == <<n, "bak">>
Paths == Names \X {"xml", "bak"}

NoStudio == [name |-> NoName, file |-> NoName, holds |-> Absent, started |-> FALSE]
Loaded == studio.name # NoName

\* What a file may hold: nothing, half a file, or a revision of a studio.
Content == { Absent, Broken } \cup [origin : 1..made, rev : Nat]

\* The daemon is started, whatever it finds on the disk.
Init ==
  /\ made \in Nat /\ ops = 0
  /\ disk \in [Paths -> Content]
  /\ recentFile \in { list \in Seq(Names) : Len(list) <= MaxRecent } /\ recent = recentFile
  /\ studio = NoStudio
  /\ queue = << >>
  /\ kept = Absent
  /\ strayed = FALSE

Counts ==
  /\ ops < MaxOps
  /\ ops' = ops + 1

-----------------------------------------------------------------------------
(***************************************************************************)
(* Requests.  Renaming and deleting are done at once, the rest is queued.  *)
(* Save is SaveAs with the name of the moment.  A load may start the       *)
(* studio as well.                                                         *)
(***************************************************************************)
Queued(commands) ==
  /\ Len(queue) + Len(commands) <= MaxQueue /\ Counts
  /\ queue' = queue \o commands
  /\ UNCHANGED <<disk, studio, recent, recentFile, kept, strayed, made>>

Cmd(kind, name) == [kind |-> kind, name |-> name]

AskNew == \E n \in Names : Queued(<< Cmd("new", n) >>)
AskLoad == \E n \in Names, autostart \in BOOLEAN :
             disk[Xml(n)] # Absent
             /\ Queued(IF autostart THEN << Cmd("load", n), Cmd("start", n) >> ELSE << Cmd("load", n) >>)
AskStart == Loaded /\ Queued(<< Cmd("start", NoName) >>)
AskUnload == Loaded /\ Queued(<< Cmd("unload", NoName) >>)
AskSave == Loaded /\ Queued(<< Cmd("save", studio.name) >>)
AskSaveAs == Loaded /\ \E n \in Names : Queued(<< Cmd("save as", n) >>)

Rename ==
  \E n \in Names \ {studio.name} :
    /\ Loaded /\ Counts
    /\ studio' = [studio EXCEPT !.name = n]
    /\ UNCHANGED <<disk, queue, recent, recentFile, kept, strayed, made>>

Delete ==
  \E n \in Names :
    /\ disk[Xml(n)] # Absent /\ Counts
    /\ disk' = [disk EXCEPT ![Xml(n)] = Absent, ![Bak(n)] = Absent]
    /\ kept' = IF kept \in {disk[Xml(n)], disk[Bak(n)]} THEN Absent ELSE kept
    /\ UNCHANGED <<studio, queue, recent, recentFile, strayed, made>>

\* The user changes something in the studio.
Edit ==
  /\ Loaded /\ Counts
  /\ studio' = [studio EXCEPT !.holds.rev = @ + 1]
  /\ UNCHANGED <<disk, queue, recent, recentFile, kept, strayed, made>>

-----------------------------------------------------------------------------
(***************************************************************************)
(* Making, loading and unloading.  New and load are queued behind an       *)
(* unload of their own.                                                    *)
(***************************************************************************)
IsNext(kind) == queue # << >> /\ Head(queue).kind = kind
Runs == queue' = Tail(queue)
Fails == queue' = << >>

RunStart ==
  /\ IsNext("start") /\ Runs
  /\ studio' = [studio EXCEPT !.started = TRUE]
  /\ UNCHANGED <<disk, recent, recentFile, kept, strayed, made, ops>>

\* JACK cannot be started, or be stopped before an unload.
JackFails ==
  /\ \E kind \in {"start", "new", "load", "unload"} : IsNext(kind)
  /\ Fails
  /\ UNCHANGED <<disk, studio, recent, recentFile, kept, strayed, made, ops>>

\* (Mutant: the studio keeps the file of the one before.)
RunNewKeepingFile ==
  /\ IsNext("new") /\ Runs
  /\ made' = made + 1
  /\ studio' = [NoStudio EXCEPT !.name = Head(queue).name, !.file = studio.file,
                                !.holds = [origin |-> made + 1, rev |-> 0]]
  /\ kept' = Absent /\ strayed' = FALSE
  /\ UNCHANGED <<disk, recent, recentFile, ops>>

RunNew ==
  /\ IsNext("new") /\ Runs
  /\ made' = made + 1
  /\ studio' = [NoStudio EXCEPT !.name = Head(queue).name,
                                !.holds = [origin |-> made + 1, rev |-> 0]]
  /\ kept' = Absent /\ strayed' = FALSE
  /\ UNCHANGED <<disk, recent, recentFile, ops>>

RunUnload ==
  /\ IsNext("unload") /\ Runs
  /\ studio' = NoStudio
  /\ UNCHANGED <<disk, recent, recentFile, kept, strayed, made, ops>>

(***************************************************************************)
(* The list of recent studios: the item that is used moves to the front,   *)
(* the others make room as far as its old place or the end.                *)
(***************************************************************************)
UseItem(list, n) ==
  IF list # << >> /\ Head(list) = n THEN list
  ELSE LET new == << n >> \o Remove(list, n)
       IN  SubSeq(new, 1, IF Len(new) > MaxRecent THEN MaxRecent ELSE Len(new))

RunLoad ==
  LET n == Head(queue).name
      content == disk[Xml(n)]
  IN  /\ IsNext("load") /\ Runs
      /\ content \notin {Absent, Broken}
      /\ studio' = [NoStudio EXCEPT !.name = n, !.file = n, !.holds = content]
      /\ recent' = UseItem(recent, n)
      /\ recentFile' = IF recent' = recent THEN recentFile ELSE recent'
      /\ kept' = content /\ strayed' = FALSE
      /\ UNCHANGED <<disk, made, ops>>

\* The file is gone or cannot be parsed.
LoadFails ==
  /\ IsNext("load") /\ Fails
  /\ disk[Xml(Head(queue).name)] \in {Absent, Broken}
  /\ studio' = NoStudio
  /\ UNCHANGED <<disk, recent, recentFile, kept, strayed, made, ops>>

-----------------------------------------------------------------------------
(***************************************************************************)
(* Saving under the name the command holds.  The file that becomes the     *)
(* backup is the one the name stands for, or, when the studio was renamed, *)
(* the one it was last saved in; there is none the first time.             *)
(***************************************************************************)
Renaming(target) == target # studio.name

OldFile(target) ==
  CASE studio.file \in {NoName, target} -> studio.file
    [] studio.file \notin {NoName, target} /\ Renaming(target) -> target
    [] OTHER -> studio.file

HasBackup(target) == OldFile(target) # NoName /\ disk[Xml(OldFile(target))] # Absent

Move(d, from, to) == [d EXCEPT ![to] = d[from], ![from] = Absent]

\* (Mutant: the old file is overwritten in place.)
SetAsideNothing(target) == disk

SetAside(target) == IF HasBackup(target) THEN Move(disk, Xml(OldFile(target)), Bak(target)) ELSE disk

Written(target, content) == [SetAside(target) EXCEPT ![Xml(target)] = content]

\* What is on the disk while the file is written.
Stages(target) == { disk, SetAside(target), Written(target, Broken) }

MovedBack(d, target) ==
  IF HasBackup(target) THEN Move(d, Bak(target), Xml(OldFile(target))) ELSE d

Saves == \E kind \in {"save", "save as"} : IsNext(kind)
Writes == Saves /\ studio.started /\ Loaded

Save ==
  LET target == Head(queue).name
  IN  /\ Writes /\ Runs
      /\ disk' = Written(target, studio.holds)
      /\ studio' = [studio EXCEPT !.name = target, !.file = target]
      /\ kept' = studio.holds /\ strayed' = FALSE
      /\ UNCHANGED <<recent, recentFile, made, ops>>

\* JACK is not started, or the apps did not save their state.
SaveRefused ==
  /\ Saves /\ Fails
  /\ UNCHANGED <<disk, studio, recent, recentFile, kept, strayed, made, ops>>

\* Moving the old file, opening, writing, or moving the backup back fails.
SaveFails ==
  LET target == Head(queue).name
      ends == { <<disk, TRUE>>, <<MovedBack(SetAside(target), target), TRUE>>,
                <<MovedBack(Written(target, Broken), target), TRUE>>,
                <<Written(target, Broken), ~HasBackup(target)>> }
  IN  /\ Writes /\ Fails
      /\ \E end \in ends :
           /\ disk' = end[1]
           /\ strayed' = (strayed \/ studio.file # target \/ ~end[2])
      /\ studio' = [studio EXCEPT !.file = target]
      /\ UNCHANGED <<recent, recentFile, kept, made, ops>>

\* The studio was unloaded and JACK started in front of the save: the name of
\* the studio is read from a null pointer.
SaveOfNothing ==
  /\ Saves /\ studio.started /\ ~Loaded /\ Fails
  /\ studio' = NoStudio
  /\ recent' = recentFile
  /\ UNCHANGED <<disk, recentFile, kept, strayed, made, ops>>

(***************************************************************************)
(* The daemon dies, perhaps in the middle of a save or while it writes the *)
(* recent studios, and is started again.                                   *)
(***************************************************************************)
Crash ==
  /\ Counts
  /\ disk' \in IF Writes THEN Stages(Head(queue).name) ELSE {disk}
  /\ recentFile' \in {recentFile} \cup
                      IF IsNext("load") THEN Prefixes(UseItem(recent, Head(queue).name)) ELSE {}
  /\ recent' = recentFile'
  /\ studio' = NoStudio /\ queue' = << >>
  /\ UNCHANGED <<kept, strayed, made>>

-----------------------------------------------------------------------------
Request ==
  \/ AskNew \/ AskLoad \/ AskStart \/ AskUnload \/ AskSave \/ AskSaveAs
  \/ Rename \/ Delete \/ Edit

Run ==
  \/ RunNew \/ RunStart \/ RunUnload \/ RunLoad \/ LoadFails \/ JackFails
  \/ Save \/ SaveRefused \/ SaveFails \/ SaveOfNothing

Next == Request \/ Run \/ Crash

Spec == Init /\ [][Next]_vars

-----------------------------------------------------------------------------
(***************************************************************************)
(* What was last saved of the studio, or loaded into it, is on the disk,   *)
(* as the studio's file or as a backup, also when the daemon dies in the   *)
(* middle of the next save, until the user deletes it or goes on with      *)
(* another studio.  A save that fails after changing the file name, or     *)
(* that cannot move the backup back, is an exception.                      *)
(***************************************************************************)
SavedIsKept == kept # Absent /\ ~strayed => \E p \in Paths : disk[p] = kept

(***************************************************************************)
(* A save leaves alone what belongs to other studios, but for the files of *)
(* the name it saves under, with the same exception.                       *)
(***************************************************************************)
Foreign(p) == disk[p].origin \notin {0, studio.holds.origin}

StrangersUntouched ==
  [][ Delete \/ strayed
      \/ \A p \in Paths : Foreign(p) /\ disk'[p] # disk[p] => p[1] = Head(queue).name ]_vars
=============================================================================
