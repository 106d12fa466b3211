----------------------------- MODULE SessionSave -----------------------------
(***************************************************************************)
(* Saving a project with its JACK session apps (src/daemon/room_save.c,    *)
(* app_supervisor.c, jack_session.c, cmd_save_project.c and ladish_rotate  *)
(* of src/common/dirhelpers.c).                                            *)
(*                                                                         *)
(* The save command waits while every started app saves its state into a   *)
(* temporary directory and tells the command line that restores it.  When  *)
(* the last has answered, the temporary directory becomes js_apps, what    *)
(* was js_apps becomes js_apps.1, and so on; the apps get their new        *)
(* command lines and the project file is written.  All this happens in the *)
(* handler of the last answer, and the daemon can die anywhere in it.      *)
(*                                                                         *)
(* Sessions are numbered; a command line is the number of the session it   *)
(* was given in, 0 for one that restores none; an app looks for its        *)
(* session in js_apps.  All apps of the room are JACK session apps, and    *)
(* the project was saved before.                                           *)
(***************************************************************************)
EXTENDS Naturals, FiniteSets

CONSTANTS
  Apps,
  MaxBackups,   \* js_apps.1 to js_apps.MaxBackups
  MaxSaves,     \* bound on saves
  MaxEvents     \* bound on apps that exit, JACK that stops and crashes

ASSUME SessionSaveAssumption ==
  /\ IsFiniteSet(Apps)
  /\ {MaxBackups, MaxSaves} \subseteq Nat \ {0}
  /\ MaxEvents \in Nat

VARIABLES
  apps,      \* state, command line and js_commandline of each app
  pending,   \* pending_js_saves
  callback,  \* whether save_callback is set
  flight,    \* apps whose answer is on its way
  mute,      \* apps whose answer could not be used
  command,   \* the save command: none, waiting, done or failed
  temp,      \* js_temp_dir
  folder,      \* the directories js_apps and its backups, and the project file
  fault,     \* the line of a failed assertion, after which the daemon is dead
  saves,     \* counter of saves, and number of the session being made
  events,    \* counter, for the bound
  age        \* rotations since a session was put in place

saveVars == <<apps, pending, callback, flight, mute, command, temp, folder, fault, saves, events, age>>

NoDir == [there |-> FALSE, n |-> 0, has |-> {}]
HalfRemoved == [NoDir EXCEPT !.there = TRUE]
NoFault == "none"
BrokenFile == [ok |-> FALSE, lines |-> [a \in Apps |-> 0]]

\* The age of a session that is not put in place, or may be removed by now.
Lost == MaxBackups + 1
Older == [s \in 1 .. MaxSaves |-> IF age[s] = Lost THEN Lost ELSE age[s] + 1]

InitSaves ==
  /\ apps = [a \in Apps |-> [started |-> TRUE, line |-> 0, js |-> 0]]
  /\ pending = 0 /\ callback = FALSE
  /\ flight = {} /\ mute = {}
  /\ command = "none"
  /\ temp = NoDir
  /\ folder = [dirs |-> [i \in 0 .. MaxBackups |-> NoDir], file |-> [BrokenFile EXCEPT !.ok = TRUE]]
  /\ fault = NoFault
  /\ saves = 0 /\ events = 0
  /\ age = [s \in 1 .. MaxSaves |-> Lost]

Alive == fault = NoFault
Started(as) == { a \in Apps : as[a].started }

-----------------------------------------------------------------------------
(***************************************************************************)
(* ladish_rotate.  The backups are shifted from the oldest on: the last    *)
(* one is removed, the others move up, then js_apps becomes js_apps.1.  A  *)
(* gap below a backup that exists is an error.                             *)
(***************************************************************************)

\* (Mutant: js_apps.1 is not moved before js_apps is.)
ShiftedButFirst(d, b) ==
  [d EXCEPT !.dirs = [i \in 0 .. MaxBackups |->
     IF i < b \/ i = 2 THEN d.dirs[i] ELSE IF i = b THEN NoDir ELSE d.dirs[i - 1]]]

\* the folder when js_apps.b and everything older is shifted
Shifted(d, b) ==
  [d EXCEPT !.dirs = [i \in 0 .. MaxBackups |->
     IF i < b THEN d.dirs[i] ELSE IF i = b THEN NoDir ELSE d.dirs[i - 1]]]

Gapless(d, b) ==
  \A i, j \in 1 .. MaxBackups : b <= i /\ i <= j /\ d.dirs[j].there => d.dirs[i].there

\* where a rotation may fail
Halfway(d) ==
  { Shifted(d, b) : b \in { c \in 0 .. MaxBackups + 1 : Gapless(d, c) } }
  \cup { e \in { [d EXCEPT !.dirs[MaxBackups] = HalfRemoved] } : d.dirs[MaxBackups].there }

InPlace(d, t) == [Shifted(d, 0) EXCEPT !.dirs[0] = t]

-----------------------------------------------------------------------------
(***************************************************************************)
(* The end of a save.  The room writes the project file and the command is *)
(* told.  The outcomes are records of the variables that change.           *)
(***************************************************************************)
Lines(as) == [a \in Apps |-> as[a].line]

Outcome(as, d, ok, ages) == [apps |-> as, folder |-> d, ok |-> ok, age |-> ages]

\* Writing the project file: it cannot be opened, it breaks off, or it is written.
FileWritten(as, d, ages) ==
  { Outcome(as, d, FALSE, ages),
    Outcome(as, [d EXCEPT !.file = BrokenFile], FALSE, ages),
    Outcome(as, [d EXCEPT !.file = [ok |-> TRUE, lines |-> Lines(as)]], TRUE, ages) }

AllSaved(as) == \A a \in Started(as) : as[a].js # 0
Forgotten(as) == [a \in Apps |-> [as[a] EXCEPT !.js = 0]]
Adopted(as) ==
  [a \in Apps |-> IF as[a].started THEN [as[a] EXCEPT !.line = as[a].js, !.js = 0] ELSE as[a]]

\* ladish_js_save_complete
SaveOutcomes(as, d, t) ==
  IF ~AllSaved(as) THEN { Outcome(Forgotten(as), d, FALSE, age) }
  ELSE { Outcome(as, e, FALSE, Older) : e \in Halfway(d) }
       \cup IF Gapless(d, 0)
            THEN FileWritten(Adopted(as), InPlace(d, t), [Older EXCEPT ![saves] = 0])
            ELSE {}

\* Where the daemon may die in it.
CrashPoints(as, d, t) ==
  IF ~AllSaved(as) THEN {d}
  ELSE Halfway(d) \cup IF Gapless(d, 0)
                       THEN { InPlace(d, t), [InPlace(d, t) EXCEPT !.file = BrokenFile] }
                       ELSE {}

Ended(o) ==
  /\ apps' = o.apps /\ folder' = o.folder /\ age' = o.age
  /\ temp' = NoDir
  /\ pending' = 0 /\ callback' = FALSE

\* The command is told, or, when the queue was cleared and it was destroyed,
\* freed memory is.
CommandTold(o) ==
  IF command = "waiting"
  THEN command' = (IF o.ok THEN "done" ELSE "failed") /\ UNCHANGED fault
  ELSE fault' = "cmd_save_project.c:47" /\ UNCHANGED command

Asserts(line) ==
  /\ fault' = line
  /\ UNCHANGED <<apps, pending, callback, flight, mute, command, temp, folder, saves, events, age>>

-----------------------------------------------------------------------------
\* (Mutant: a command line that is left of an earlier session is not noticed.)
CleanUnchecked(asked) == TRUE

\* An app that is asked has no command line of an earlier session.
Clean(asked) == \A a \in asked : apps[a].js = 0

(***************************************************************************)
(* The save command runs: every started app is asked.  An app that has no  *)
(* client with a session callback, or whose directory cannot be made,      *)
(* counts as one that failed.                                              *)
(***************************************************************************)
SaveBegins ==
  LET asked == Started(apps)
  IN  /\ Alive /\ command = "none" /\ saves < MaxSaves
      /\ pending = 0 /\ ~temp.there
      /\ Clean(asked)
      /\ saves' = saves + 1
      /\ \/ /\ asked # {}
            /\ \E failed \in SUBSET asked :
                 /\ failed # asked
                 /\ flight' = flight \cup (asked \ failed)
                 /\ pending' = Cardinality(asked \ failed)
            /\ callback' = TRUE /\ command' = "waiting"
            /\ temp' = [there |-> TRUE, n |-> saves', has |-> {}]
            /\ UNCHANGED <<apps, folder, fault, age>>
         \/ /\ asked = {}
            /\ \E o \in FileWritten(apps, folder, age) :
                 Ended(o) /\ command' = IF o.ok THEN "done" ELSE "failed"
            /\ UNCHANGED <<flight, fault>>
         \/ /\ asked # {}   \* no temporary directory, or all apps fail
            /\ \E as \in {apps, Forgotten(apps)} : Ended(Outcome(as, folder, FALSE, age))
            /\ command' = "failed"
            /\ UNCHANGED <<flight, fault>>
      /\ UNCHANGED <<mute, events>>

SaveAsserts ==
  /\ Alive /\ command = "none" /\ saves < MaxSaves
  /\ \/ pending # 0 /\ Asserts("app_supervisor.c:1196")
     \/ /\ pending = 0
        /\ ~Clean(Started(apps))
        /\ Asserts("app_supervisor.c:1204")

(***************************************************************************)
(* JACK answers for an app: with a command line, whose directory is then   *)
(* moved, or with an error.                                                *)
(***************************************************************************)
Answered(a, ok) ==
  [apps EXCEPT ![a].js = IF ok THEN temp.n ELSE @]

InTemp(a, ok) == IF ok THEN [temp EXCEPT !.has = @ \cup {a}] ELSE temp

\* (Mutant: an app that failed is not counted.)
DeductedSaved(ok) == IF ok THEN 1 ELSE 0
Deducted(ok) == 1

Answer ==
  \E a \in flight, ok \in BOOLEAN :
    LET as == Answered(a, ok)
        t == InTemp(a, ok)
    IN  /\ Alive
        /\ flight' = flight \ {a}
        /\ \/ /\ pending > 1 \/ Deducted(ok) = 0
              /\ pending' = pending - Deducted(ok)
              /\ apps' = as /\ temp' = t
              /\ UNCHANGED <<callback, command, folder, fault, age>>
           \/ /\ pending = 1 /\ Deducted(ok) = 1
              /\ \E o \in SaveOutcomes(as, folder, t) : Ended(o) /\ CommandTold(o)
        /\ UNCHANGED <<mute, saves, events>>

\* An answer with no command line, with several, or of another type is dropped.
AnswerIsUnusable ==
  \E a \in flight :
    /\ Alive
    /\ flight' = flight \ {a}
    /\ mute' = mute \cup {a}
    /\ UNCHANGED <<apps, pending, callback, command, temp, folder, fault, saves, events, age>>

\* The queue runs the command again and removes it.
CommandIsRemoved ==
  /\ Alive /\ command \in {"done", "failed"}
  /\ command' = "none"
  /\ UNCHANGED <<apps, pending, callback, flight, mute, temp, folder, fault, saves, events, age>>

-----------------------------------------------------------------------------
(***************************************************************************)
(* The world.  Starting an app is a command, and waits for the save.       *)
(***************************************************************************)
Happens ==
  /\ events < MaxEvents
  /\ events' = events + 1

AppExits ==
  \E a \in Started(apps) :
    /\ Alive /\ Happens
    /\ apps' = [apps EXCEPT ![a].started = FALSE]
    /\ UNCHANGED <<pending, callback, flight, mute, command, temp, folder, fault, saves, age>>

AppStarts ==
  \E a \in Apps \ Started(apps) :
    /\ Alive /\ command = "none"
    /\ apps' = [apps EXCEPT ![a].started = TRUE]
    /\ UNCHANGED <<pending, callback, flight, mute, command, temp, folder, fault, saves, events, age>>

\* JACK stops unexpectedly and the queue is cleared.
JackStops ==
  /\ Alive /\ command = "waiting" /\ Happens
  /\ command' = "none"
  /\ UNCHANGED <<apps, pending, callback, flight, mute, temp, folder, fault, saves, age>>

(***************************************************************************)
(* The daemon dies, by a failed assertion, by freed memory or otherwise,   *)
(* perhaps in the middle of the last answer, and is started again; if its  *)
(* file can be read the project is loaded and the apps are started.        *)
(***************************************************************************)
LastAnswers ==
  IF pending = 1 /\ Alive
  THEN UNION { CrashPoints(Answered(a, ok), folder, InTemp(a, ok)) : a \in flight, ok \in BOOLEAN }
  ELSE {}

Restarts ==
  /\ Happens
  /\ \E d \in {folder} \cup LastAnswers :
       /\ d.file.ok
       /\ folder' = d
       /\ age' = IF d = folder THEN age ELSE Older
       /\ apps' = [a \in Apps |-> [started |-> TRUE, line |-> d.file.lines[a], js |-> 0]]
  /\ temp' = NoDir
  /\ pending' = 0 /\ callback' = FALSE /\ flight' = {} /\ mute' = {}
  /\ command' = "none" /\ fault' = NoFault
  /\ UNCHANGED saves

Daemon == SaveBegins \/ SaveAsserts \/ Answer \/ AnswerIsUnusable \/ CommandIsRemoved

World == AppExits \/ AppStarts \/ JackStops \/ Restarts

NextSaves == Daemon \/ World

\* Nothing is fair: the calls have no timeout, so JACK may never answer, and an
\* answer that cannot be used is dropped.  A save may wait for ever.
SpecSaves == InitSaves /\ [][NextSaves]_saveVars

-----------------------------------------------------------------------------
(***************************************************************************)
(* The supervisor waits for exactly the apps that have not answered, and   *)
(* there is a temporary directory and somebody to tell as long as it does. *)
(***************************************************************************)
Waits ==
  Alive => /\ pending = Cardinality(flight \cup mute)
           /\ callback <=> pending > 0
           /\ temp.there <=> pending > 0
           /\ command = "waiting" => pending > 0

(***************************************************************************)
(* A session that was put in place is found, in js_apps or in one of its   *)
(* backups, with the state of every app whose command line, in the daemon  *)
(* or in the project file, restores it, until there were more rotations    *)
(* than there are backups, finished or not.                                *)
(***************************************************************************)
Users(s) == { a \in Apps : apps[a].line = s \/ folder.file.lines[a] = s }

SessionSurvives ==
  \A s \in 1 .. MaxSaves : age[s] # Lost =>
    \E i \in 0 .. age[s] : folder.dirs[i].n = s /\ Users(s) \subseteq folder.dirs[i].has

(***************************************************************************)
(* A save succeeds as a whole or not at all: when the command is told that *)
(* it did, the project file gives every app that runs the command line of  *)
(* this very save, and js_apps holds this session with the app's state,    *)
(* whatever apps answered with an error, exited or have a command line of  *)
(* an earlier session.                                                     *)
(***************************************************************************)
Restorable(a) ==
  /\ folder.file.lines[a] = saves
  /\ folder.dirs[0].n = saves
  /\ a \in folder.dirs[0].has

SuccessIsWhole ==
  [][command # "done" /\ command' = "done" =>
       folder'.file.ok /\ \A a \in Started(apps') : Restorable(a)']_saveVars

\* Two claims of the code that do not hold (the README, section 6).
\* app_supervisor.c:1204: an app that is asked to save has no new command line.
NoLeftover == fault # "app_supervisor.c:1204"

\* cmd_save_studio.c:444, cmd_save_project.c:47: the command is told while it waits.
CommandIsThere == fault # "cmd_save_project.c:47"

=============================================================================
