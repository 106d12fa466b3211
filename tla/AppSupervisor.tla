---------------------------- MODULE AppSupervisor ----------------------------
(***************************************************************************)
(* The apps of a studio: src/daemon/app_supervisor.c, loader.c, and the    *)
(* commands that create, start, stop and remove an app.                    *)
(*                                                                         *)
(* The daemon is one thread: an iteration of its main loop dispatches a    *)
(* D-Bus message, buries the children that were found dead, runs the       *)
(* command queue and handles what was learned about the JACK server.  The  *)
(* processes of the apps run beside it, and the handler of SIGCHLD         *)
(* interrupts it anywhere.  What can go wrong between the daemon and       *)
(* jackdbus is the subject of StudioLifecycle: here the server starts and  *)
(* stops in one step, and one supervisor stands for those of the rooms.    *)
(***************************************************************************)
EXTENDS Naturals, Sequences

CONSTANTS
  MaxApps,        \* bound: ids given to apps; adding one more app fails
  MaxProcs,       \* bound: processes forked; forking one more fails
  MaxRequests,    \* bound: requests of clients
  MaxJackEvents   \* bound: starts and stops of JACK nobody asked ladish for

ASSUME AppAssumption ==
  /\ MaxApps \in Nat /\ MaxProcs \in Nat
  /\ MaxRequests \in Nat /\ MaxJackEvents \in Nat

Ids == 1..MaxApps
Pids == 1..MaxProcs

VARIABLES
  (* struct ladish_app_supervisor *)
  listed,      \* the ids in applist, in the order they were given
  nextId,      \* next_id
  pid,         \* pid of each app, 0 when it is stopped
  zombie,      \* the apps to be removed when they exit
  autorun,     \* the apps to be started with the studio
  (* loader.c *)
  watched,     \* pids in g_childs_list
  dead,        \* those of them that are marked dead
  forked,      \* app and process between fork and the assignment of the pid
  (* the processes *)
  nextPid,
  alive,       \* running
  exited,      \* exited, and not waited for yet
  told,        \* sent SIGTERM or SIGKILL
  (* the JACK graph of the daemon, by the app of a client *)
  tracked,     \* clients the virtualizer has counted and seen no end of
  stale,       \* visible clients that a destroyed virtualizer left behind
  (* the studio *)
  loaded,      \* a studio is loaded
  started,     \* the JACK server runs
  queue,       \* cmd_queue
  (* the main loop *)
  pc,
  caller,      \* who called start_app: "none", "command", "start" or "event"
  fault,       \* the line at which the daemon died, "" when it did not
  requests, jackEvents

appVars == <<listed, nextId, pid, zombie, autorun>>
childVars == <<watched, dead>>
procVars == <<nextPid, alive, exited>>
graphVars == <<tracked, stale>>
studioVars == <<loaded, started>>
boundVars == <<requests, jackEvents>>
vars == <<appVars, childVars, forked, procVars, told, graphVars, studioVars,
          queue, pc, caller, fault, boundVars>>

Kinds == {"new app", "start app", "stop app", "remove app",
          "start", "stop", "unload", "load"}

\* "children": the stop command waits for child processes, its second stage
CommandRecord ==
  [kind : Kinds, app : Ids \cup {0}, state : {"PENDING", "WAITING", "children"}]

Cmd(kind, a) == [kind |-> kind, app |-> a, state |-> "PENDING"]

NotForked == [app |-> 0, pid |-> 0]

\* ladish_app_is_running, for the apps of the list
Running == {a \in listed : pid[a] # 0}
RunningPids == {pid[a] : a \in Running}

\* ladish_virtualizer_is_hidden_app
Hidden(a) == a \notin tracked \cup stale

\* children nobody will report as dead any more
Lost == watched \ (alive \cup exited \cup dead)

\* a studio without apps, just created, and JACK not running
Init ==
  /\ listed = {} /\ nextId = 1 /\ pid = [a \in Ids |-> 0]
  /\ zombie = {} /\ autorun = {}
  /\ watched = {} /\ dead = {} /\ forked = NotForked
  /\ nextPid = 1 /\ alive = {} /\ exited = {} /\ told = {}
  /\ tracked = {} /\ stale = {}
  /\ loaded = TRUE /\ started = FALSE
  /\ queue = <<>> /\ pc = "dispatch" /\ caller = "none" /\ fault = ""
  /\ requests = 0 /\ jackEvents = 0

-----------------------------------------------------------------------------
(***************************************************************************)
(* The processes, and the handler of SIGCHLD.  A process that exits before *)
(* its pid is known to the loader is unknown to the handler, which only    *)
(* logs it: the pid of its entry is not initialized yet and is taken to    *)
(* be of no process.                                                       *)
(***************************************************************************)
Over == pc = "aborted"

ProcessExits(p) ==
  /\ ~Over
  /\ p \in alive
  /\ alive' = alive \ {p}
  /\ exited' = exited \cup {p}
  /\ UNCHANGED <<appVars, childVars, forked, nextPid, told, graphVars,
                 studioVars, queue, pc, caller, fault, boundVars>>

\* slip: the child is not looked up
SigchldUnchecked ==
  /\ ~Over
  /\ exited # {}
  /\ exited' = {}
  /\ dead' = dead \cup exited
  /\ UNCHANGED <<appVars, watched, forked, nextPid, alive, told, graphVars,
                 studioVars, queue, pc, caller, fault, boundVars>>

SigchldHandler ==
  /\ ~Over
  /\ exited # {}
  /\ exited' = {}
  /\ dead' = dead \cup (exited \cap watched)
  /\ UNCHANGED <<appVars, watched, forked, nextPid, alive, told, graphVars,
                 studioVars, queue, pc, caller, fault, boundVars>>

-----------------------------------------------------------------------------
(***************************************************************************)
(* Dispatching a message: a JACK client of an app appears or disappears, a *)
(* request of a user, or nothing.                                          *)
(***************************************************************************)
Dispatch == pc = "dispatch" /\ pc' = "loader"

\* the app is found by the pid of the client
ClientAppears(a) ==
  /\ Dispatch
  /\ started
  /\ a \in Running \ tracked
  /\ tracked' = tracked \cup {a}
  /\ UNCHANGED <<appVars, childVars, forked, procVars, told, stale, studioVars,
                 queue, caller, fault, boundVars>>

ClientDisappears(a) ==
  /\ Dispatch
  /\ a \in tracked
  /\ tracked' = tracked \ {a}
  /\ UNCHANGED <<appVars, childVars, forked, procVars, told, stale, studioVars,
                 queue, caller, fault, boundVars>>

DispatchNothing ==
  /\ Dispatch
  /\ UNCHANGED <<appVars, childVars, forked, procVars, told, graphVars,
                 studioVars, queue, caller, fault, boundVars>>

Request(commands) ==
  /\ Dispatch
  /\ requests < MaxRequests
  /\ requests' = requests + 1
  /\ queue' = queue \o commands
  /\ UNCHANGED <<appVars, childVars, forked, procVars, told, graphVars,
                 studioVars, caller, fault, jackEvents>>

RequestNewApp == loaded /\ Request(<<Cmd("new app", 0)>>)
RequestStartApp(a) == loaded /\ Request(<<Cmd("start app", a)>>)
\* stop and kill, which send different signals
RequestStopApp(a) == loaded /\ Request(<<Cmd("stop app", a)>>)
\* slip: the app is not stopped first
RequestRemoveAtOnce(a) == loaded /\ Request(<<Cmd("remove app", a)>>)
RequestRemoveApp(a) ==
  loaded /\ Request(<<Cmd("stop app", a), Cmd("remove app", a)>>)

Unloading == <<Cmd("stop", 0), Cmd("unload", 0)>>

RequestStart == loaded /\ Request(<<Cmd("start", 0)>>)
RequestStop == loaded /\ Request(<<Cmd("stop", 0)>>)
RequestUnload == loaded /\ Request(Unloading)
RequestLoad == Request(Append(Unloading, Cmd("load", 0)))

Requested ==
  \/ RequestNewApp \/ RequestStart \/ RequestStop \/ RequestUnload \/ RequestLoad
  \/ \E a \in Ids :
       RequestStartApp(a) \/ RequestStopApp(a) \/ RequestRemoveApp(a)

-----------------------------------------------------------------------------
(***************************************************************************)
(* loader_childs_bury, and ladish_app_supervisor_child_exit for each child *)
(* that is dead.                                                           *)
(***************************************************************************)
\* slip: an app that is to be removed stays
BuryNone(buried) ==
  /\ pid' = [a \in Ids |-> IF a \in buried THEN 0 ELSE pid[a]]
  /\ UNCHANGED <<listed, zombie, autorun>>

BuryApps(buried) ==
  /\ pid' = [a \in Ids |-> IF a \in buried THEN 0 ELSE pid[a]]
  /\ listed' = listed \ (buried \cap zombie)
  /\ zombie' = zombie \ buried
  /\ autorun' = autorun \ (buried \cap zombie)

Bury ==
  /\ pc = "loader" /\ pc' = "cqueue"
  /\ BuryApps({a \in listed : pid[a] \in dead})
  /\ watched' = watched \ dead
  /\ dead' = {}
  /\ UNCHANGED <<nextId, forked, procVars, told, graphVars, studioVars, queue,
                 caller, fault, boundVars>>

-----------------------------------------------------------------------------
(***************************************************************************)
(* How a command ends or goes on.                                          *)
(***************************************************************************)
Pending(kind) ==
  /\ pc = "cqueue" /\ queue # <<>>
  /\ Head(queue).kind = kind /\ Head(queue).state = "PENDING"
Awaiting(kind, state) ==
  /\ pc = "cqueue" /\ queue # <<>>
  /\ Head(queue).kind = kind /\ Head(queue).state = state

Done == queue' = Tail(queue) /\ pc' = "cqueue" /\ UNCHANGED <<caller, fault>>
Fail == queue' = <<>> /\ pc' = "events" /\ UNCHANGED <<caller, fault>>
As(state) == queue' = <<[Head(queue) EXCEPT !.state = state]>> \o Tail(queue)
Wait == As("WAITING") /\ pc' = "events" /\ UNCHANGED <<caller, fault>>
StillWait == pc' = "events" /\ UNCHANGED <<queue, caller, fault>>
FallThrough(state) == As(state) /\ UNCHANGED <<pc, caller, fault>>

QueueRan ==
  /\ pc = "cqueue" /\ queue = <<>> /\ pc' = "events"
  /\ UNCHANGED <<appVars, childVars, forked, procVars, told, graphVars,
                 studioVars, queue, caller, fault, boundVars>>

Dies(line) ==
  /\ pc' = "aborted" /\ fault' = line
  /\ UNCHANGED <<appVars, childVars, forked, procVars, told, graphVars,
                 studioVars, queue, caller, boundVars>>

-----------------------------------------------------------------------------
(***************************************************************************)
(* loader_execute: the process runs before its pid is known.               *)
(***************************************************************************)
Fork(a, by) ==
  /\ nextPid \in Pids
  /\ nextPid' = nextPid + 1
  /\ alive' = alive \cup {nextPid}
  /\ forked' = [app |-> a, pid |-> nextPid]
  /\ pc' = "forked" /\ caller' = by
  /\ UNCHANGED <<childVars, exited, told, graphVars, fault>>

Forked ==
  /\ pc = "forked"
  /\ pid' = [pid EXCEPT ![forked.app] = forked.pid]
  /\ watched' = watched \cup {forked.pid}
  /\ forked' = NotForked
  /\ IF caller = "command"
     THEN queue' = Tail(queue) /\ pc' = "cqueue" /\ caller' = "none"
     ELSE pc' = "autorun" /\ UNCHANGED <<queue, caller>>
  /\ UNCHANGED <<listed, nextId, zombie, autorun, dead, procVars, told,
                 graphVars, studioVars, fault, boundVars>>

(***************************************************************************)
(* ladish_app_supervisor_autorun, called when JACK started: the apps are   *)
(* started in order until one cannot be.  Starting an app that runs is an  *)
(* assertion.                                                              *)
(***************************************************************************)
AutorunOver ==
  /\ caller' = "none"
  /\ IF caller = "start"
     THEN queue' = Tail(queue) /\ pc' = "cqueue"
     ELSE pc' = "dispatch" /\ UNCHANGED queue
  /\ UNCHANGED <<childVars, forked, procVars, told, graphVars, fault>>

AutorunNext(a) ==
  /\ pc = "autorun"
  /\ a \in autorun /\ \A b \in autorun : a <= b
  /\ IF pid[a] # 0
     THEN Dies("app_supervisor.c:984")
     ELSE /\ autorun' = autorun \ {a}
          /\ zombie' = zombie \ {a}
          /\ (Fork(a, caller) /\ UNCHANGED queue) \/ AutorunOver
          /\ UNCHANGED <<listed, nextId, pid, studioVars, boundVars>>

AutorunEnds ==
  /\ pc = "autorun" /\ autorun = {}
  /\ AutorunOver
  /\ UNCHANGED <<appVars, studioVars, boundVars>>

-----------------------------------------------------------------------------
(***************************************************************************)
(* new app: the app is to be started with the studio, and now when JACK    *)
(* runs.  One that cannot be executed is removed again.                    *)
(***************************************************************************)
NewApp ==
  /\ Pending("new app")
  /\ nextId \in Ids
  /\ listed' = listed \cup {nextId}
  /\ autorun' = autorun \cup {nextId}
  /\ nextId' = nextId + 1
  /\ IF started
     THEN Fork(nextId, "command") /\ UNCHANGED queue
     ELSE Done /\ UNCHANGED <<childVars, forked, procVars, told, graphVars>>
  /\ UNCHANGED <<pid, zombie, studioVars, boundVars>>

NewAppFails ==
  /\ Pending("new app")
  /\ \/ UNCHANGED nextId
     \/ started /\ nextId \in Ids /\ nextId' = nextId + 1
  /\ Fail
  /\ UNCHANGED <<listed, pid, zombie, autorun, childVars, forked, procVars,
                 told, graphVars, studioVars, boundVars>>

StartApp ==
  /\ Pending("start app")
  /\ started
  /\ LET a == Head(queue).app IN
       /\ a \in listed \ Running
       /\ zombie' = zombie \ {a}
       /\ Fork(a, "command")
  /\ UNCHANGED <<listed, nextId, pid, autorun, studioVars, queue, boundVars>>

\* a running app is not started again, or the execution fails, before which
\* the zombie mark was cleared
StartAppFails ==
  /\ Pending("start app")
  /\ Fail
  /\ LET a == Head(queue).app IN
       zombie' = IF started /\ a \in listed \ Running THEN zombie \ {a} ELSE zombie
  /\ UNCHANGED <<listed, nextId, pid, autorun, childVars, forked, procVars,
                 told, graphVars, studioVars, boundVars>>

(***************************************************************************)
(* stop app and kill app (run_target_stop).                                *)
(***************************************************************************)
AppUnchanged ==
  UNCHANGED <<appVars, childVars, forked, procVars, graphVars, studioVars,
              boundVars>>

AppNotFound ==
  /\ Pending("stop app") \/ Awaiting("stop app", "WAITING") \/ Pending("remove app")
  /\ Head(queue).app \notin listed
  /\ Fail
  /\ AppUnchanged /\ UNCHANGED told

StopApp ==
  /\ Pending("stop app")
  /\ Head(queue).app \in Running
  /\ told' = told \cup {pid[Head(queue).app]}
  /\ Wait
  /\ AppUnchanged

StopAppAwaits ==
  /\ Awaiting("stop app", "WAITING")
  /\ LET a == Head(queue).app IN a \in Running \/ (a \in listed /\ ~Hidden(a))
  /\ StillWait
  /\ AppUnchanged /\ UNCHANGED told

\* the run callback says that it waits for the client and leaves the state
\* as it is, which the queue takes for an error
StopAppUnexpected ==
  /\ Pending("stop app")
  /\ Head(queue).app \in listed \ Running
  /\ ~Hidden(Head(queue).app)
  /\ Dies("cqueue.c:73")

AppStopped ==
  /\ Pending("stop app") \/ Awaiting("stop app", "WAITING")
  /\ Head(queue).app \in listed \ Running
  /\ Hidden(Head(queue).app)
  /\ Done
  /\ AppUnchanged /\ UNCHANGED told

(***************************************************************************)
(* remove app, which is queued behind the stop of the app.                 *)
(***************************************************************************)
RemoveApp ==
  /\ Pending("remove app")
  /\ LET a == Head(queue).app IN
       /\ a \in listed \ Running
       /\ listed' = listed \ {a}
       /\ zombie' = zombie \ {a} /\ autorun' = autorun \ {a}
       /\ tracked' = tracked \ {a} /\ stale' = stale \ {a}
  /\ Done
  /\ UNCHANGED <<nextId, pid, childVars, forked, procVars, told, studioVars,
                 boundVars>>

-----------------------------------------------------------------------------
(***************************************************************************)
(* stop studio: the apps are told to terminate, and the server is stopped  *)
(* when their clients and then their processes are gone.  The clients are  *)
(* not looked at again in the second stage; those that are still visible   *)
(* in the end, whoever left them behind, are hidden.                       *)
(***************************************************************************)
StopIgnored ==
  /\ Pending("stop")
  /\ ~started
  /\ Done
  /\ AppUnchanged /\ UNCHANGED told

\* slip: only the apps whose clients are visible are told
StopInitiatedVisible ==
  /\ Pending("stop")
  /\ started
  /\ autorun' = autorun \cup Running
  /\ told' = told \cup {pid[a] : a \in Running \cap tracked}
  /\ FallThrough("WAITING")
  /\ UNCHANGED <<listed, nextId, pid, zombie, childVars, forked, procVars,
                 graphVars, studioVars, boundVars>>

StopInitiated ==
  /\ Pending("stop")
  /\ started
  /\ autorun' = autorun \cup Running
  /\ told' = told \cup RunningPids
  /\ FallThrough("WAITING")
  /\ UNCHANGED <<listed, nextId, pid, zombie, childVars, forked, procVars,
                 graphVars, studioVars, boundVars>>

StopAwaitsClients ==
  /\ Awaiting("stop", "WAITING")
  /\ tracked # {}
  /\ StillWait
  /\ AppUnchanged /\ UNCHANGED told

StopClientsGone ==
  /\ Awaiting("stop", "WAITING")
  /\ tracked = {}
  /\ FallThrough("children")
  /\ AppUnchanged /\ UNCHANGED told

StopAwaitsChildren ==
  /\ Awaiting("stop", "children")
  /\ watched # {}
  /\ StillWait
  /\ AppUnchanged /\ UNCHANGED told

\* slip: only the clients are waited for
StudioStoppedEarly ==
  /\ Awaiting("stop", "children")
  /\ started' = FALSE
  /\ tracked' = {} /\ stale' = {}
  /\ Done
  /\ UNCHANGED <<appVars, childVars, forked, procVars, told, loaded, boundVars>>

StudioStopped ==
  /\ Awaiting("stop", "children")
  /\ watched = {}
  /\ started' = FALSE
  /\ tracked' = {} /\ stale' = {}
  /\ Done
  /\ UNCHANGED <<appVars, childVars, forked, procVars, told, loaded, boundVars>>

(***************************************************************************)
(* start studio, which is refused while child processes are left.          *)
(***************************************************************************)
StartIgnored ==
  /\ Pending("start")
  /\ started
  /\ Done
  /\ AppUnchanged /\ UNCHANGED told

\* or JACK does not start
StartFails ==
  /\ Pending("start")
  /\ ~started
  /\ Fail
  /\ AppUnchanged /\ UNCHANGED told

StartStudio ==
  /\ Pending("start")
  /\ ~started /\ watched = {}
  /\ started' = TRUE
  /\ pc' = "autorun" /\ caller' = "start"
  /\ UNCHANGED <<appVars, childVars, forked, procVars, told, graphVars, loaded,
                 queue, fault, boundVars>>

(***************************************************************************)
(* unload studio and load studio.  Unloading removes the stopped apps and  *)
(* tells the others to terminate; these are removed when they are buried.  *)
(***************************************************************************)
\* slip: all apps are removed
ClearAll ==
  /\ listed' = {} /\ zombie' = {} /\ autorun' = {}
  /\ told' = told \cup RunningPids
  /\ pid' = [a \in Ids |-> 0]

\* slip: the apps are not told to terminate
ClearUntold ==
  /\ listed' = Running
  /\ zombie' = Running
  /\ autorun' = autorun \cap Running
  /\ UNCHANGED <<told, pid>>

Clear ==
  /\ listed' = Running
  /\ zombie' = Running
  /\ autorun' = autorun \cap Running
  /\ told' = told \cup RunningPids
  /\ pid' = pid

Unload ==
  /\ Pending("unload")
  /\ Clear
  /\ tracked' = {} /\ stale' = {}
  /\ loaded' = FALSE
  /\ Done
  /\ UNCHANGED <<nextId, childVars, forked, procVars, started, boundVars>>

\* the studio file has one app, or none
Load ==
  /\ Pending("load")
  /\ loaded' = TRUE
  /\ \/ UNCHANGED <<listed, nextId, autorun>>
     \/ /\ nextId \in Ids
        /\ listed' = listed \cup {nextId}
        /\ autorun' \in {autorun, autorun \cup {nextId}}
        /\ nextId' = nextId + 1
  /\ Done
  /\ UNCHANGED <<pid, zombie, childVars, forked, procVars, told, graphVars,
                 started, boundVars>>

\* an app that was added before the error is cleared again; the stop and the
\* unload in front of the command have left nothing else to be cleared
LoadFails ==
  /\ Pending("load")
  /\ UNCHANGED nextId \/ (nextId \in Ids /\ nextId' = nextId + 1)
  /\ Fail
  /\ UNCHANGED <<listed, pid, zombie, autorun, childVars, forked, procVars,
                 told, graphVars, studioVars, boundVars>>

-----------------------------------------------------------------------------
(***************************************************************************)
(* What the daemon learns of a JACK server that was started or stopped     *)
(* behind its back.  Both empty the queue.  A studio is created when there *)
(* is none; a studio that was created that way is unloaded when the server *)
(* stops, which of the two it is being a matter of StudioLifecycle.  The   *)
(* clients of the JACK graph stay visible when the server stops.           *)
(***************************************************************************)
NothingLearned ==
  /\ pc = "events" /\ pc' = "dispatch"
  /\ UNCHANGED <<appVars, childVars, forked, procVars, told, graphVars,
                 studioVars, queue, caller, fault, boundVars>>

JackStarted ==
  /\ pc = "events" /\ ~started
  /\ jackEvents < MaxJackEvents /\ jackEvents' = jackEvents + 1
  /\ queue' = <<>>
  /\ loaded' = TRUE /\ started' = TRUE
  /\ pc' = "autorun" /\ caller' = "event"
  /\ UNCHANGED <<appVars, childVars, forked, procVars, told, graphVars, fault,
                 requests>>

JackStopped ==
  /\ pc = "events" /\ started
  /\ jackEvents < MaxJackEvents /\ jackEvents' = jackEvents + 1
  /\ queue' \in {<<>>, Unloading}
  /\ started' = FALSE
  /\ stale' = stale \cup tracked /\ tracked' = {}
  /\ pc' = "dispatch"
  /\ UNCHANGED <<appVars, childVars, forked, procVars, told, loaded, caller,
                 fault, requests>>

-----------------------------------------------------------------------------
Processes == SigchldHandler \/ \E p \in Pids : ProcessExits(p)

Messages ==
  \/ DispatchNothing \/ Requested
  \/ \E a \in Ids : ClientAppears(a) \/ ClientDisappears(a)

AppCommands ==
  \/ NewApp \/ NewAppFails \/ StartApp \/ StartAppFails
  \/ AppNotFound \/ StopApp \/ StopAppAwaits \/ StopAppUnexpected \/ AppStopped
  \/ RemoveApp

StudioCommands ==
  \/ StopIgnored \/ StopInitiated \/ StopAwaitsClients \/ StopClientsGone
  \/ StopAwaitsChildren \/ StudioStopped
  \/ StartIgnored \/ StartFails \/ StartStudio
  \/ Unload \/ Load \/ LoadFails

\* the main loop once a message is dispatched
Daemon ==
  \/ Bury \/ QueueRan \/ AppCommands \/ StudioCommands
  \/ Forked \/ AutorunEnds \/ \E a \in Ids : AutorunNext(a)
  \/ NothingLearned

Ended == Over /\ UNCHANGED vars

Next == Processes \/ Messages \/ Daemon \/ JackStarted \/ JackStopped \/ Ended

Spec == Init /\ [][Next]_vars

(***************************************************************************)
(* Fairness.  The main loop goes on and the kernel delivers SIGCHLD.  A    *)
(* process that was told to terminate exits, and the client of an app that *)
(* has exited, or was told to, disappears.                                 *)
(***************************************************************************)
Leaving(a) == a \notin Running \/ pid[a] \in told

Fairness ==
  /\ WF_vars(Messages)
  /\ WF_vars(Daemon)
  /\ WF_vars(SigchldHandler)
  /\ \A p \in Pids : WF_vars(p \in told /\ ProcessExits(p))
  /\ \A a \in Ids : SF_vars(Leaving(a) /\ ClientDisappears(a))

FairSpec == Spec /\ Fairness

-----------------------------------------------------------------------------
(***************************************************************************)
(* Properties.                                                             *)
(***************************************************************************)

\* The variables have the types of the C declarations; what is marked on an
\* app or a child is marked on one in the list.
TypeOK ==
  /\ listed \subseteq Ids /\ zombie \subseteq listed /\ autorun \subseteq listed
  /\ nextId \in Nat \ {0} /\ \A a \in listed : a < nextId
  /\ pid \in [Ids -> Pids \cup {0}]
  /\ watched \subseteq Pids /\ dead \subseteq watched
  /\ nextPid \in Nat \ {0}
  /\ alive \subseteq Pids /\ exited \subseteq Pids /\ told \subseteq Pids
  /\ tracked \subseteq Ids /\ stale \subseteq Ids
  /\ queue \in Seq(CommandRecord)
  /\ forked \in {NotForked} \cup [app : listed, pid : Pids]
  /\ forked # NotForked <=> pc = "forked"
  /\ caller \in {"none", "command", "start", "event"}

\* The pids of the apps are the children of the loader, each of one app, and
\* no process of the daemon is without one: no app is forgotten while its
\* process is there, by removing, unloading or reloading, and none is taken
\* for running when its process was buried.
ChildrenHaveApps ==
  /\ RunningPids = watched
  /\ \A a, b \in Running : pid[a] = pid[b] => a = b
  /\ alive \cup exited \subseteq watched \cup {forked.pid}

\* An app of an unloaded studio was told to terminate and its process is not
\* buried yet: it is in the list for no other reason.
ZombiesAreDying == \A a \in zombie : pid[a] \in told \cap watched

\* The run callback of "remove app" finds the app stopped and out of the
\* graph: the stop that was queued in front of it did its work, whatever
\* came between the request and the command (cmd_remove_app.c:76).
RemoveFindsStopped ==
  Pending("remove app") /\ Head(queue).app \in listed
    => Head(queue).app \notin Running /\ Hidden(Head(queue).app)

\* The daemon stops the JACK server only when no process it has started is
\* left, also not one whose client it never saw.
ServerOutlivesApps ==
  [][pc = "cqueue" /\ started /\ ~started' => alive \cup exited = {}]_vars

\* Every command ends, unless a child was lost between fork and the
\* assignment of its pid, or a client was left behind by a virtualizer.
CommandsEnd == []<>(queue = <<>> \/ Over \/ Lost # {} \/ stale # {})

\* The apps of an unloaded studio leave the list.
ZombiesLeave ==
  \A a \in Ids : a \in zombie ~> (a \notin zombie \/ Over \/ Lost # {})

(***************************************************************************)
(* What the assertions of the code claim, and does not hold.               *)
(***************************************************************************)

\* An app that is started automatically does not run (app_supervisor.c:984).
AutorunFindsStopped == fault # "app_supervisor.c:984"

\* A command whose run callback succeeds is done or waits (cqueue.c:65).
RunSetsState == fault # "cqueue.c:73"
=============================================================================
