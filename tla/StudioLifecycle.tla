--------------------------- MODULE StudioLifecycle ---------------------------
(***************************************************************************)
(* The studio of the ladish daemon and the JACK server under it:           *)
(* src/daemon/studio.c, the environment store of studio_internal.h, and    *)
(* the commands that start, stop, create, load and unload the studio and   *)
(* that create and delete its rooms.                                       *)
(*                                                                         *)
(* The daemon is one thread.  An iteration of its main loop dispatches at  *)
(* most one D-Bus message and buries dead children, runs the command queue *)
(* and then handles what was learned about the JACK server.  jackdbus is   *)
(* another process: what it does reaches the daemon later, as signals that *)
(* wait in order in the connection of the daemon.                          *)
(***************************************************************************)
EXTENDS Naturals, Sequences

CONSTANTS
  Rooms,          \* names of rooms
  Faults,         \* the failures of calls that may happen
  MaxRequests,    \* bound: requests of clients
  MaxJackEvents,  \* bound: what jackdbus does by itself
  MaxChildren     \* bound: child processes alive at a time

ASSUME StudioAssumption ==
  /\ Faults \subseteq {"settings", "proxy", "virtualizer", "publish", "start",
                       "stop", "studio file", "room", "app", "queue"}
  /\ MaxRequests \in Nat
  /\ MaxJackEvents \in Nat
  /\ MaxChildren \in Nat

VARIABLES
  (* jackdbus and the wire *)
  jack,        \* "gone", "idle" or "running"
  inbox,       \* signals of jackdbus not dispatched yet
  (* g_studio *)
  env,         \* env_store: the sets of state bits and of changed bits
  queue,       \* cmd_queue
  name,        \* name # NULL
  loaded,      \* dbus_object # NULL
  automatic,   \* automatic
  proxy,       \* jack_graph_proxy # NULL
  virtualizer, \* virtualizer # NULL
  rooms,       \* the rooms of the list
  started,     \* those whose started flag is set
  busy,        \* rooms that do not look empty, or have running apps
  (* loader.c and virtualizer.c *)
  children,    \* loader_get_app_count()
  clients,     \* ladish_virtualizer_get_our_clients_count() # 0
  told,        \* whether the children were told to terminate
  (* the main loop *)
  pc,          \* where the main loop is
  fault,       \* the line at which the daemon died, "" when it did not
  quit,        \* g_quit, set by a command or a request
  (* bounds and ghosts *)
  requests,    \* requests made so far
  jackEvents,  \* events of jackdbus so far
  origin,      \* who made the loaded studio: "user", "jack" or "nobody"
  advised      \* its user was told that JACK stopped, and to unload it

jackVars == <<jack, inbox, jackEvents>>
roomVars == <<rooms, started, busy>>
childVars == <<children, clients, told>>
studioVars == <<name, loaded, automatic, origin, advised>>
loopVars == <<fault, quit, requests>>
graphVars == <<proxy, virtualizer>>
vars == <<jackVars, env, queue, studioVars, graphVars, roomVars, childVars,
          pc, loopVars>>

Bits == {"present", "started"}
Signals == {"appeared", "disappeared", "started", "stopped"}
Kinds == {"stop", "unload", "new", "load", "start", "exit", "create room",
          "delete room", "app"}

\* stop_state of the stop command
StopStage == {"none", "rooms", "clients", "children", "server"}

Cmd(kind, room) ==
  [kind |-> kind, room |-> room, state |-> "PENDING", stage |-> "none",
   deadline |-> FALSE]
Plain(kind) == Cmd(kind, "none")

CommandRecord ==
  {c \in [kind : Kinds, room : Rooms \cup {"none"},
          state : {"PENDING", "WAITING"}, stage : StopStage,
          deadline : BOOLEAN] :
     c.kind \in {"create room", "delete room"} => c.room \in Rooms}

-----------------------------------------------------------------------------
(***************************************************************************)
(* The environment store.                                                  *)
(***************************************************************************)
EnvStore == [state : SUBSET Bits, changed : SUBSET Bits]

EnvSet(e, bit) == [state |-> e.state \cup {bit}, changed |-> e.changed \cup {bit}]
\* slip: the change is not recorded
EnvResetUnseen(e, bit) == [e EXCEPT !.state = @ \ {bit}]
EnvReset(e, bit) == [state |-> e.state \ {bit}, changed |-> e.changed \cup {bit}]
EnvResetStealth(e, bit) == [e EXCEPT !.state = @ \ {bit}]
EnvConsume(e, bit) == [e EXCEPT !.changed = @ \ {bit}]

Fails(what) == what \in Faults

\* ladish_studio_is_started
IsStarted == "started" \in env.state

(***************************************************************************)
(* When the daemon starts jack_proxy_init asks jackdbus once whether the   *)
(* server is running.  The question activates a jackdbus that was gone;    *)
(* when that fails nothing is known.                                       *)
(***************************************************************************)
Init ==
  /\ jack \in {"gone", "idle", "running"}
  /\ inbox \in IF jack = "idle" THEN {<<>>, <<"appeared">>} ELSE {<<>>}
  /\ LET known == CASE jack = "gone" -> {}
                    [] jack = "idle" -> {"present"}
                    [] jack = "running" -> {"present", "started"}
     IN  env = [state |-> known, changed |-> known]
  /\ queue = <<>>
  /\ name = FALSE /\ loaded = FALSE /\ automatic = FALSE
  /\ origin = "nobody" /\ advised = FALSE
  /\ proxy = FALSE /\ virtualizer = FALSE
  /\ rooms = {} /\ started = {} /\ busy = {}
  /\ children = 0 /\ clients = FALSE /\ told = FALSE
  /\ pc = "dispatch" /\ fault = "" /\ quit = FALSE
  /\ requests = 0 /\ jackEvents = 0

-----------------------------------------------------------------------------
(***************************************************************************)
(* What jackdbus does by itself, or because somebody else asked it to.     *)
(***************************************************************************)
JackEvent(from, to, signal) ==
  /\ jack \in from
  /\ jack' = to
  /\ inbox' = Append(inbox, signal)
  /\ jackEvents < MaxJackEvents
  /\ jackEvents' = jackEvents + 1
  /\ UNCHANGED <<env, queue, studioVars, graphVars, roomVars, childVars, pc,
                 loopVars>>

JackStarts == JackEvent({"idle"}, "running", "started")
JackStops == JackEvent({"running"}, "idle", "stopped")
JackCrashes == JackEvent({"idle", "running"}, "gone", "disappeared")
JackAppears == JackEvent({"gone"}, "idle", "appeared")

(***************************************************************************)
(* The apps: they exit, their JACK clients come and go, and the room they  *)
(* leave becomes empty.  The daemon learns of it in loader_run and while   *)
(* it dispatches, so that nothing of this changes while the queue runs.    *)
(***************************************************************************)
AppStep == pc = "dispatch" /\ pc' = pc

ChildExits ==
  /\ AppStep
  /\ children > 0
  /\ children' = children - 1
  /\ UNCHANGED <<jackVars, env, queue, studioVars, graphVars, roomVars,
                 clients, told, loopVars>>

ClientsAppear ==
  /\ AppStep
  /\ children > 0 /\ virtualizer /\ ~clients
  /\ clients' = TRUE
  /\ UNCHANGED <<jackVars, env, queue, studioVars, graphVars, roomVars,
                 children, told, loopVars>>

ClientsDisappear ==
  /\ AppStep
  /\ clients
  /\ clients' = FALSE
  /\ UNCHANGED <<jackVars, env, queue, studioVars, graphVars, roomVars,
                 children, told, loopVars>>

RoomEmpties(r) ==
  /\ AppStep
  /\ r \in busy
  /\ busy' = busy \ {r}
  /\ UNCHANGED <<jackVars, env, queue, studioVars, graphVars, rooms, started,
                 childVars, loopVars>>

-----------------------------------------------------------------------------
(***************************************************************************)
(* Dispatching: a signal of jackdbus, a request of a client, or nothing.   *)
(***************************************************************************)
DispatchSignal ==
  /\ pc = "dispatch" /\ pc' = "cqueue"
  /\ inbox # <<>>
  /\ inbox' = Tail(inbox)
  /\ env' = CASE Head(inbox) = "appeared" -> EnvSet(env, "present")
              [] Head(inbox) = "disappeared" -> EnvReset(env, "present")
              [] Head(inbox) = "started" -> EnvSet(env, "started")
              [] Head(inbox) = "stopped" -> EnvReset(env, "started")
  /\ UNCHANGED <<jack, jackEvents, queue, studioVars, graphVars, roomVars,
                 childVars, loopVars>>

DispatchNothing ==
  /\ pc = "dispatch" /\ pc' = "cqueue"
  /\ inbox = <<>>
  /\ UNCHANGED <<jackVars, env, queue, studioVars, graphVars, roomVars,
                 childVars, loopVars>>

\* a request of a client queues commands
Queued(commands) ==
  /\ pc = "dispatch" /\ pc' = "cqueue"
  /\ requests < MaxRequests
  /\ requests' = requests + 1
  /\ queue' = queue \o commands
  /\ UNCHANGED <<jackVars, env, graphVars, roomVars, childVars, fault>>
Request(commands) == Queued(commands) /\ UNCHANGED quit

Unloading == <<Plain("stop"), Plain("unload")>>

(* the control object *)
RequestNew ==
  Request(Append(Unloading, Plain("new"))) /\ UNCHANGED studioVars
\* slip: a studio that is not published is taken for none
RequestLoadOver ==
  /\ Request((IF loaded THEN Unloading ELSE <<>>) \o <<Plain("load")>>)
  /\ UNCHANGED studioVars
RequestLoad ==
  Request(Append(Unloading, Plain("load"))) /\ UNCHANGED studioVars
RequestLoadAutostart ==
  /\ Request(Unloading \o <<Plain("load"), Plain("start")>>)
  /\ UNCHANGED studioVars
\* slip: the studio is stopped but not unloaded
RequestExitAtOnce == Request(<<Plain("stop"), Plain("exit")>>) /\ UNCHANGED studioVars
RequestExit ==
  Request(Append(Unloading, Plain("exit"))) /\ UNCHANGED studioVars
\* the exit command cannot be queued and the daemon quits all the same; when the
\* unload was queued already, only the last command of it is dropped again
RequestExitForced ==
  /\ Fails("queue")
  /\ \E left \in {<<>>, <<Plain("stop")>>} : Queued(left)
  /\ quit' = TRUE
  /\ UNCHANGED studioVars

(* the studio object, which exists while a studio is loaded *)
RequestUnload == loaded /\ Request(Unloading) /\ UNCHANGED studioVars
RequestStart ==
  /\ loaded
  /\ Request(<<Plain("start")>>)
  /\ automatic' = FALSE
  /\ UNCHANGED <<name, loaded, origin, advised>>
RequestStop ==
  /\ loaded
  /\ Request(<<Plain("stop")>>)
  /\ automatic' = FALSE
  /\ UNCHANGED <<name, loaded, origin, advised>>
RequestCreateRoom(r) ==
  loaded /\ Request(<<Cmd("create room", r)>>) /\ UNCHANGED studioVars
RequestDeleteRoom(r) ==
  loaded /\ Request(<<Cmd("delete room", r)>>) /\ UNCHANGED studioVars
RequestApp ==
  loaded /\ Request(<<Plain("app")>>) /\ UNCHANGED studioVars

\* SIGTERM, as seen at the head of the main loop
Terminate ==
  /\ pc = "dispatch" /\ pc' = "quit"
  /\ quit' = TRUE
  /\ UNCHANGED <<jackVars, env, queue, studioVars, graphVars, roomVars,
                 childVars, fault, requests>>

-----------------------------------------------------------------------------
(***************************************************************************)
(* ladish_cqueue_run on the command at the head of the queue.              *)
(***************************************************************************)
Pending(kind) ==
  /\ pc = "cqueue" /\ queue # <<>>
  /\ Head(queue).kind = kind /\ Head(queue).state = "PENDING"

Waiting(kind) ==
  /\ pc = "cqueue" /\ queue # <<>>
  /\ Head(queue).kind = kind /\ Head(queue).state = "WAITING"

Stopping(stage) == Waiting("stop") /\ Head(queue).stage = stage

Unbounded == <<loopVars, jackEvents>>

\* the command is done and the next one runs
Done == queue' = Tail(queue) /\ UNCHANGED <<pc, Unbounded>>

\* the queue has run: a daemon that quits handles no events any more
Returned == pc' = IF quit THEN "quit" ELSE "events"

\* the command failed: the queue is cleared
Fail == queue' = <<>> /\ Returned /\ UNCHANGED Unbounded

\* the command goes on later, as cmd
WaitAs(cmd) ==
  /\ queue' = <<cmd>> \o Tail(queue)
  /\ Returned
  /\ UNCHANGED Unbounded
Wait == WaitAs([Head(queue) EXCEPT !.state = "WAITING"])

\* the next case of the run callback, in the same call
FallThrough(cmd) == queue' = <<cmd>> \o Tail(queue) /\ UNCHANGED <<pc, Unbounded>>

\* an ASSERT fails, or a null pointer is used
Dies(line) ==
  /\ pc' = "aborted"
  /\ fault' = line
  /\ UNCHANGED <<jackVars, env, queue, studioVars, graphVars, roomVars,
                 childVars, quit, requests>>

\* a step behind an ASSERT of the condition
Asserted(condition, line, step) == IF condition THEN step ELSE Dies(line)

QueueRan ==
  /\ pc = "cqueue" /\ queue = <<>>
  /\ Returned
  /\ UNCHANGED <<jackVars, env, queue, studioVars, graphVars, roomVars,
                 childVars, loopVars>>

\* slip: the graph proxy is forgotten
GraphHalfDown == virtualizer' = FALSE /\ clients' = FALSE /\ UNCHANGED proxy

\* ladish_studio_on_jack_stopped_internal
GraphDown == proxy' = FALSE /\ virtualizer' = FALSE /\ clients' = FALSE

(***************************************************************************)
(* A call to jackdbus activates it when it is gone.                        *)
(***************************************************************************)
Activated(call) ==
  IF jack = "gone" THEN <<"appeared">> \o call ELSE call

\* a call that changes nothing else
Called ==
  /\ jack' = IF jack = "gone" THEN "idle" ELSE jack
  /\ inbox' = inbox \o Activated(<<>>)
Uncalled == UNCHANGED <<jack, inbox>>

(***************************************************************************)
(* ladish_studio_on_event_jack_started, and the start of rooms along with  *)
(* it.  The apps of the studio that are to run are started even when the   *)
(* graph proxy could not be created, those of the rooms also when the      *)
(* settings of the server could not be read.                               *)
(***************************************************************************)
Autorun ==
  /\ children' \in children .. MaxChildren
  /\ told' = (told /\ children' = children)

SettingsUnread(startedRooms) ==
  /\ Fails("settings")
  /\ Called \/ Uncalled
  /\ IF startedRooms = {} THEN UNCHANGED <<children, told>> ELSE Autorun
  /\ UNCHANGED graphVars

GraphStarted ==
  /\ Called
  /\ Autorun
  /\ \/ Fails("proxy") /\ UNCHANGED graphVars
     \/ /\ proxy' = TRUE
        /\ \/ virtualizer' = TRUE
           \/ Fails("virtualizer") /\ UNCHANGED virtualizer

JackStarted(startedRooms) == SettingsUnread(startedRooms) \/ GraphStarted

(***************************************************************************)
(* stop studio.                                                            *)
(***************************************************************************)
StopIgnored ==
  /\ Pending("stop") /\ ~IsStarted
  /\ Done
  /\ UNCHANGED <<jack, inbox, env, studioVars, graphVars, roomVars, childVars>>

StopInitiated ==
  /\ Pending("stop") /\ IsStarted
  /\ FallThrough([Head(queue) EXCEPT !.state = "WAITING", !.stage = "rooms"])
  /\ told' = TRUE
  /\ UNCHANGED <<jack, inbox, env, studioVars, graphVars, roomVars, children,
                 clients>>

\* the rooms are asked in order until one is not stopped
StopAwaitsRooms ==
  /\ Stopping("rooms")
  /\ started \cap busy # {}
  /\ \E S \in SUBSET (started \ busy) : started' = started \ S
  /\ Wait
  /\ UNCHANGED <<jack, inbox, env, studioVars, graphVars, rooms, busy, childVars>>

StopRoomsStopped ==
  /\ Stopping("rooms")
  /\ started \cap busy = {}
  /\ started' = {}
  /\ FallThrough([Head(queue) EXCEPT !.stage = "clients"])
  /\ UNCHANGED <<jack, inbox, env, studioVars, graphVars, rooms, busy, childVars>>

StopAwaitsClients ==
  /\ Stopping("clients")
  /\ virtualizer /\ clients
  /\ Wait
  /\ UNCHANGED <<jack, inbox, env, studioVars, graphVars, roomVars, childVars>>

StopClientsGone ==
  /\ Stopping("clients")
  /\ virtualizer /\ ~clients
  /\ FallThrough([Head(queue) EXCEPT !.stage = "children"])
  /\ UNCHANGED <<jack, inbox, env, studioVars, graphVars, roomVars, childVars>>

\* the count is read through the virtualizer
StopWithoutVirtualizer ==
  /\ Stopping("clients")
  /\ ~virtualizer
  /\ Dies("virtualizer.c:1284")

StopAwaitsChildren ==
  /\ Stopping("children")
  /\ children # 0
  /\ Wait
  /\ UNCHANGED <<jack, inbox, env, studioVars, graphVars, roomVars, childVars>>

\* slip: the running children are not counted
StopServerEarly ==
  /\ Stopping("children")
  /\ jack' = "idle"
  /\ inbox' = inbox \o Activated(IF jack = "running" THEN <<"stopped">> ELSE <<>>)
  /\ FallThrough([Head(queue) EXCEPT !.stage = "server"])
  /\ UNCHANGED <<env, studioVars, graphVars, roomVars, childVars>>

StopServer ==
  /\ Stopping("children")
  /\ children = 0
  /\ jack' = "idle"
  /\ inbox' = inbox \o Activated(IF jack = "running" THEN <<"stopped">> ELSE <<>>)
  /\ FallThrough([Head(queue) EXCEPT !.stage = "server"])
  /\ UNCHANGED <<env, studioVars, graphVars, roomVars, childVars>>

\* slip: the failed call is waited for without a deadline
StopServerFailsForGood ==
  /\ Stopping("children")
  /\ children = 0
  /\ Fails("stop")
  /\ WaitAs([Head(queue) EXCEPT !.stage = "server"])
  /\ UNCHANGED <<jack, inbox, env, studioVars, graphVars, roomVars, childVars>>

StopServerFails ==
  /\ Stopping("children")
  /\ children = 0
  /\ Fails("stop")
  /\ WaitAs([Head(queue) EXCEPT !.stage = "server", !.deadline = TRUE])
  /\ UNCHANGED <<jack, inbox, env, studioVars, graphVars, roomVars, childVars>>

\* done: the graphs of the studio are taken down
StopDone ==
  /\ GraphDown
  /\ Done
  /\ UNCHANGED <<studioVars, roomVars, children, told>>

\* after a failed stop call jackdbus is asked for five seconds
StopPollStopped ==
  /\ Stopping("server") /\ Head(queue).deadline
  /\ jack # "running"
  /\ Called
  /\ env' = EnvResetStealth(env, "started")
  /\ StopDone

StopPollWaits ==
  /\ Stopping("server") /\ Head(queue).deadline
  /\ jack = "running" \/ Fails("stop")
  /\ Wait
  /\ UNCHANGED <<jack, inbox, env, studioVars, graphVars, roomVars, childVars>>

StopExpires ==
  /\ Stopping("server") /\ Head(queue).deadline
  /\ jack = "running" \/ Fails("stop")
  /\ Fail
  /\ UNCHANGED <<jack, inbox, env, studioVars, graphVars, roomVars, childVars>>

\* after a successful one its signal is awaited
ServerStopped ==
  /\ env' = EnvConsume(env, "started")
  /\ UNCHANGED <<jack, inbox>>
  /\ StopDone

StopSignalled ==
  /\ Stopping("server") /\ ~Head(queue).deadline
  /\ "started" \in env.changed
  /\ Asserted(~IsStarted, "cmd_stop_studio.c:178", ServerStopped)

GoOnWaiting ==
  /\ Wait
  /\ UNCHANGED <<jack, inbox, env, studioVars, graphVars, roomVars, childVars>>

StopAwaitsSignal ==
  /\ Stopping("server") /\ ~Head(queue).deadline
  /\ "started" \notin env.changed
  /\ Asserted(IsStarted, "cmd_stop_studio.c:169", GoOnWaiting)

StopStudio ==
  \/ StopIgnored \/ StopInitiated
  \/ StopAwaitsRooms \/ StopRoomsStopped
  \/ StopAwaitsClients \/ StopClientsGone \/ StopWithoutVirtualizer
  \/ StopAwaitsChildren \/ StopServer \/ StopServerFails
  \/ StopPollStopped \/ StopPollWaits \/ StopExpires
  \/ StopSignalled \/ StopAwaitsSignal

(***************************************************************************)
(* start studio.                                                           *)
(***************************************************************************)
StartIgnored ==
  /\ Pending("start") /\ IsStarted
  /\ Done
  /\ UNCHANGED <<jack, inbox, env, studioVars, graphVars, roomVars, childVars>>

StartRefused ==
  /\ Pending("start") /\ ~IsStarted
  /\ children # 0 \/ Fails("start")
  /\ Fail
  /\ UNCHANGED <<jack, inbox, env, studioVars, graphVars, roomVars, childVars>>

StartServer ==
  /\ Pending("start") /\ ~IsStarted
  /\ children = 0
  /\ jack' = "running"
  /\ inbox' = inbox \o Activated(IF jack # "running" THEN <<"started">> ELSE <<>>)
  /\ FallThrough([Head(queue) EXCEPT !.state = "WAITING"])
  /\ UNCHANGED <<env, studioVars, graphVars, roomVars, childVars>>

StartAwaitsSignal ==
  /\ Waiting("start")
  /\ "started" \notin env.changed
  /\ ~IsStarted
  /\ Wait
  /\ UNCHANGED <<jack, inbox, env, studioVars, graphVars, roomVars, childVars>>

StartExpires ==
  /\ Waiting("start")
  /\ "started" \notin env.changed
  /\ ~IsStarted
  /\ Fail
  /\ UNCHANGED <<jack, inbox, env, studioVars, graphVars, roomVars, childVars>>

\* the rooms are started in order, until one cannot be started
Startable == {rooms} \cup (IF Fails("room") THEN SUBSET rooms ELSE {})

RoomsStarted(S) ==
  /\ started' = started \cup S
  /\ \E B \in SUBSET S : busy' = busy \cup B
  /\ rooms' = rooms

StartSignalled ==
  /\ Waiting("start")
  /\ "started" \in env.changed
  /\ IsStarted
  /\ env' = EnvConsume(env, "started")
  /\ \E S \in Startable : JackStarted(S) /\ RoomsStarted(S)
  /\ Done
  /\ UNCHANGED <<studioVars, clients>>

StartAssertions ==
  /\ Waiting("start")
  /\ \/ "started" \notin env.changed /\ IsStarted /\ Dies("cmd_start_studio.c:103")
     \/ "started" \in env.changed /\ ~IsStarted /\ Dies("cmd_start_studio.c:117")

StartStudio ==
  \/ StartIgnored \/ StartRefused \/ StartServer
  \/ StartAwaitsSignal \/ StartExpires \/ StartSignalled \/ StartAssertions

(***************************************************************************)
(* unload studio, new studio and load studio.  ladish_studio_clear         *)
(* destroys the rooms first, and destroying a room that is still marked as *)
(* started is an assertion; the apps are told to terminate.                *)
(***************************************************************************)
Cleared ==
  /\ rooms' = {} /\ started' = {} /\ busy' = {}
  /\ told' = TRUE
  /\ name' = FALSE /\ loaded' = FALSE
  /\ origin' = "nobody" /\ advised' = FALSE
  /\ UNCHANGED <<automatic, children, clients>>

Unload ==
  /\ Pending("unload")
  /\ started = {}
  /\ Cleared
  /\ Done
  /\ UNCHANGED <<jack, inbox, env, graphVars>>

UnloadAssertion == Pending("unload") /\ started # {} /\ Dies("room.c:391")

Made ==
  /\ \/ /\ Done
        /\ name' = TRUE /\ loaded' = TRUE /\ origin' = "user"
     \/ /\ Fails("publish")
        /\ Fail
        /\ UNCHANGED <<name, loaded, origin>>
  /\ UNCHANGED <<jack, inbox, env, graphVars, roomVars, childVars, automatic,
                 advised>>

NewStudio == Pending("new") /\ Asserted(~name, "cmd_new_studio.c:41", Made)

\* the parameters of the server are reset before the file is read
LoadStudio ==
  /\ Pending("load")
  /\ Done
  /\ Called
  /\ name' = TRUE /\ loaded' = TRUE /\ origin' = "user"
  /\ rooms' \in {rooms \cup R : R \in SUBSET Rooms}
  /\ UNCHANGED <<env, graphVars, started, busy, childVars, automatic, advised>>

\* there is no such file; the parameters cannot be reset, or the file cannot be
\* read or published; or it cannot be parsed
LoadFails ==
  /\ Pending("load")
  /\ Fails("studio file")
  /\ Fail
  /\ \/ Uncalled /\ UNCHANGED <<studioVars, roomVars, childVars>>
     \/ /\ Called \/ Uncalled
        /\ name' = TRUE
        /\ UNCHANGED <<loaded, automatic, origin, advised, roomVars, childVars>>
     \/ Called /\ started = {} /\ Cleared
  /\ UNCHANGED <<env, graphVars>>

(***************************************************************************)
(* create room and delete room.                                            *)
(***************************************************************************)
CreateRoom ==
  /\ Pending("create room")
  /\ LET r == Head(queue).room IN
       /\ r \notin rooms
       /\ rooms' = rooms \cup {r}
       /\ started' = IF IsStarted THEN started \cup {r} ELSE started
       /\ busy' \in IF IsStarted THEN {busy, busy \cup {r}} ELSE {busy}
  /\ Done
  /\ UNCHANGED <<jack, inbox, env, studioVars, graphVars, childVars>>

\* a room that cannot be started is destroyed again
CreateRoomFails ==
  /\ Pending("create room")
  /\ Head(queue).room \in rooms \/ Fails("room")
  /\ Fail
  /\ UNCHANGED <<jack, inbox, env, studioVars, graphVars, roomVars, childVars>>

DeleteRoomInitiated ==
  /\ Pending("delete room")
  /\ Head(queue).room \in rooms
  /\ Wait
  /\ UNCHANGED <<jack, inbox, env, studioVars, graphVars, roomVars, childVars>>

DeleteRoomAwaits ==
  /\ Waiting("delete room")
  /\ Head(queue).room \in started \cap busy
  /\ Wait
  /\ UNCHANGED <<jack, inbox, env, studioVars, graphVars, roomVars, childVars>>

RoomDeleted ==
  /\ Waiting("delete room")
  /\ LET r == Head(queue).room IN
       /\ r \in rooms
       /\ r \notin started \cap busy
       /\ rooms' = rooms \ {r}
       /\ started' = started \ {r}
       /\ busy' = busy \ {r}
  /\ Done
  /\ UNCHANGED <<jack, inbox, env, studioVars, graphVars, childVars>>

DeleteRoomUnknown ==
  /\ Pending("delete room") \/ Waiting("delete room")
  /\ Head(queue).room \notin rooms
  /\ Fail
  /\ UNCHANGED <<jack, inbox, env, studioVars, graphVars, roomVars, childVars>>

(***************************************************************************)
(* new app, in the studio or in one of its rooms, and exit.                *)
(***************************************************************************)
NewApp ==
  /\ Pending("app")
  /\ Done
  /\ \/ ~IsStarted /\ UNCHANGED <<childVars, busy>>
     \/ /\ IsStarted /\ children < MaxChildren
        /\ children' = children + 1
        /\ told' = FALSE
        /\ busy' \in {busy} \cup {busy \cup {r} : r \in started}
        /\ UNCHANGED clients
  /\ UNCHANGED <<jack, inbox, env, studioVars, graphVars, rooms, started>>

\* the room of the app is gone, or the app cannot be executed; the bound of
\* the children counts as the latter
NewAppFails ==
  /\ Pending("app")
  /\ Fails("app") \/ (IsStarted /\ children = MaxChildren)
  /\ Fail
  /\ UNCHANGED <<jack, inbox, env, studioVars, graphVars, roomVars, childVars>>

Exit ==
  /\ Pending("exit")
  /\ queue' = <<>>
  /\ quit' = TRUE /\ pc' = "quit"
  /\ UNCHANGED <<jackVars, env, studioVars, graphVars, roomVars, childVars,
                 fault, requests>>

OtherCommands ==
  \/ Unload \/ UnloadAssertion \/ NewStudio
  \/ LoadStudio \/ LoadFails
  \/ CreateRoom \/ CreateRoomFails
  \/ DeleteRoomInitiated \/ DeleteRoomAwaits \/ RoomDeleted \/ DeleteRoomUnknown
  \/ NewApp \/ NewAppFails \/ Exit

-----------------------------------------------------------------------------
(***************************************************************************)
(* The second half of ladish_studio_run: what the daemon learned of the    *)
(* JACK server and no command consumed.  A change of the server empties    *)
(* the command queue.                                                      *)
(***************************************************************************)
Event(started_changed) ==
  /\ pc = "events" /\ pc' = "dispatch"
  /\ ("started" \in env.changed) = started_changed
  /\ UNCHANGED <<jackEvents, roomVars, loopVars>>

Consumed == EnvConsume(env, "started")
AllConsumed == EnvConsume(Consumed, "present")

NothingLearned ==
  /\ Event(FALSE) /\ Uncalled
  /\ "present" \notin env.changed \/ ~proxy
  /\ env' = AllConsumed
  /\ UNCHANGED <<queue, studioVars, graphVars, childVars>>

\* jackdbus vanished under a running studio
JackLost ==
  /\ Event(FALSE) /\ Uncalled
  /\ "present" \in env.changed /\ proxy
  /\ queue' = <<>>
  /\ env' = EnvResetStealth(AllConsumed, "started")
  /\ GraphDown
  /\ UNCHANGED <<studioVars, children, told>>

\* a studio is created for a JACK server somebody else started
AutomaticStudio ==
  /\ Event(TRUE) /\ IsStarted /\ ~proxy /\ ~loaded
  /\ ~name
  /\ queue' = <<>>
  /\ env' = AllConsumed
  /\ name' = TRUE /\ automatic' = TRUE
  /\ \/ loaded' = TRUE /\ origin' = "jack"
     \/ Fails("publish") /\ UNCHANGED <<loaded, origin>>
  /\ JackStarted({})
  /\ UNCHANGED <<clients, advised>>

AutomaticAssertion ==
  /\ pc = "events" /\ "started" \in env.changed
  /\ IsStarted /\ ~proxy /\ ~loaded /\ name
  /\ Dies("studio.c:440")

\* the server was started under a loaded studio
StartedExternally ==
  /\ Event(TRUE) /\ IsStarted /\ ~proxy /\ loaded
  /\ queue' = <<>>
  /\ env' = AllConsumed
  /\ JackStarted({})
  /\ UNCHANGED <<studioVars, clients>>

\* the graph is up and the server started, or neither
AlreadyKnown ==
  /\ Event(TRUE) /\ Uncalled /\ IsStarted = proxy
  /\ queue' = <<>>
  /\ env' = IF IsStarted THEN AllConsumed ELSE Consumed
  /\ UNCHANGED <<studioVars, graphVars, childVars>>

AutomaticStudioStopped ==
  /\ Event(TRUE) /\ Uncalled /\ ~IsStarted /\ proxy /\ automatic
  /\ queue' = Unloading
  /\ env' = Consumed
  /\ GraphDown
  /\ UNCHANGED <<studioVars, children, told>>

\* slip: the commands that wait for the server go on waiting
StoppedUnexpectedlyQueued ==
  /\ Event(TRUE) /\ Uncalled /\ ~IsStarted /\ proxy /\ ~automatic
  /\ env' = AllConsumed
  /\ GraphDown
  /\ advised' = TRUE
  /\ UNCHANGED <<queue, name, loaded, automatic, origin, children, told>>

StoppedUnexpectedly ==
  /\ Event(TRUE) /\ Uncalled /\ ~IsStarted /\ proxy /\ ~automatic
  /\ queue' = <<>>
  /\ env' = AllConsumed
  /\ GraphDown
  /\ advised' = TRUE
  /\ UNCHANGED <<name, loaded, automatic, origin, children, told>>

Events ==
  \/ NothingLearned \/ JackLost
  \/ AlreadyKnown
  \/ AutomaticStudio \/ AutomaticAssertion \/ StartedExternally
  \/ AutomaticStudioStopped \/ StoppedUnexpectedly

-----------------------------------------------------------------------------
Jackdbus == JackStarts \/ JackStops \/ JackCrashes \/ JackAppears

Apps ==
  \/ ChildExits \/ ClientsAppear \/ ClientsDisappear
  \/ \E r \in Rooms : RoomEmpties(r)

Requested ==
  \/ RequestNew \/ RequestLoad \/ RequestLoadAutostart
  \/ RequestExit \/ RequestExitForced
  \/ RequestUnload \/ RequestStart \/ RequestStop \/ RequestApp
  \/ \E r \in Rooms : RequestCreateRoom(r) \/ RequestDeleteRoom(r)

RunQueue == QueueRan \/ StopStudio \/ StartStudio \/ OtherCommands

\* the main loop is left, or the process died
Ended == pc \in {"quit", "aborted"} /\ UNCHANGED vars

Next ==
  \/ Jackdbus \/ Apps
  \/ DispatchSignal \/ DispatchNothing \/ Requested \/ Terminate
  \/ RunQueue \/ Events
  \/ Ended

Spec == Init /\ [][Next]_vars

(***************************************************************************)
(* Fairness.  The main loop goes on.  An app that was told to terminate    *)
(* exits, and what it leaves in the JACK graph disappears; so does what is *)
(* left in a room a command waits for.  The five second deadlines expire.  *)
(***************************************************************************)
Awaited(r) ==
  /\ queue # <<>> /\ Head(queue).state = "WAITING"
  /\ Head(queue).kind = "stop" \/ Head(queue).room = r

Fairness ==
  /\ WF_vars(DispatchSignal \/ DispatchNothing)
  /\ WF_vars(RunQueue)
  /\ WF_vars(Events)
  /\ SF_vars(told /\ ChildExits)
  /\ SF_vars(told /\ ClientsDisappear)
  /\ \A r \in Rooms : SF_vars(Awaited(r) /\ RoomEmpties(r))
  /\ SF_vars(StopExpires)
  /\ SF_vars(StartExpires)

FairSpec == Spec /\ Fairness

-----------------------------------------------------------------------------
(***************************************************************************)
(* Properties.                                                             *)
(***************************************************************************)

\* The variables have the types of the C declarations; only rooms of the
\* list can be started or busy.
TypeOK ==
  /\ jack \in {"gone", "idle", "running"}
  /\ inbox \in Seq(Signals)
  /\ env \in EnvStore
  /\ queue \in Seq(CommandRecord)
  /\ name \in BOOLEAN /\ loaded \in BOOLEAN /\ automatic \in BOOLEAN
  /\ proxy \in BOOLEAN /\ virtualizer \in BOOLEAN
  /\ clients \in BOOLEAN /\ told \in BOOLEAN /\ quit \in BOOLEAN
  /\ rooms \in SUBSET Rooms /\ started \subseteq rooms /\ busy \subseteq rooms
  /\ children \in 0..MaxChildren

\* Whatever jackdbus does and in whatever order it is learned, the daemon
\* enters its main loop with a virtualizer only on a graph proxy, and with a
\* graph proxy only while it takes the JACK server to be running: no path
\* through ladish_studio_run forgets to take the graph down.
ProxyFollowsServer ==
  /\ virtualizer => proxy
  /\ pc = "dispatch" /\ proxy => IsStarted

\* The stop command sees the server stop, and the start command sees it
\* start: nobody consumes the change a waiting command waits for, and no
\* server comes back to life under the stop command (cmd_stop_studio.c:169
\* and 178, cmd_start_studio.c:103).
NobodyElseConsumes ==
  fault \notin {"cmd_stop_studio.c:169", "cmd_stop_studio.c:178",
                "cmd_start_studio.c:103"}

\* The daemon stops the JACK server only when no app it started is alive and
\* no room is started, although the rooms were found stopped in an earlier
\* iteration of the main loop and commands were queued meanwhile.
ServerStoppedLast ==
  [][pc = "cqueue" /\ jackEvents' = jackEvents /\ jack = "running" /\ jack' = "idle"
       => children = 0 /\ started = {}]_vars

\* The exit command leaves the main loop with the studio unloaded and its
\* rooms gone, also when JACK crashed or a stop timed out on the way; the
\* daemon that quits because the command cannot be queued does not.
ExitUnloads ==
  [][pc = "cqueue" /\ ~quit /\ quit' => ~loaded /\ ~name /\ rooms = {}]_vars

\* A studio is created or loaded only where nothing is left of the one before:
\* no name, no object on the bus and no room, whatever became of the commands
\* queued earlier and however an earlier load failed (cmd_new_studio.c:41).
StudioReplaced ==
  Pending("new") \/ Pending("load") => ~name /\ ~loaded /\ rooms = {}

Over == pc \in {"quit", "aborted"}

\* Every command ends: the queue is empty again and again, whether the calls
\* to jackdbus fail, its signals get lost in a crash, or apps take their time.
QueueDrains == []<>(queue = <<>> \/ Over)

\* When JACK was not running yet when the daemon came up, and the reaction to
\* its start succeeds (settings, proxy, virtualizer, publishing), the studio
\* in the end has a graph proxy exactly when the server runs, whoever started,
\* stopped or crashed it, and whichever commands fail.
JackIsFollowed ==
  jack # "running" => <>[](Over \/ (proxy <=> jack = "running"))

(***************************************************************************)
(* What the assertions and messages of the code claim, and does not hold.  *)
(***************************************************************************)

\* studio.c:483 tells the user of a studio to unload it after JACK stopped
\* unexpectedly; then no room is destroyed that is not stopped (room.c:391).
UnloadFindsRoomsStopped ==
  advised /\ origin = "user" => fault # "room.c:391"

\* The studio is automatic only when it was created because of an external
\* JACK start (studio_internal.h:134).
AutomaticIsFromJack == automatic /\ loaded => origin = "jack"

\* A studio without a D-Bus object has no name (studio.c:440).
UnpublishedHasNoName == fault # "studio.c:440"
=============================================================================
