# Verification of ladish

ladish is a session manager for JACK. Its daemon, `ladishd`, starts and stops
the JACK server, starts apps, watches the JACK graph, and keeps all of it as a
*studio* that can be saved and loaded again; gladish is its graphical front end.
This directory holds TLA+ models of both and of the processes beside them, TLC
configurations that check them on small instances, and TLAPS proofs that hold for
instances of every size.

## 1. Inventory

The daemon is **one thread**. An iteration of `main()` (`main.c:391-397`) polls
D-Bus for at most one message, lets the loader bury dead children
(`loader_run`), and calls `ladish_studio_run`, which runs the command queue and
then handles what was learned of the JACK server. Nothing is locked; the
hard behaviour comes from

* *other processes*: jackdbus (starts, stops, crashes, is activated by calls to
  it), the apps, their JACK clients, and D-Bus clients such as gladish and
  `ladish_control`, whose requests queue up behind each other;
* *signals that arrive later than what they announce*, while synchronous calls
  to the same process are answered at once;
* *commands that wait*, over many iterations, in front of other commands;
* `SIGCHLD`, whose handler runs between any two instructions;
* *partial failure*: most functions can fail in the middle, and files are
  written in several steps.

| part (files under `src/daemon` unless said) | state | operations | interacts with | what makes it correct | status |
|---|---|---|---|---|---|
| command queue (`cqueue.c`, `cmd.h`) | list of commands with a state each | add, drop, run, clear | every D-Bus request adds commands; `ladish_studio_run` runs them | one command at a time, in order; a failure takes everything behind it; a request that cannot be queued takes nothing | modelled, proved |
| studio (`studio.c`, `cmd_*_studio.c`, `cmd_exit.c`, `main.c`) | `g_studio`: environment store, name, automatic, graph proxy, virtualizer, room list | start, stop, new, load, unload, exit, react to JACK | jackdbus, rooms, loader, virtualizer | the studio follows the server, the server stops last, commands end | modelled, safety proved |
| jackdbus (`src/proxies/jack_proxy.c`) | server state known through signals | start, stop, is-started, save session, signals | studio, apps | - | modelled as environment |
| apps (`app_supervisor.c`, `loader.c`, `cmd_*_app.c`) | app list with pid, state, zombie, autorun; list of children with dead flag | add, run, stop, kill, remove, child exit | SIGCHLD, virtualizer (pid of a client), studio, rooms, sessions | every child is buried; a removed app stays until its child is gone; no app runs twice; the server outlives the apps | modelled, proved |
| rooms and projects (`room.c`, `room_*.c`, `cmd_*_room.c`, `cmd_*_project.c`) | rooms with index, project state, links, app | create, start, stop, delete, load, save, unload | graphs, app supervisor, studio, jmcore | live indices differ; links match started rooms; what waits for a room goes on | modelled; safety proved |
| port links (`src/jmcore.c`) | pairs of JACK ports | create, destroy, bury | rooms, JACK | pairs of exactly the started rooms | modelled with the rooms, proved |
| graph (`graph.c`, `graph_manager.c`, `client.c`, `port.c`) | clients, ports, connections, hidden flags, version | add, remove, show, hide, move, join, split, connect | virtualizer, rooms, gladish | the visible is inside the visible; versions tell old signals from new | modelled |
| graph proxy and canvas (`src/proxies/graph_proxy.c`, `src/gui/graph_canvas.c`) | version, what is drawn | hook signals, ask for the graph, follow | graph | the canvas shows the graph | modelled |
| virtualizer (`virtualizer.c`) | two graphs, jack ids, count of own clients | client and port appear, disappear, connect; app removed | JACK's signals, app supervisor | both graphs show JACK; the count of own clients is exact; connections come back | modelled |
| studio files (`cmd_save_studio.c`, `cmd_rename_studio.c`, `studio_list.c`, `recent_store.c`) | file name, backups, recent list | save, save as, rename, delete, load | file system | a crash or an error loses no studio | modelled, proved |
| session saving (`jack_session.c`, `room_save.c`, `cmd_save_project.c`, `src/common/dirhelpers.c`) | pending saves, numbered directories | save, app answered, app exited, rotate | jackdbus, command queue, file system | a save that succeeds has every app; the last saved session is found | modelled, proved |
| documents (`save.c`, `load.c`, `escape.c`, `cmd_load_studio.c`, `room_load.c`, `dict.c`) | the contents of files | write, read | graphs, apps, rooms | what was written loads, and brings back what there was | modelled, proved |
| settings (`src/conf.c`, `src/proxies/conf_proxy.c`) | pairs of key and value with version; copies of them | set, get, signal, store, exit | the daemon, gladish | the copies agree with the service | modelled, proved |
| gladish's views (`src/gui/control.c`, `studio.c`, `world_tree.c`, `graph_view.c`, `src/proxies/*_proxy.c`, hooks of `src/cdbus/helpers.c`) | state of the studio, a view per room, rows of apps, hooks | start, open, close, follow | control object, studio, rooms, app supervisors | shows what the daemon has; no hook twice | modelled; menus and dialogs not |
| control object (`control.c`) | none of its own | requests, signals | studio | - | its requests and signals are in the models that use them |
| application database, LASH server, siginfo, procfs, proctitle, other proxies | none that a protocol depends on | getters, parsers | - | - | not modelled |
| `src/lash_compat`, `src/alsapid`, `ladish_control`, `wscript` | client libraries, scripts, build | - | - | - | not modelled |

What is hard to test in this code is listed line by line under `"hazards"` in
`PROJECT.json`, each with the property that is aimed at it.

## 2. Modules

| module | what it is |
|---|---|
| `CommandQueue` | `cqueue.c`: requests split into commands, and every way they leave the queue |
| `SerialRequests` | abstract: requests are served one at a time and in order |
| `CommandQueueSerial` | the refinement mapping from `CommandQueue` to `SerialRequests` |
| `MCCommandQueue` | four requests of one to four commands |
| `StudioLifecycle` | the main loop, the environment store, jackdbus, and the commands of the studio |
| `MCStudioLifecycle`, `StudioLifecycleProofs` | its instance, its theorems |
| `AppSupervisor` | the apps, the children of the loader, their processes, SIGCHLD, and the commands that create, start, stop and remove apps |
| `MCAppSupervisor`, `AppSupervisorProofs` | its instance, its theorems |
| `Lists` | the linked lists of the daemon, used by `Graph`, `Virtualizer` and `FrontEnd` |
| `Graph` | a patchbay graph as a value, its operations as operators, the signals they emit |
| `GraphMirror`, `MCGraphMirror` | a published graph, the bus, and gladish's proxy and canvas |
| `FoldFacts`, `GraphMirrorProofs` | induction over lists as theorems that can be instantiated; theorems about `GraphMirror` |
| `Virtualizer`, `MCVirtualizer` | JACK's patchbay, the JACK graph and the virtual graph of a studio |
| `StudioFiles`, `MCStudioFiles` | files of studios and their backups, the recent list, crashes |
| `SessionSave` | saving a project with its JACK session apps, rotation of directories, crashes |
| `Rooms`, `RoomsProofs` | rooms, their projects, and the port pairs of jmcore; theorems |
| `Documents`, `MCDocuments`, `DocumentsProofs` | what studio and project files say, and what reading them makes of it; theorems |
| `Configuration` | the service of settings and its clients |
| `PersistenceProofs` | theorems about the three modules of what outlives the daemon: `StudioFiles`, `SessionSave`, `Configuration` |
| `FrontEnd` | gladish's picture of the daemon |
| `QueueProofs` | theorems about the two modules whose queues put things in order: `CommandQueue`, the refinement among them, and `FrontEnd` |
| `MCDesktop` | instance of the last two |

### CommandQueue

`queue` is `struct list_head queue`; a command is the pair of its request and
its position in it, `state` its `state` field plus what became of it after it
left the list. `Submit` is a D-Bus method that adds all its commands, `SubmitFails`
one that runs out of memory at command `k` and drops what its error path knows of
(`ladish_cqueue_drop_command`): of a load or a new studio that is everything but the
"stop" in front. `BeginRun`, `HeadDone`, `HeadWaits`, `HeadFails` and `HeadStrays` are
the iterations of the loop of `ladish_cqueue_run`, the last one the branch behind
`ASSERT_NO_PASS` for a command that returns with its state unchanged; `Clear` is
`ladish_cqueue_clear`, called by `ladish_studio_run`. `aborted` is the end of the
daemon by that assertion or by the double free of section 6. `ladish_cqueue_cancel`, and with it the `cancel`
flag of a command and of the queue, has no caller in the repository, so neither is in
the model; as it is written it would use a freed command (section 6).

`SerialRequests` knows nothing of commands: a request is accepted or refused,
served (`phase`), completed or aborted, and `ahead` orders those that did not end
yet. `CommandQueueSerial` reads both off the queue: a request is served from the
run of its first command and has ended when its last one has left, and one
request is ahead of another when its last command stands in front of that of the other.

### StudioLifecycle

`pc` is where the main loop stands: `dispatch`, `cqueue` or `events` (the second
half of `ladish_studio_run`), `quit` behind the loop, or `aborted` when an `ASSERT` failed or a
null pointer was used; `fault` is then the line. `env` is the environment store
(`state` and `changed` bits). `inbox` holds the signals of jackdbus that wait in
the connection; synchronous calls see `jack` itself, and this gap is what the
module is about. Each command has one action per way through its `run`
callback: `StopInitiated`, `StopAwaitsRooms`, ..., `StopSignalled` follow
`cmd_stop_studio.c` from top to bottom, a fall-through of the switch being a
step that keeps `pc`. What can fail is a member of `Faults`: `settings`,
`proxy`, `virtualizer` and `publish` for what `ladish_studio_on_event_jack_started`
and `ladish_studio_publish` do, `start` and `stop` for the calls to jackdbus,
`studio file`, `room` and `app` for the load, room and app commands, and `queue` for
the request to exit, which quits at once when its command cannot be queued
(`RequestExitForced`; `quit` is `g_quit`, which the loop looks at before an iteration, so
that a signal takes effect there). A call to jackdbus may start a
jackdbus that is not there (`Called`); the load's `jack_reset_all_params` is such a call,
and so is fetching the settings. When the settings cannot be
read the apps of the rooms are started all the same and those of the studio are not (`SettingsUnread`),
otherwise both are (`GraphStarted`).

Apps appear as a number of `children` and the flag `clients` (whether JACK
clients started by ladish are visible), rooms as the sets `rooms`, `started`,
`busy`. `requests`, `jackEvents` and `origin` are bounds and a ghost: no guard
of the code depends on them.

### AppSupervisor

`listed`, `pid`, `zombie`, `autorun` and `nextId` are the app list of
`struct ladish_app_supervisor` and the fields of its apps; `watched` and `dead`
are `g_childs_list` of `loader.c`; `alive`, `exited`, `told` are the processes
as the kernel has them. The kernel and the handler of SIGCHLD
(`ProcessExits`, `SigchldHandler`) may take a step anywhere, also at
`pc = "forked"`, which is the place between `fork` and the assignment of the
pid in `loader_execute`: there `forked` holds the app and the pid that the
loader does not know yet. The other values of `pc` are the parts of the main
loop, `autorun` for the loop of `ladish_app_supervisor_autorun`, whose `caller`
is the start command or the handling of an external start, and `aborted`.

Each request of a client is an action that queues the commands the code queues
for it (removing an app is "stop app" and "remove app"; loading a studio is
"stop", "unload" and "load"), and each way through a `run` callback is an
action. `tracked` are the apps whose JACK client the virtualizer counts and
`stale` those whose client it left visible when it was destroyed, because
`ladish_virtualizer_is_hidden_app` cannot tell the two apart while the count
that the stop command waits for only sees the first.

The interplay of studio and jackdbus is the subject of `StudioLifecycle`: here
the server starts and stops in one step, by command or behind the daemon's
back, and whether a studio is unloaded with an unexpected stop is left open
(both are allowed). One supervisor stands for that of the studio and those of
the rooms. Stopping and killing an app differ in the signal only and are one
command. Every reason for which adding or executing an app can fail is the one
action that says so. The uninitialised `pid` of the loader's entry between
`fork` and its assignment is taken to be the pid of no process.

### Graph and GraphMirror

`Graph` has one operator per function of `graph.c` that changes a graph; each
appends to `sent` the signals the function emits, in its order, with the version
the code gives them. Adding or removing a client moves its ports and
connections along, hidden objects send nothing, and removal of a port by
`ladish_graph_remove_port_internal` has no version of its own, as in the code.
`GraphMirror` lets the callers of `graph.c` (virtualizer, rooms, loader, the
D-Bus methods of the graph manager) perform them on a graph whose signals go
through `bus` to the proxy. `Activate` hooks the signals and asks, `GetGraph`
answers in the daemon, `Refresh` and `RefreshFails` receive the answer, and
`Hear` takes a signal, which passes only if it is newer than `known`. The
dictionaries, drawing and the menus are left out. `StaleIds` is FALSE in the
run: TRUE also lets the user join a client with one that has been hidden since
the menu was opened, which does put visible ports into a hidden client. The theorems
make the same assumption, since with it the three invariants are false.

### Virtualizer

`jack` is the patchbay: clients, ports and connections with the ids JACK gives
them; they enter and leave, tidily (ports first) or at once, and what happened
is told in `bus`. `v` is the daemon's state: the two graphs with the jack id,
app, visibility and link of each object, and `our_clients_count`. The handlers
of `virtualizer.c` are operators from `v` to `v` that branch as the code does. A port is
known by its name, `<client>:<port>` in JACK, so a client that comes back under another
JACK name (`SecondName`) gets new ports, and the old ones stay hidden with their
connections;
`asked` are the connections a handler asks of JACK, and `failed` says that an
`ASSERT` was met. `Activate` replays the whole patchbay as the graph proxy does.
Three events break the correspondence of the graphs and are switched by
`Disturbances`, empty in the run: the server goes without telling what goes
with it, the user joins a client that a JACK client is linked to, and an app
is removed whose virtual client is shared. With any of them `GraphsShowJack`
or `AssertionsHold` fails, as it does in the code.
The bridge of ALSA ports (and its branch of `ladish_virtualizer_is_hidden_app`) and the
link ports of rooms are left out here; the latter are in `Rooms`. `FoundHidden` are the
assertions of `ladish_virtualizer_is_hidden_app` on what it finds.

### StudioFiles and SessionSave

In `StudioFiles` `disk` gives each file an origin (which studio it came from)
and a revision; the daemon starts with any files on the disk (the run
tries two disks); `Stages` are the steps of a save between which the daemon can
die. Commands wait in `queue` with the names they were asked with, and run
after whatever came before them. `strayed` remembers that a save failed after
it changed the file name, or could not move the backup back: from then on the
studio believes in a file that is not its own.

`SessionSave` has one project whose started apps are asked for their sessions
through JACK. `Answer` is the call-back of the last answer: rotation of the
directories, assignment of the command lines, writing of the project file.
`SaveOutcomes` are its ends, `CrashPoints` the places where the daemon can
die in it. Apps exit, are started again, and JACK stops and clears the queue
while a save is under way; `temp` is `js_temp_dir`, `line` and `js` of an app are its
command line and the `js_commandline` that waits to be adopted, and `age` is a ghost that
counts the rotations of each session; `AnswerIsUnusable` is the reply that
`jack_proxy.c:664-706` drops, after which nobody is told. Nothing says that an answer
comes: the calls are sent with an infinite timeout.

### Rooms

A room has an index, a state of its project, links to the studio through
jmcore's port pairs, one app with its process and JACK client, and whether the
user connected that app to the room (`wired`). Requests queue commands; each way
through a `run` callback is a disjunct of the action of that command
(`RunUnload` follows the states of `ladish_room_unload_project`). The signals
about the JACK ports of links travel through `signals`, in batches: one for the
ports that come or go in one step, of which the daemon hears one after the
other, so that a room can be gone when they arrive. `lost` and `leaky` are exceptions the code makes by
itself: an app whose record was freed while it ran, and a room whose start
failed between two links. The strings of the project are followed because a
failed save-as frees the ones still in use.

### Documents

One half of each client is in the JACK graph, the other in the graph of the
studio or the room. `JackWritten`, `VirtWritten` and their kin are what `save.c`
writes of which element; `StudioReadable` and `ProjectReadable` are what
`cmd_load_studio.c` and `room_load.c` insist on when they meet an element that refers to
another; `LoadStudio` and `LoadProject` change graphs, apps and rooms as the
readers do, with apps that start in the process. A string is the number of
times its `<` is coded: escaping adds one, reading takes one away, and some
strings are written raw. `Long` is a string of `MAX_DATA_SIZE` or more, which the
readers refuse where it is the text of an element (a parameter, a dict's value, a command,
a description); names are attributes and have no limit. `Uncoded` says that no
name has a "%3C" of its own.

### Configuration and FrontEnd

`Configuration` has one key: service, file, the pairs of two clients, and a queue
of signals per client, which answers of calls overtake. `Ends` are the ways in
which storing a value ends. `FrontEnd` keeps `daemon` (what there is to
see: studio, rooms, projects, apps with versions) and `gladish` (state, views,
what it is doing, timers). A start, or the creation of a view, is a list of
calls and hooks that gladish works through one by one (`todo`), and between any
two of them the daemon may do something; signals queue in `inbox` when a hook
for their object and interface is there. gladish can be quit and started again; quitting, it removes the hook of the control object,
and ends by an assertion when there is none (`GladishQuits`). Handlers of signals are operators from
the state to a pair of the new state and what is to be done next. Changes of the
daemon are made by the steps of its commands. `MCDesktop` explores the two, which
share nothing, in one run without their product.

## 3. Runs

| run | bounds | shows |
|---|---|---|
| `command_queue` | requests of 1, 2, 3 and 4 commands (the lengths `control.c` and `studio.c` queue) | `QueueConsistent`, `PartsInSequence`, `RefusedAlone`, and that it implements `SerialRequests` |
| `studio_lifecycle` | 3 requests, 2 events of jackdbus, 1 room, 1 child, all faults | `ProxyFollowsServer`, `NobodyElseConsumes`, `StudioReplaced`, `ServerStoppedLast`, `ExitUnloads` |
| `studio_liveness` | 2 requests, 2 events, the faults of commands, fairness | `QueueDrains`: every command ends; `JackIsFollowed`: in the end there is a graph proxy exactly when the server runs |
| `apps` | 2 apps, 2 processes, 3 requests, 2 events of JACK, fairness | `TypeOK`, `ChildrenHaveApps`, `ZombiesAreDying`, `RemoveFindsStopped`, `ServerOutlivesApps`, `CommandsEnd`, `ZombiesLeave` |
| `graph_mirror` | 3 operations on a graph of up to 3 clients and 4 ports, empty or populated; one view | `VisibleInside`, `CanvasInSync`, `CanvasFollows` |
| `virtualizer` | an app, the same program started by hand, a second JACK name, the hardware with 2 ports; 5 events; a fresh studio with the server up, and a loaded one whose server is started first | `AssertionsHold`, `GraphsShowJack`, `CountExact`, `ConnectionsRestored` |
| `studio_files` | 2 names, 3 waiting commands, 6 requests, edits and crashes; an empty disk and one with two studios | `SavedIsKept`, `StrangersUntouched` |
| `session_saves` | 2 apps, 2 backups, 3 saves, 4 events | `Waits`, `SessionSurvives`, `SuccessIsWhole` |
| `rooms` | 3 rooms ever, 2 names, 2 link ports, 2 waiting commands, 5 requests | `RoomsDiffer`, `LinksBelong`, `SignalsFindRooms`, `WaitsEnd` |
| `documents` | an app and an external client in the studio, an app in the room; texts that are coded or too long, 4 free steps | `SavedLoads`, `LoadsBack` |
| `desktop` | 2 clients, 2 values, 5 steps of the settings; 1 room, 2 names, 4 steps of the daemon | `ConfAgrees`, `MirrorFaithful`, `HooksMatchViews` |
| `unload_after_crash` | 2 requests of a user, 1 event, no faults | a counterexample, see section 6 |

*Bounds.* A request already queues up to four commands, so three requests put
up to twelve commands in the queue; the longest interaction found needs three
requests (create room, delete room that waits, load). Two events are the
smallest number for "crashes and comes back", which is what tells a stale signal
from a fresh one. Rooms do not interact in `StudioLifecycle` and one child
tells "some" from "none", which is all the stop command looks at. In the run of the
apps two apps and two processes are the least with which one can be taken for
the other and an app can run twice; three requests let a client create an app, start
it and do one thing more while it goes away; what more of each would add is
covered by the theorems, which hold for any number.
For the canvas an operation is itself a sequence of up to a dozen signals
(removing a client with connected ports); three of them put one before the
hook, one between hook and answer, and one behind. Five events let a client of
the virtualizer enter, show a port, be connected, leave and come back; the loaded
studio is there already connected. Six operations on studio files are
two saves under different names around a failure or a crash. Two backups are the
least that have a first and a last to shift; three saves make the oldest fall
off; four events stop an app, start it and let it stop again around a rotation that fails. Three rooms are needed for one to be deleted between two others. In
`documents` the four free steps are those of users, clients and processes:
saving, loading and starting do not count. Four steps of the daemon make a
studio with an app and a room and end it while gladish is between two questions.

*Deadlock* is checked where the daemon never stops: a daemon that ended stutters through
`Ended` in `StudioLifecycle`, and apps and loader always have a next iteration.
The other runs end when their requests and events are used up, so it is off there.

## 4. Fairness

`FairSpec` has weak fairness of the three parts of the main loop, which is a
plain `while`. The rest says something of the world and is stated strongly,
since the actions are possible only in one part of the loop: a child told to
terminate (SIGTERM) exits and its JACK clients disappear; a room that a command
waits for becomes empty; and the two five-second deadlines expire. Nothing is
assumed of jackdbus: it may never do anything by itself. An app that ignores
SIGTERM makes stop wait forever, in the code as well.
`JackIsFollowed` leaves out daemons that find JACK running when they come up: in
their first iteration a disappearance of jackdbus is dropped together with the
start (`studio.c:429`).

`FairSpec` of `AppSupervisor` is of the same kind: the main loop goes on, SIGCHLD
is delivered, a process that got a signal exits, and the JACK client
of an app that has exited or was told to disappears (strongly, since the loop
looks at one message at a time). A process nobody told may run forever.
`CommandsEnd` and `ZombiesLeave` except two behaviours of the code by name: a
child that died before the loader knew its pid (`Lost`) is never buried, and a
client left behind by a destroyed virtualizer (`stale`) keeps a stop command
waiting. Both are listed as hazards.

`SessionSave` has no fairness and no liveness property: a save does not always end. The
calls that ask JACK for sessions have no timeout (`src/cdbus/helpers.c:623`), and an answer that
jack_proxy cannot use is dropped (section 6). `Rooms` assumes that the main loops of the daemon and of jmcore run, that an
app that was told to exit does and its client goes, and that signals arrive
and JACK disconnects what it is asked to. `WaitsEnd` excepts an unload during
which the user connects the room again (`room.c` counts connections once
and waits for zero), and a deletion of a room whose start failed between two
links. No other run has a liveness property: canvas and front end are
compared with the daemon when their queues are empty, which needs no fairness.

## 5. Proofs

Every theorem is about `Spec` of its module (`SpecConf` for the settings, `SpecGui` for `FrontEnd`) and holds
for every value of the constants that satisfies the module's assumption, and so
without the bounds of the runs. Each rests on an inductive invariant
that TLC checked before it was proved.

**`QueueProofs`** on the queue of commands, for requests of any number and lengths:
`QueueIsConsistent`, `RunsInSequence` and `RefusalIsAlone` are the three invariants of
the run, `Refinement` that the queue implements `SerialRequests`.

`PartsInSequence` is not inductive: that the predecessor of a command is done
when it runs follows from where it *was*. The invariant adds `Neighbours`: a
queued command that is not the first of its request stands right behind its
predecessor, or is the head and its predecessor is done. `Submit` appends
requests whole, `SubmitFails` the first commands of one, everything else removes at the head or empties the queue, and
so keeps neighbours together. It also adds that a queue that is running has a
head. The refinement needs three facts more (`RInv`): the commands of a
request stand side by side (`Contiguous`), none has run before the first
(`Begun`), and a request is queued whole or not at all (`AllOrNone`). With them
`PhaseOf` says which state of its commands is which phase of a request, one lemma
for each way the queue changes says what becomes of `InFront`, and each step maps to a step
or a stutter: the end of a head to `Complete` when it was the last of
its request and to nothing otherwise, a failure and the clearing of the queue to
`Abort`.

**`StudioLifecycleProofs`**, for any rooms, faults and bounds: `TypeCorrect`;
`ProxyFollows` (`ProxyFollowsServer`); `NobodyElseConsumesTheorem`;
`ServerStoppedLastTheorem`; `ExitUnloadsTheorem`; `StudioReplacedTheorem`.
`NobodyElseConsumes` covers the assertions at `cmd_stop_studio.c:169` and `178` and
`cmd_start_studio.c:103`, not the one at `cmd_start_studio.c:117`, which is reached (section 6).

`ProxyFollowsServer` speaks of the main loop only; the invariant adds `Unlearned`: between
the signal that the server stopped and the end of the iteration, a proxy on a
stopped server goes with an unconsumed change. Every path that consumes the
change (stop done, the three "stopped" branches of `ladish_studio_run`) takes
the proxy down, and every path that clears `started` by stealth does so too.
The others rest on a second invariant, `WInv`: the signals on their way lead,
one after the other, from what the daemon knows to what jackdbus is (`Leads`); what the
daemon believes, against what is still to be heard (`Heard`); how far a waiting stop or
start has come (`Staged`: past the rooms no room is started, past the clients the proxy
is there); and "exit", "new" and "load" (`Fresh`) have "unload" in front of them or are being run where
nothing is loaded. That nobody consumes the change a command waits for then follows from
the order in which the main loop clears the queue and reads the change.

**`AppSupervisorProofs`**, for any number of apps, processes, requests and
events: `TypeCorrect`; `AppsAreChildren` (`ChildrenHaveApps`); `ZombiesDie`
(`ZombiesAreDying`); `RemovedAppIsStopped` (`RemoveFindsStopped`); `ServerIsLast`
(`ServerOutlivesApps`).

`ChildrenHaveApps` compares sets; the invariant says the same of each app and
each child (`Matched`) and adds what keeps it: pids are not given twice and a
process is alive, exited or buried but never two of these (`Lives`), an app
outside the list has no pid, the app that is being forked is stopped, and a
fork is under way only for the command at the head of the queue (`Forking`,
`Callers`). For `RemoveFindsStopped` a second invariant, `Removal`, rests on it:
every "remove app" of the queue stands behind the "stop app" of the same app, or
is at the head while the queue is running and the app, if there is one, is stopped and
hidden. Only a stop that is done brings a removal to the head, and in the same
run of the queue nothing but SIGCHLD can come between the two. `ServerIsLast` follows
from the first invariant: when the stop command finds no children
there are no processes but a forked one, and it does not run during a fork.

**`RoomsProofs`**, for any names, ports, failures and bounds: `Identities` (the
rooms keep their types, and `RoomsDiffer`), `LinksBelongTheorem` and
`SignalsFindRoomsTheorem`. An index is
given as the one after the last and taken back only when it is the last, so the
first invariant adds that no index in use is above `count`; that is what a new room
needs, and what is left when the room with the greatest index goes. The links (`LInv`)
depend on how far a command that stops rooms has come: only the head of the queue
waits (`OnlyHeadWaits`), and by the phase it waits in all rooms, or the room
it deletes, have no links any more (`Phases`), so that none is made or
forgotten behind its back; a pair marked as dead belongs to a room whose start
failed, and a started room exists while JACK runs (`Linked`). For the signals
(`SInv`) one looks at a single end of a link: what is on its way about it
alternates between appearing and disappearing, begins at what the daemon shows and
ends at what jmcore has (`Follows`). The ends of a room that is gone are not shown, and
those of a room that is not started have nothing on its way, unless a stop of the studio
is running (`Heard`, `Rests`): it takes `started` from rooms whose last signals have been
heard only if they are *found* stopped, and JACK goes down when no signal is left.
Steps that make or unmake links are of one kind (`Tells`), the hearing of a signal is the
other (`Moved`), and both keep `Follows`; the destruction of a room is the third, and finds nothing shown.

**`PersistenceProofs`** on studio files, for any names, any files found on the disk and any
number of studios: `FilesInvariance`, `SavedIsKeptTheorem`, `StrangersUntouchedTheorem`. That
what was saved is in *some* file is not inductive, since the next save could overwrite
just that one. The invariant says which: while a studio is loaded it is the file the
studio names (`Place`), and that file never holds another studio (`OwnFile`). A
save sets aside either this file or that of its new name; the proof follows
both to every point where the save fails or the daemon dies. `strayed` excepts
the two ways out that the code leaves open (section 6).

The same module on session saves, for any number of apps, backups and saves: `SavesInvariance`,
`WaitsTheorem`, `SessionSurvivesTheorem`, `SuccessIsWholeTheorem`. An app that is waited for has an answer on
its way or an unusable one, not both, and is counted once (`AllCounted`, `Busy`). A session
that has been put in place is `Found` no further than its `age`; a rotation, finished or
not, moves every directory by one place at most (`Moves`) and makes every session one
older. What the apps and the file refer to has a number not above that of the session being
made (`Numbered`), and what is being made is referred to by none but those it has the
state of (`Making`). For `SuccessIsWhole` one must know in addition that the command lines an app
may adopt are of this save, or that the save cannot succeed any more (`OwnLines`, `WholeInv`). These are predicates on values, so that one lemma each serves the
end of a save, its failures, and the crashes in the middle.

And on the settings, for any clients and values and any number of deaths of the
service: `ConfInvariance`, `ConfAgreesTheorem`. `ConfAgrees` is about a client that has heard
everything. `Follows` says of a client what is true before: of the signals it has yet to
hear the last change has the right value, and a client that will take none of them has that
value already. For the second half one must know that versions rise within the
life of a service (`Rising`), are not above the present one (`UpTo`), and that a client
that hears of no death in between is not ahead of the service.

**`DocumentsProofs`**, for any clients, connections, texts and number of operations, under the
hypothesis `Uncoded` (no name of an app or client has a "%3C" of its own), without which they are false (section 6):
`Invariance`, `SavedLoadsTheorem`, `LoadsBackTheorem`. A file is written from memory and
read into it, so the invariant speaks of both. In memory (`Halves`) what is in the
user's graph is in JACK's too, bears the name of its app there, and knows the app in
both graphs; in a file every element has what it refers to (`Complete`), and the file
says what there was to keep when it was written (`Says`). Reading uses `Complete` to
re-establish `Halves`; writing uses `Halves` to establish `Complete`. A project that could
not be read to its end leaves clients in JACK's graph only, and the next one takes them over:
`Leftovers` says that they have the names it expects.

**`GraphMirrorProofs`**, for any initial graphs, numbers of operations, views and
hangs: `Invariance`, and from it `VisibleInsideHolds`, `CanvasInSyncHolds` and
`CanvasFollowsHolds`. What is in the bus is a list of signals of any length, what an
operation of the graph does with the ports of a client a walk over a list. The
invariant (`GMInv`) says of the graph (`Good`) that its lists have no object twice, ports
belong to clients and connections to ports that are there, and what is visible is in something visible;
and of gladish (`Tracked`) what it will have drawn when it has heard everything: the
canvas brought up to date by the waiting signals that are newer than what is known (`Walk`) is
the visible graph, as a set of things drawn. For this the versions in the bus must be in order
(`Ordered`) with one exception, the port that is taken away by
`ladish_graph_remove_port_internal` without a version of its own, and every intermediate
canvas must be one whose ports stand in drawn clients and whose cables in drawn
ports. While gladish asks, the same is said of the answer on its
way in place of the canvas (`Answered`). Each operation of `graph.c` is a sequence of small
changes, one for each signal; `Good` and `Tracked` are kept by each small change, and
folds of small changes by induction over the list they walk along.

**`QueueProofs`** on gladish, for any rooms and names and any number of changes: `FrontEndHooksMatchViews`.
It says which hooks there are when gladish has nothing left to do; before, the
steps it has yet to take matter. The invariant (`GuiInv`) says of them (`Program`) that
they open each view once, followed by the questions and hooks that belong to it, and
of hooks, views and steps together (`Regular`) that a hook of a view is registered
exactly when the view is open and the hook is not among the steps to come, and that no view
to come is open. To
open the view of a room when it appears is right only if it is not open yet, which depends on
what is still in the queue: a room is followed through its signals (`RoomsApart`), from what gladish
shows, through each appearance and disappearance on its way, to what the daemon has.
`Orderly` says that of any list of signals and any such place; `LifePlace` is the daemon's own, which keeps
the timer single (`Life`). Each command of the daemon is shown to send signals
that are orderly for every place at once (`Changes`), the walks over rooms and
apps by `FoldFacts`, so that a step of the daemon needs no further cases. `Doomed` is the exception:
a second opening of an open view, possible only after `missed` or `twice`, which the next
step turns into the end of gladish.

**`FoldFacts`** is the induction over lists that `GraphMirrorProofs` and `QueueProofs` use. The induction theorems of the library have an
operator as a parameter, which the provers at hand cannot instantiate; here step and
invariant are CONSTANT operators of a module, and a proof takes them by
`INSTANCE ... WITH`. `FoldHasSteps` and `RecursionHasSteps` say that a fold, and a recursive function
on numbers, can be computed step by step; `FoldKeeps` and `RecursionKeeps` that what
every step keeps holds at the end. All rest on the hypothesis that a set of naturals
that is not empty has a least member (`LeastNumbers`), which is stated in the module and proved where
it is instantiated, from `WFMin` and `NatLessThanWellFounded`.

*Assumptions.* The proofs assume only the named `ASSUME` of each module
(`PartsAssumption`, `StudioAssumption`, `AppAssumption`, `RoomsAssumption`,
`StudioFilesAssumption`, `SessionSaveAssumption`, `ConfigurationAssumption`,
`DocumentsAssumption`, `FrontEndAssumption`), which say what kind of values the constants are and which differ;
TLC evaluates each in the run of its module. The theorems about `GraphMirror` have the
hypothesis `StaleIds = FALSE` (section 2), those about `Documents` the hypothesis `Uncoded`.

*Only model-checked.*

* Liveness: `QueueDrains`, `JackIsFollowed`, `CommandsEnd`, `ZombiesLeave`,
  `WaitsEnd`. The prover has no rules for fairness.
* `AssertionsHold`, `GraphsShowJack`, `CountExact` and `ConnectionsRestored` of
  `Virtualizer`; `MirrorFaithful` of `FrontEnd`. Their handlers walk lists as those of
  `GraphMirror` do, and with `FoldFacts` nothing is in principle in the way; their
  inductive invariants have not been worked out.

## 6. Where the code does not do what it says

* `UnloadFindsRoomsStopped`: after an unexpected stop of JACK the rooms keep
  their `started` flag. The message at `studio.c:483` tells the user to unload
  the studio; unload destroys the rooms and `room.c:391` asserts. In the trace the user loads and
  starts a studio, JACK crashes, and the request for a new studio unloads it.

Other behaviour that the models show, where no line of the repository promises
the opposite or the line is an assertion; the properties that would say so are
in the modules or their exceptions, and not part of a run:

* When the "start" of a load or of a new studio cannot be queued, the error path frees the "load"
  command twice (`cmd_load_studio.c:1091-1101`), and the "stop" in front stays queued.
* `ladish_cqueue_cancel`, which nothing calls, marks `cmd_ptr->cancel` after a loop that freed
  `cmd_ptr` whenever more than one command was queued, and never the head that waits
  (`cqueue.c:117-131`).
* An exit that cannot be queued quits with the studio loaded (`control.c:883-888`), and so does SIGTERM.
* A stop whose call failed ends by polling and clears the state by stealth,
  leaving the change for the start behind it (`cmd_start_studio.c:117`).
* `AutomaticIsFromJack`: nothing resets `automatic` when a studio is cleared;
  the studio the user creates next is unloaded when JACK stops.
* `UnpublishedHasNoName`: a load that fails early leaves the name behind; the
  next external start of JACK runs into `studio.c:440`.
* `AutorunFindsStopped`: an app created while JACK runs keeps its autorun flag;
  when JACK stops and comes back without ladish, the app that went on is started
  again (`app_supervisor.c:984`).
* `RunSetsState`: stopping an app whose process is gone while its client is
  still visible returns from `cmd_change_app_state.c:102` with the command
  pending (`cqueue.c:73`; `HeadStrays` of `CommandQueue`).
* The stop command reads the virtualizer when there is none
  (`virtualizer.c:1280`); a room is created while no studio is loaded; the
  disappearance of jackdbus is ignored in the first iteration.
* `NothingLost`: loading a project over one whose app still runs, or deleting a room, can free
  the record of a running app (`room.c:383`, `cmd_change_app_state.c:49`).
* `UnloadFindsHandlers`: unloading a project with apps or connections from a
  room that is not started meets `graph.c:2377`.
* `AppearFindsPort`: a port that is in the JACK graph but, because its element
  was left out of a file, not in the graph the user sees meets an assertion of
  the virtualizer when it comes back.
* `NoLeftover`, `CommandIsThere`: an app that exits and is started again before
  the save it took part in is over (`app_supervisor.c:1204`); a save that
  completes after the queue was cleared (`cmd_save_project.c:47`).
* A session save never ends when JACK never answers (`src/cdbus/helpers.c:623`) or answers
  with what cannot be used (`jack_proxy.c:664-706`); everything queued behind it waits too.
* A name of an app with a "%3C" of its own is written as it is as the name of its client and read as "<": after a load
  the JACK half of the client does not know its app, is left out of the next save, and that
  file refers to a port that it does not have and cannot be loaded. A dict, a parameter, a command or
  a description of `MAX_DATA_SIZE` (10240) bytes is written but makes the file unreadable
  (`cmd_load_studio.c:53`, `room_load.c:58`); so does a "<" in a dict, a parameter or
  the name of a room.
* A client that comes back under another name in JACK gets new ports beside the hidden old ones,
  whose connections are not restored (`virtualizer.c:697-706`).
* An app keeps its `js_commandline` from a save in which the rotation of the directories
  failed, or in which it exited before the end. When it is started again while a
  save is still under way whose command the queue has dropped, that save adopts the
  line although its session was never put in place; `SessionSurvives` therefore
  speaks of sessions that were, and failed rotations count in their `age`.
* A save under a new name that fails leaves the new file name in force
  (`strayed`), so that the next save writes there; and a failed save-as of a project
  frees the strings that are still in use (`room_save.c`).
* Unloading a project waits forever when the user connects the room while it is
  taken apart.
* gladish: a room that appears between its hooks and its question for the rooms
  is opened twice, which the assertion at `src/cdbus/helpers.c:972-976` ends; what is signalled between a
  question and the hook for its answer is missed (`missed`); gladish started
  without a daemon never hooks the control object, and when it quits fails the assertion of
  removing that hook (`src/cdbus/helpers.c:1071-1076`); the name of a project is
  read while a save-as under it can still fail (`doubt`).
* A value whose storing failed is stored when it is set again, but no client
  sets it again (`conf_proxy.c:282`).

## 7. Plan

Done: all modules of section 2; theorems for every invariant and action property of
the queue, the studio, the apps, the rooms, the graph and its canvas, studio files, sessions,
settings and documents, and for the hooks of gladish; the refinement of `SerialRequests`; induction over lists.

Next, in this order:

1. `Virtualizer` with `FoldFacts`: an invariant that joins each object of the graphs to the
   port or client of JACK it stands for and to the signals about it on their way, as
   `Tracked` does for the canvas; `CountExact` first, which needs only the clients and their apps.
2. `MirrorFaithful` of `FrontEnd`: the apps of a view, brought up to date by the signals in the queue that
   are newer, are those of the daemon; `GuiInv` has what is needed of hooks and views.
3. The link ports of rooms in `Virtualizer`, a second JACK client per app.

## 8. Not modelled

* *Application database, LASH server, process services, string and log
  helpers, other proxies*: they parse, format or forward, and keep no state that another step
  reads. What they return is an input of the models.
* *ALSA bridge* (`a2j_proxy.c`, the a2j branches of `virtualizer.c`): it renames ports
  of one more process; its protocol is that of any JACK client.
* *Canvas dictionaries, menus, dialogs, drawing*: no protocol. The dictionaries
  as far as they are saved are in `Documents`.
* *D-Bus marshalling* and the parser of XML: a call or an element is one value.
* *liblash, pylash, libalsapid*: client-side stubs; pylash is generated.
* *ladish_control, wscript, jack_conf tools*: scripts that call what is modelled.
* *Failure of memory allocation*, but for the queue, where it is a request
  that is dropped in the middle, and where one failure stands for all.
