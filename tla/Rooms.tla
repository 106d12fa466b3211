------------------------------- MODULE Rooms -------------------------------
(***************************************************************************)
(* The rooms of a studio, their projects and their links (room.c,          *)
(* room_load.c, room_save.c and the commands cmd_create_room.c,            *)
(* cmd_delete_room.c, cmd_load_project.c, cmd_unload_project.c,            *)
(* cmd_save_project.c, cmd_start_studio.c, cmd_stop_studio.c of            *)
(* src/daemon; src/jmcore.c and the port handlers of virtualizer.c).       *)
(*                                                                         *)
(* A room is a client of the studio's graph.  Each of its ports exists     *)
(* twice, in the room's graph and, with the direction turned, in the       *)
(* studio's, its owner.  While the room is started jmcore, a process of    *)
(* its own, has a pair of JACK ports for it and copies one to the other;   *)
(* that the two JACK ports came or went is told to the daemon by signals.  *)
(* A room that is stopped or deleted is waited for until nothing of it is  *)
(* to be seen.  Commands wait in the queue; one that fails clears it.      *)
(*                                                                         *)
(* A room holds a project: at most one app here, with its process and its  *)
(* JACK port, which the user may connect to the room's ports.              *)
(***************************************************************************)
EXTENDS Naturals, Sequences, FiniteSets

CONSTANTS
  Names,
  Ports,      \* the ports of the template every room is made from
  MaxRooms,   \* bound on rooms ever made
  MaxQueue,   \* bound on waiting commands
  MaxOps,     \* bound on requests and connections of the user
  Failures    \* subset of {"link", "load", "save"}: what may fail

ASSUME RoomsAssumption ==
  /\ IsFiniteSet(Ports)
  /\ {MaxRooms, MaxQueue, MaxOps} \subseteq Nat \ {0}

VARIABLES
  rooms,    \* the rooms by the number they were made with
  made,     \* rooms ever made
  count,    \* room_count: the last index given
  jack,     \* whether the studio is started
  queue,    \* the command queue
  pairs,    \* the port pairs jmcore has
  signals,  \* batches of signals about JACK ports of links that are on their way
  shown,    \* the ports of links that are visible in the graph of their side
  known,    \* the JACK ports of links that are in the JACK graph
  lost,     \* rooms whose app still runs though its record is gone
  leaky,    \* rooms whose start failed between two links
  fault,    \* the line of a failed assertion, after which the daemon is dead
  ops       \* counter, for the bound

vars == <<rooms, made, count, jack, queue, pairs, signals, shown, known, lost, leaky, fault, ops>>

Ids == 1 .. MaxRooms
Sides == {"room", "owner"}
Ends(r) == { <<r, p, s>> : p \in Ports, s \in Sides }

NoApp == [there |-> FALSE, pid |-> FALSE, asked |-> FALSE, visible |-> FALSE, autorun |-> FALSE]
Gone == [there |-> FALSE, name |-> "", index |-> 0, started |-> FALSE, handlers |-> FALSE,
         state |-> "unloaded", strings |-> "none", app |-> NoApp, wired |-> "no"]

Init ==
  /\ rooms = [r \in Ids |-> Gone]
  /\ made = 0 /\ count = 0
  /\ jack = FALSE
  /\ queue = << >>
  /\ pairs = {}
  /\ signals = << >>
  /\ shown = {} /\ known = {}
  /\ lost = {} /\ leaky = {}
  /\ fault = "none"
  /\ ops = 0

Alive == fault = "none"
Existing == { r \in Ids : rooms[r].there }
Named(n) == { r \in Existing : rooms[r].name = n }

-----------------------------------------------------------------------------
(***************************************************************************)
(* jmcore.  Its port names are the identifiers of the two ports, so a      *)
(* PortAppeared finds its graph by its name.                               *)
(***************************************************************************)
Pair(r, p) == [room |-> r, port |-> p, dead |-> FALSE]
PairsOf(r) == { Pair(r, p) : p \in Ports }

\* What is done to pairs in one step is told of all their ends, of one after the
\* other; the daemon has not heard of those in ends.
Told(what, ps) ==
  IF ps = {} THEN signals
  ELSE Append(signals, [what |-> what, ends |-> { <<x.room, x.port, s>> : x \in ps, s \in Sides }])

LinksMade(ps) ==
  /\ pairs' = pairs \cup ps
  /\ signals' = Told("appeared", ps)

\* (Mutant: one port of the room is forgotten.)
LinksUnmadeBut(rs) ==
  LET gone == { x \in pairs : x.room \in rs /\ x.port # CHOOSE p \in Ports : TRUE }
  IN  /\ pairs' = pairs \ gone
      /\ signals' = Told("disappeared", gone)

\* The first pair of that name is destroyed, an old one that is dead before the new.
LinksUnmade(rs) ==
  LET named == { x \in pairs : x.room \in rs }
      first == { x \in named : x.dead \/ [x EXCEPT !.dead = TRUE] \notin pairs }
  IN  /\ pairs' = pairs \ first
      /\ signals' = Told("disappeared", { x \in first : ~x.dead })

-----------------------------------------------------------------------------
(***************************************************************************)
(* A room starts, begins to stop, and is stopped.                          *)
(***************************************************************************)
Runs(app) == [app EXCEPT !.pid = TRUE, !.asked = FALSE, !.autorun = FALSE]
Autorun(app) == IF app.there /\ app.autorun THEN Runs(app) ELSE app

\* (Mutant: an app that is not seen in the graph is not told to end.)
AskedVisible(app) == IF app.visible THEN [app EXCEPT !.asked = TRUE, !.autorun = TRUE] ELSE app
Asked(app) == IF app.pid THEN [app EXCEPT !.asked = TRUE, !.autorun = TRUE] ELSE app

StartedRoom(x) == [x EXCEPT !.started = TRUE, !.handlers = TRUE, !.app = Autorun(@)]
StoppingRoom(x) == IF x.started THEN [x EXCEPT !.handlers = FALSE, !.app = Asked(@)] ELSE x

LooksEmpty(r) ==
  /\ rooms[r].wired = "no" /\ ~rooms[r].app.visible
  /\ \A p \in Ports : <<r, p, "room">> \notin shown

OwnerSideEmpty(r) == \A p \in Ports : <<r, p, "owner">> \notin shown

\* (Mutant: the graphs are not looked at.)
StoppedAtOnce(r) == rooms[r].started => ~rooms[r].app.pid
Stopped(r) ==
  rooms[r].started => ~rooms[r].app.pid /\ LooksEmpty(r) /\ OwnerSideEmpty(r)

(***************************************************************************)
(* ladish_room_destroy.  While the studio is started, every port of the    *)
(* room is taken from the JACK graph, once, though it may be there for     *)
(* both sides.  What still runs is told to end, and forgotten.             *)
(***************************************************************************)
\* (Mutant: the index is given again as soon as any room is gone.)
ReleasedAlways(index) == count - 1
Released(index) == IF index = count THEN count - 1 ELSE count

OneOfEach(r) ==
  { es \in SUBSET (known \cap Ends(r)) :
      \A e \in known \cap Ends(r) : Cardinality({ f \in es : f[2] = e[2] }) = 1 }

Destroy(r) ==
  /\ rooms' = [rooms EXCEPT ![r] = Gone]
  /\ count' = Released(rooms[r].index)
  /\ lost' = IF rooms[r].app.pid THEN lost \cup {r} ELSE lost
  /\ shown' = shown \ Ends(r)
  /\ known' \in { known \ es : es \in IF jack THEN OneOfEach(r) ELSE {{}} }

-----------------------------------------------------------------------------
(***************************************************************************)
(* Requests.  A load brings an unload of its own.                          *)
(***************************************************************************)
Ask(kind, room, name) ==
  /\ Alive /\ ops < MaxOps /\ Len(queue) < MaxQueue
  /\ ops' = ops + 1
  /\ queue' = Append(queue, [kind |-> kind, room |-> room, name |-> name, phase |-> "pending"])
  /\ UNCHANGED <<rooms, made, count, jack, pairs, signals, shown, known, lost, leaky, fault>>

AskOfRoom == \E n \in Names, kind \in {"create", "delete"} : Ask(kind, 0, n)
AskOfProject == \E r \in Existing, kind \in {"load", "unload", "save", "save as", "app"} : Ask(kind, r, "")
AskOfStudio == \E kind \in {"start", "stop"} : Ask(kind, 0, "")

Head1 == Head(queue)
IsNext(kind) == Alive /\ queue # << >> /\ Head1.kind = kind
Pending == Head1.phase = "pending"
Done == queue' = Tail(queue)
Fails == queue' = << >>
Waits(phase) == queue' = << [Head1 EXCEPT !.phase = phase] >> \o Tail(queue)

Refused ==
  /\ Fails
  /\ UNCHANGED <<rooms, made, count, jack, pairs, signals, shown, known, lost, leaky, fault, ops>>

Asserts(line) ==
  /\ fault' = line
  /\ UNCHANGED <<rooms, made, count, jack, queue, pairs, signals, shown, known, lost, leaky, ops>>

-----------------------------------------------------------------------------
(***************************************************************************)
(* Making and deleting a room.                                             *)
(***************************************************************************)
NewRoom(n) == [Gone EXCEPT !.there = TRUE, !.name = n, !.index = count + 1]

RunCreate ==
  LET r == made + 1
      n == Head1.name
  IN  /\ IsNext("create")
      /\ made < MaxRooms
      /\ \/ Named(n) # {} /\ Refused
         \/ /\ Named(n) = {} /\ Done
            /\ made' = r /\ count' = count + 1
            /\ rooms' = [rooms EXCEPT ![r] = IF jack THEN StartedRoom(NewRoom(n)) ELSE NewRoom(n)]
            /\ LinksMade(IF jack THEN PairsOf(r) ELSE {})
            /\ UNCHANGED <<jack, shown, known, lost, leaky, fault, ops>>
         \/ /\ Named(n) = {} /\ jack /\ "link" \in Failures   \* a link is not made
            /\ Fails
            /\ made' = r
            /\ \E ps \in SUBSET PairsOf(r) :
                 /\ ps # PairsOf(r)
                 /\ LinksMade(ps)
                 /\ leaky' = IF ps # {} THEN leaky \cup {r} ELSE leaky
            /\ UNCHANGED <<rooms, count, jack, shown, known, lost, fault, ops>>

RunDelete ==
  /\ IsNext("delete")
  /\ \/ Named(Head1.name) = {} /\ Refused
     \/ \E r \in Named(Head1.name) :
          /\ Pending /\ Waits("waiting")
          /\ rooms' = [rooms EXCEPT ![r] = StoppingRoom(@)]
          /\ LinksUnmade(IF rooms[r].started THEN {r} ELSE {})
          /\ UNCHANGED <<made, count, jack, shown, known, lost, leaky, fault, ops>>
     \/ \E r \in Named(Head1.name) :
          /\ ~Pending /\ Stopped(r) /\ Done
          /\ Destroy(r)
          /\ fault' = IF rooms[r].strings = "freed" THEN "room.c:387" ELSE fault
          /\ UNCHANGED <<made, jack, pairs, signals, leaky, ops>>

-----------------------------------------------------------------------------
(***************************************************************************)
(* Starting and stopping the studio.  All rooms' graphs get handlers when  *)
(* JACK starts.  A room that cannot be started keeps the rooms after it    *)
(* from being started; the rooms are found stopped one after the other.    *)
(***************************************************************************)
ChildRuns == lost # {} \/ \E r \in Ids : rooms[r].app.pid

RunStart ==
  /\ IsNext("start")
  /\ \/ jack /\ Done
        /\ UNCHANGED <<rooms, made, count, jack, pairs, signals, shown, known, lost, leaky, fault, ops>>
     \/ ~jack /\ ChildRuns /\ Refused
     \/ /\ ~jack /\ ~ChildRuns /\ Done
        /\ jack' = TRUE
        /\ \/ /\ rooms' = [r \in Ids |-> IF rooms[r].there THEN StartedRoom(rooms[r]) ELSE Gone]
              /\ LinksMade(UNION { PairsOf(r) : r \in Existing })
              /\ UNCHANGED leaky
           \/ \E bad \in Existing :
                LET before == { r \in Existing : r < bad }
                IN  /\ "link" \in Failures
                    /\ rooms' = [r \in Ids |->
                                 IF r \in before THEN StartedRoom(rooms[r])
                                 ELSE [rooms[r] EXCEPT !.handlers = rooms[r].there]]
                    /\ \E ps \in SUBSET PairsOf(bad) :
                         /\ ps # PairsOf(bad)
                         /\ LinksMade(ps \cup UNION { PairsOf(r) : r \in before })
                         /\ leaky' = IF ps # {} THEN leaky \cup {bad} ELSE leaky
        /\ UNCHANGED <<made, count, shown, known, lost, fault, ops>>

\* The rooms in front of the first that is not yet stopped.
FoundStopped == { r \in Existing : \A q \in Existing : q <= r => Stopped(q) }

RunStop ==
  /\ IsNext("stop")
  /\ \/ /\ Pending /\ ~jack /\ Done
        /\ UNCHANGED <<rooms, made, count, jack, pairs, signals, shown, known, lost, leaky, fault, ops>>
     \/ /\ Pending /\ jack /\ Waits("rooms")
        /\ rooms' = [r \in Ids |-> [StoppingRoom(rooms[r]) EXCEPT !.app = Asked(@)]]
        /\ LinksUnmade({ r \in Ids : rooms[r].started })
        /\ UNCHANGED <<made, count, jack, shown, known, lost, leaky, fault, ops>>
     \/ /\ Head1.phase = "rooms"
        /\ Waits(IF FoundStopped = Existing THEN "clients" ELSE "rooms")
        /\ rooms' = [r \in Ids |-> IF r \in FoundStopped THEN [rooms[r] EXCEPT !.started = FALSE] ELSE rooms[r]]
        /\ UNCHANGED <<made, count, jack, pairs, signals, shown, known, lost, leaky, fault, ops>>
     \/ /\ Head1.phase = "clients" /\ ~ChildRuns
        /\ \A r \in Ids : ~rooms[r].app.visible
        /\ signals = << >>                         \* jackdbus tells of the stop after them
        /\ Done
        /\ jack' = FALSE
        /\ pairs' = { [x EXCEPT !.dead = TRUE] : x \in pairs }
        /\ known' = {}                             \* hidden, without its ids
        /\ UNCHANGED <<rooms, made, count, signals, shown, lost, leaky, fault, ops>>

-----------------------------------------------------------------------------
(***************************************************************************)
(* Projects.  An unload disconnects what is connected in the room, ends    *)
(* the apps when that is done, and forgets the project when the apps are   *)
(* gone from the JACK graph.  The state of the room says how far it is.    *)
(***************************************************************************)
ChangesRoom(r, x) ==
  /\ rooms' = [rooms EXCEPT ![r] = x]
  /\ UNCHANGED <<made, count, jack, pairs, signals, shown, known, lost, leaky, ops>>

Cleared(x) == [x EXCEPT !.state = "unloaded", !.strings = "none", !.app = NoApp, !.wired = "no"]

\* What a load leaves: a project with an app that was running when it was saved,
\* with one that was not, or an empty one; a load that fails leaves none.
LoadedWith(x, app) == [Cleared(x) EXCEPT !.state = "loaded", !.strings = "own", !.app = Autorun(app)]
Loads(x) ==
  { LoadedWith(x, app) : app \in { NoApp, [NoApp EXCEPT !.there = TRUE],
                                   [NoApp EXCEPT !.there = TRUE, !.autorun = TRUE] } }

UnloadEnds(r) ==
  /\ \/ Head1.kind = "unload" /\ Done /\ ChangesRoom(r, Cleared(rooms[r]))
     \/ Head1.kind = "load" /\ Done /\ \E x \in Loads(rooms[r]) : ChangesRoom(r, x)
     \/ Head1.kind = "load" /\ "load" \in Failures /\ Fails /\ ChangesRoom(r, Cleared(rooms[r]))
  /\ fault' = IF rooms[r].strings = "freed" THEN "room.c:899" ELSE fault

Continues(r, x) ==
  /\ Waits("waiting")
  /\ ChangesRoom(r, x)
  /\ UNCHANGED fault

Connected(x) == x.wired # "no"

UnloadAt(r) ==
  LET x == rooms[r]
  IN  \/ /\ x.state \in {"unloaded", "loaded"} /\ ~x.app.there /\ ~Connected(x)
         /\ UnloadEnds(r)
      \/ /\ x.state \in {"unloaded", "loaded"} /\ (x.app.there \/ Connected(x)) /\ x.handlers
         /\ Continues(r, [x EXCEPT !.state = "disconnecting",
                                   !.wired = IF x.wired = "yes" THEN "changing" ELSE @])
      \/ /\ x.state \in {"unloaded", "loaded"} /\ (x.app.there \/ Connected(x)) /\ ~x.handlers
         /\ Asserts("graph.c:2377")
      \/ /\ x.state = "disconnecting" /\ ~Connected(x) /\ ~x.app.there
         /\ UnloadEnds(r)
      \/ /\ x.state = "disconnecting" /\ ~Connected(x) /\ x.app.there
         /\ Continues(r, [x EXCEPT !.state = "ending apps", !.app = Asked(@)])
      \/ /\ x.state = "ending apps" /\ ~x.app.pid /\ ~x.app.visible
         /\ UnloadEnds(r)

RunUnload ==
  /\ \E kind \in {"unload", "load"} : IsNext(kind)
  /\ \/ ~rooms[Head1.room].there /\ Refused
     \/ rooms[Head1.room].there /\ UnloadAt(Head1.room)

(***************************************************************************)
(* Saving a project, under its name or another.  Of a save under another   *)
(* name that fails, the old name and directory are restored and then freed.*)
(***************************************************************************)
RunSave ==
  LET r == Head1.room
      x == rooms[r]
  IN  /\ \E kind \in {"save", "save as"} : IsNext(kind)
      /\ \/ ~x.there /\ Refused
         \/ /\ x.there /\ x.strings = "freed"
            /\ Asserts("room_save.c:454")
         \/ /\ x.there /\ x.strings # "freed" /\ Done
            /\ ChangesRoom(r, [x EXCEPT !.state = "loaded", !.strings = "own"])
            /\ UNCHANGED fault
         \/ /\ x.there /\ x.strings # "freed" /\ "save" \in Failures /\ Fails
            /\ ChangesRoom(r, IF x.strings = "own" /\ Head1.kind = "save as"
                              THEN [x EXCEPT !.strings = "freed"] ELSE x)
            /\ UNCHANGED fault

\* An app is added to the room; it is started if the studio is.
RunApp ==
  LET r == Head1.room
      new == [NoApp EXCEPT !.there = TRUE, !.autorun = TRUE]
  IN  /\ IsNext("app")
      /\ \/ ~rooms[r].there /\ Refused
         \/ /\ rooms[r].there /\ Done
            /\ ChangesRoom(r, IF rooms[r].app.there THEN rooms[r]
                              ELSE [rooms[r] EXCEPT !.app = IF jack THEN Runs(new) ELSE new])
            /\ UNCHANGED fault

-----------------------------------------------------------------------------
(***************************************************************************)
(* The world: apps, connections, signals about links, jmcore's main loop.  *)
(***************************************************************************)
Becomes(r, x) ==
  /\ Alive
  /\ rooms' = [rooms EXCEPT ![r] = x]
  /\ UNCHANGED <<made, count, jack, queue, pairs, signals, shown, known, lost, leaky, fault>>

AppAppears ==
  \E r \in Existing :
    /\ jack /\ rooms[r].app.pid /\ ~rooms[r].app.visible /\ ~rooms[r].app.asked
    /\ Becomes(r, [rooms[r] EXCEPT !.app.visible = TRUE])
    /\ UNCHANGED ops

AppExits ==
  \E r \in Existing :
    /\ rooms[r].app.pid
    /\ rooms[r].app.asked \/ ops < MaxOps
    /\ Becomes(r, [rooms[r] EXCEPT !.app.pid = FALSE, !.app.asked = FALSE])
    /\ ops' = IF rooms[r].app.asked THEN ops ELSE ops + 1

AppDisappears ==
  \E r \in Existing :
    /\ rooms[r].app.visible
    /\ rooms[r].app.asked \/ ~rooms[r].app.pid
    /\ Becomes(r, [rooms[r] EXCEPT !.app.visible = FALSE, !.wired = "no"])
    /\ UNCHANGED ops

LostExits ==
  \E r \in lost :
    /\ Alive
    /\ lost' = lost \ {r}
    /\ UNCHANGED <<rooms, made, count, jack, queue, pairs, signals, shown, known, leaky, fault, ops>>

UserConnects ==
  \E r \in Existing :
    /\ rooms[r].app.visible /\ rooms[r].wired = "no" /\ rooms[r].handlers
    /\ \E p \in Ports : <<r, p, "room">> \in shown
    /\ ops < MaxOps /\ ops' = ops + 1
    /\ Becomes(r, [rooms[r] EXCEPT !.wired = "yes"])

PortsDisconnected ==
  \E r \in Existing :
    /\ rooms[r].wired = "changing"
    /\ Becomes(r, [rooms[r] EXCEPT !.wired = "no"])
    /\ UNCHANGED ops

NextEnd == CHOOSE e \in Head(signals).ends : TRUE

LinkSignal(what) ==
  /\ Alive /\ signals # << >> /\ Head(signals).what = what
  /\ signals' = IF Head(signals).ends = {NextEnd} THEN Tail(signals)
                ELSE [signals EXCEPT ![1].ends = @ \ {NextEnd}]
  /\ UNCHANGED <<rooms, made, count, jack, queue, pairs, lost, leaky, ops>>

LinkAppeared ==
  LET e == NextEnd
  IN  /\ LinkSignal("appeared")
      /\ IF ~rooms[e[1]].there
         THEN UNCHANGED <<shown, known, fault>>
         ELSE /\ shown' = shown \cup {e} /\ known' = known \cup {e}
              /\ fault' = IF e \in shown THEN "graph.c:1148" ELSE fault

LinkDisappeared ==
  LET e == NextEnd
  IN  /\ LinkSignal("disappeared")
      /\ shown' = shown \ {e} /\ known' = known \ {e}
      /\ fault' = IF e \in known /\ ~rooms[e[1]].there THEN "virtualizer.c:999" ELSE fault

BuryZombiePairs ==
  /\ \E x \in pairs : x.dead
  /\ pairs' = { x \in pairs : ~x.dead }
  /\ UNCHANGED <<rooms, made, count, jack, queue, signals, shown, known, lost, leaky, fault, ops>>

-----------------------------------------------------------------------------
Request == AskOfRoom \/ AskOfProject \/ AskOfStudio
Run == RunCreate \/ RunDelete \/ RunStart \/ RunStop \/ RunUnload \/ RunSave \/ RunApp
World ==
  \/ AppAppears \/ AppExits \/ AppDisappears \/ LostExits \/ UserConnects \/ PortsDisconnected
  \/ LinkAppeared \/ LinkDisappeared \/ BuryZombiePairs

Next == Request \/ Run \/ World

(***************************************************************************)
(* The main loops run; apps that are asked to end do, and their JACK       *)
(* clients go; JACK answers a request to disconnect.                       *)
(***************************************************************************)
Fairness ==
  /\ WF_vars(Run) /\ WF_vars(LostExits)
  /\ WF_vars(AppDisappears) /\ WF_vars(PortsDisconnected)
  /\ WF_vars(\E r \in Ids : rooms[r].app.asked /\ AppExits)
  /\ WF_vars(LinkAppeared \/ LinkDisappeared) /\ WF_vars(BuryZombiePairs)

Spec == Init /\ [][Next]_vars /\ Fairness

-----------------------------------------------------------------------------
(***************************************************************************)
(* The object paths of two rooms differ, and the name is given to one.     *)
(***************************************************************************)
RoomsDiffer ==
  \A q, r \in Existing :
    q # r => rooms[q].index # rooms[r].index /\ rooms[q].name # rooms[r].name

(***************************************************************************)
(* jmcore links the ports of exactly the rooms that are started and not    *)
(* yet stopping, but for rooms whose start failed in the middle.           *)
(***************************************************************************)
LinksBelong ==
  \A r \in Ids \ leaky :
    { x \in pairs : x.room = r /\ ~x.dead }
      = IF rooms[r].started /\ rooms[r].handlers THEN PairsOf(r) ELSE {}

(***************************************************************************)
(* A signal about a link that is gone finds the graph of its room: a room  *)
(* is not destroyed before its ports are, but for the same exception.      *)
(***************************************************************************)
SignalsFindRooms ==
  /\ fault \in {"virtualizer.c:999", "graph.c:1148"} => leaky # {}
  /\ \A e \in known : e[1] \in leaky \/ rooms[e[1]].there

(***************************************************************************)
(* What waits for a room goes on: an unload, unless a connection is made   *)
(* while it takes connections apart, and a deletion, which waits for the   *)
(* room to stop and for everything of it to disappear.                     *)
(***************************************************************************)
UnloadWaits == Alive /\ queue # << >> /\ Head1.kind \in {"unload", "load"} /\ ~Pending
Reconnected ==
  \E r \in Existing : rooms[r].state = "disconnecting" /\ rooms[r].wired = "yes"
DeleteWaits == Alive /\ queue # << >> /\ Head1.kind = "delete"

WaitsEnd ==
  /\ UnloadWaits ~> (~UnloadWaits \/ Reconnected)
  /\ DeleteWaits ~> (~DeleteWaits \/ leaky # {})

\* No record of an app is dropped while its process runs (room.c:383, cmd_change_app_state.c:49).
NothingLost == lost = {}

\* graph.c:2377: the connections of a room are taken apart while it is started.
UnloadFindsHandlers == fault # "graph.c:2377"
=============================================================================
