------------------------------ MODULE FrontEnd ------------------------------
(***************************************************************************)
(* gladish, the graphical front end, keeps a copy of what the daemon has:  *)
(* whether there is a studio and what it does, its name, the rooms, their  *)
(* projects and all apps.  It asks when it starts and when a view of the   *)
(* studio or of a room is created, and follows signals after that.  The    *)
(* signals wait in a queue and calls overtake them; only signals of hooks  *)
(* registered before they are sent are queued at all.  A call to a daemon  *)
(* that is not there makes the bus start one.                              *)
(*                                                                         *)
(* What the daemon does is any sequence of what its commands do; the       *)
(* commands are StudioLifecycle's and Rooms'.  The graph in a view is      *)
(* GraphMirror's.                                                          *)
(***************************************************************************)
EXTENDS Lists

CONSTANTS
  Rooms,    \* object paths of rooms, which are used again
  Names,    \* of studios, rooms, projects and apps
  MaxOps    \* bound on what the daemon and the user do

Studio == "studio"
Objects == Rooms \cup {Studio}
None == "none"

ASSUME FrontEndAssumption == {Studio, None} \cap (Rooms \cup Names) = {} /\ MaxOps \in Nat

VARIABLES
  daemon,   \* what the daemon has
  gladish,  \* its state, its views, what it is doing, its flag for clean exits and its timers
  hooks,    \* the signals it registered for: objects with interfaces
  inbox,    \* the signals that wait for it
  missed,   \* history: a signal was sent before the hook of a starting gladish was there,
            \* or gladish ended without the hook of the control object
  twice,    \* history: a room appeared after the hooks and before the list of rooms
  ops       \* counter, for the bound

guiVars == <<daemon, gladish, hooks, inbox, missed, twice, ops>>

-----------------------------------------------------------------------------
(* The daemon.  An app supervisor has a version, which every change of its *)
(* list increments, and the next id; the one of the studio stays while     *)
(* studios come and go.                                                    *)
NoApps == [version |-> 0, next |-> 1, list |-> <<>>]
NoRoom == [name |-> None, project |-> None, version |-> 0, saves |-> <<>>, apps |-> NoApps]
Down == [up |-> FALSE, loaded |-> FALSE, name |-> None, runs |-> "stopped",
         rooms |-> [r \in Rooms |-> NoRoom], apps |-> NoApps]
Started == [Down EXCEPT !.up = TRUE]

There(d) == { r \in Rooms : d.rooms[r].name # None }
Supervisor(d, o) == IF o = Studio THEN d.apps ELSE d.rooms[o].apps
Supervised(d, o, s) ==
  IF o = Studio THEN [d EXCEPT !.apps = s] ELSE [d EXCEPT !.rooms[o].apps = s]

(* The objects that can be called: the studio's is registered while one is *)
(* loaded, a room's as long as it exists.                                  *)
Registered(d) == There(d) \cup IF d.loaded THEN {Studio} ELSE {}

(* Signals, as the match rules see them; room, name, app and version as    *)
(* needed.                                                                 *)
App(id, name) == [id |-> id, name |-> name, runs |-> FALSE, zombie |-> FALSE]
Signal(o, face, is, room, name, app, version) ==
  [on |-> o, face |-> face, is |-> is, room |-> room, name |-> name, app |-> app, version |-> version]
OfControl(is) == Signal("control", "control", is, None, None, App(0, None), 0)
OfStudio(is, name) == Signal(Studio, "studio", is, None, name, App(0, None), 0)
OfRoom(is, r, name) == Signal(Studio, "studio", is, r, name, App(0, None), 0)
OfBus(is) == Signal("bus", "life", is, None, None, App(0, None), 0)
OfProject(r, x) == Signal(r, "room", "ProjectPropertiesChanged", None, x.project, App(0, None), x.version)
OfApp(o, is, a, n) == Signal(o, "apps", is, None, None, a, n)

(* A list changes, is told of, and has a new version.                      *)
AppAdded(d, o, name) ==
  LET s == Supervisor(d, o)
      a == App(s.next, name)
  IN <<Supervised(d, o, [version |-> s.version + 1, next |-> s.next + 1, list |-> Append(s.list, a)]),
       <<OfApp(o, "AppAdded2", a, s.version + 1)>> >>

AppRemoved(d, o, a) ==
  LET s == Supervisor(d, o)
  IN <<Supervised(d, o, [s EXCEPT !.version = @ + 1, !.list = Select(@, LAMBDA b : b # a)]),
       <<OfApp(o, "AppRemoved", a, s.version + 1)>> >>

AppChanged(d, o, i, a) ==
  LET s == Supervisor(d, o)
  IN <<Supervised(d, o, [s EXCEPT !.version = @ + 1, !.list[i] = a]),
       <<OfApp(o, "AppStateChanged2", a, s.version + 1)>> >>

(* One change after the other: what they leave and what they send.         *)
Then(x, Change(_)) == LET y == Change(x[1]) IN <<y[1], x[2] \o y[2]>>

(* ladish_app_supervisor_clear: apps that run stay until they end.         *)
AppsCleared(d, o) ==
  LET Clear(x, a) ==
        IF a.runs
          THEN LET i == CHOOSE j \in DOMAIN Supervisor(x[1], o).list : Supervisor(x[1], o).list[j] = a
               IN <<Supervised(x[1], o, [Supervisor(x[1], o) EXCEPT !.list[i].zombie = TRUE]), x[2]>>
          ELSE Then(x, LAMBDA e : AppRemoved(e, o, a))
  IN FoldLeft(Clear, <<d, <<>> >>, Supervisor(d, o).list)

(* A room's object goes first, then its apps, then the rest.               *)
RoomCreated(d, r, name) ==
  <<[d EXCEPT !.rooms[r] = [NoRoom EXCEPT !.name = name, !.version = 1]],
    <<OfRoom("RoomAppeared", r, name)>> >>

RoomDestroyed(d, r) ==
  LET x == AppsCleared(d, r)
  IN <<[x[1] EXCEPT !.rooms[r] = NoRoom], Append(x[2], OfRoom("RoomDisappeared", r, d.rooms[r].name))>>

Published(d, name) ==
  <<[d EXCEPT !.loaded = TRUE, !.name = name, !.runs = "stopped"], <<OfControl("StudioAppeared")>> >>

(* Loading makes the rooms and apps first; if it fails later, they go.     *)
Read(d, name, r) ==
  Then(Then(RoomCreated(d, r, name), LAMBDA e : AppAdded(e, r, name)), LAMBDA e : AppAdded(e, Studio, name))
LoadedFrom(d, name, r) == Then(Read(d, name, r), LAMBDA e : Published(e, name))

(* ladish_studio_clear: also after a studio that failed to load, which     *)
(* never appeared.                                                         *)
Cleared(d) ==
  LET RoomsGone == FoldLeft(LAMBDA x, r : Then(x, LAMBDA e : RoomDestroyed(e, r)), <<d, <<>> >>, SetToSeq(There(d)))
      AppsGone == Then(RoomsGone, LAMBDA e : AppsCleared(e, Studio))
  IN Then(AppsGone, LAMBDA e : <<[e EXCEPT !.loaded = FALSE, !.name = None, !.runs = "stopped"],
                                 IF e.loaded THEN <<OfControl("StudioDisappeared")>> ELSE <<>> >>)

-----------------------------------------------------------------------------
(* gladish.  A view has the rows of its apps in the tree, with the version *)
(* of the list they are from, and for a room the project's.  What gladish  *)
(* is in the middle of is a sequence of steps, each of which asks the bus  *)
(* or the daemon once.                                                     *)
NoView == [name |-> None, version |-> 0, rows |-> <<>>, project |-> None, pversion |-> 0, doubt |-> FALSE]
Off == [on |-> FALSE, state |-> "unknown", views |-> [o \in Objects |-> NoView],
        todo |-> <<>>, clean |-> FALSE, timers |-> 0, aborted |-> FALSE]

InitGui ==
  /\ daemon \in {Down, Started} \cup { LoadedFrom(Started, name, r)[1] : name \in Names, r \in Rooms }
  /\ gladish = Off /\ hooks = {} /\ inbox = <<>>
  /\ missed = FALSE /\ twice = FALSE /\ ops = 0

Step(do, o, face, name) == [do |-> do, on |-> o, face |-> face, name |-> name]
Hook(o, face) == Step("hook", o, face, None)
LifetimeHook == Hook("bus", "life")
Opening(o, name) ==
  <<Step("open", o, "apps", name), Step("list_apps", o, "apps", None)>>
  \o (IF o = Studio THEN <<>> ELSE <<Hook(o, "room"), Step("get_project", o, "room", None)>>)
  \o <<Hook(o, "graph")>>

ViewFaces == {"apps", "room", "graph"}
Opened(g) == { o \in Objects : g.views[o].name # None }
Closed(g, objects) == [g EXCEPT !.views = [o \in Objects |-> IF o \in objects THEN NoView ELSE @[o]]]

AllClosed(g) == Closed(g, Objects)

(* (Mutant: the hook for the project of a room is forgotten.)              *)
UnhookedButRoom(objects) == { h \in hooks : h[1] \notin objects \/ h[2] \notin {"apps", "graph"} }

Unhooked(objects) == { h \in hooks : h[1] \notin objects \/ h[2] \notin ViewFaces }

(* The daemon becomes and sends what x says, and what gladish has hooks    *)
(* for is queued behind the rest.                                          *)
Queues(x, rest) ==
  LET Hooked(s) == <<s.on, s.face>> \in hooks
      Listing == \E i \in DOMAIN gladish.todo : gladish.todo[i].do = "list_rooms"
  IN /\ daemon' = x[1]
     /\ inbox' = rest \o IF gladish.on THEN Select(x[2], Hooked) ELSE <<>>
     /\ missed' = \/ missed
                  \/ gladish.on /\ \E s \in Elements(x[2]) : s.face \in {"life", "control", "studio"} /\ ~Hooked(s)
     /\ twice' = \/ twice
                 \/ Listing /\ \E s \in Elements(x[2]) : s.is = "RoomAppeared" /\ Hooked(s)

(* A call starts the daemon when it is not there, or fails.                *)
Answers ==
  IF daemon.up THEN {<<daemon, <<>> >>} ELSE {<<Started, <<OfBus("appeared")>> >>, <<Down, <<>> >>}

Doing(what) == gladish.todo # <<>> /\ Head(gladish.todo).do = what
Now == Head(gladish.todo)
Onward(g) == [g EXCEPT !.todo = Tail(@)]
Instead(g, steps) == [g EXCEPT !.todo = steps \o Tail(@)]

-----------------------------------------------------------------------------
(* Its start: control_proxy_init, studio_proxy_init, and the callbacks.    *)
GladishStarts ==
  /\ ops < MaxOps /\ ops' = ops + 1 /\ ~gladish.on
  /\ gladish' = [Off EXCEPT !.on = TRUE,
        !.todo = <<Step("ask", "control", "control", None), Hook(Studio, "studio"), Step("list_rooms", Studio, "studio", None)>>]
  /\ missed' = FALSE /\ twice' = FALSE /\ UNCHANGED <<daemon, hooks, inbox>>

(* control_proxy_uninit removes a hook that a start without a daemon did   *)
(* not leave, which is an assertion too.                                   *)
GladishQuits ==
  /\ gladish.on /\ gladish.todo = <<>>
  /\ LET fails == <<"control", "control">> \notin hooks
     IN gladish' = [Off EXCEPT !.aborted = fails] /\ missed' = (missed \/ fails)
  /\ hooks' = {} /\ inbox' = <<>> /\ UNCHANGED <<daemon, twice, ops>>

StudioIsLoaded(d) == d.loaded

(* When nobody answers, gladish goes on without the hooks of the control   *)
(* object and of the bus, for good.                                        *)
AsksForStudio ==
  /\ Doing("ask")
  /\ \E x \in Answers :
       /\ daemon' = x[1] /\ missed' = FALSE
       /\ gladish' =
            IF ~x[1].up THEN Onward(gladish)
            ELSE [Instead(gladish,
                    <<LifetimeHook>>
                    \o (IF StudioIsLoaded(x[1]) THEN <<Step("is_started", Studio, "studio", None)>> ELSE <<>>)
                    \o <<Hook("control", "control")>>) EXCEPT !.state = "unloaded"]
  /\ UNCHANGED <<hooks, inbox, twice, ops>>

AsksIfStarted ==
  /\ Doing("is_started")
  /\ \E x \in Answers :
       /\ Queues(x, inbox)
       /\ gladish' =
            IF Studio \notin Registered(x[1]) THEN [Onward(gladish) EXCEPT !.state = "stopped"]
            ELSE [Instead(gladish, <<Step("get_name", Studio, "studio", None)>>) EXCEPT
                    !.state = IF x[1].runs = "started" THEN "started" ELSE "stopped"]
  /\ UNCHANGED <<hooks, ops>>

(* The studio's view is created if there is a name and no view.            *)
OpensStudio(g, d) ==
  IF Studio \in Registered(d) /\ Studio \notin Opened(g) THEN Opening(Studio, d.name) ELSE <<>>

AsksForName ==
  /\ Doing("get_name")
  /\ \E x \in Answers :
       Queues(x, inbox) /\ gladish' = Instead(gladish, OpensStudio(gladish, x[1]))
  /\ UNCHANGED <<hooks, ops>>

(* GetRoomList, answered while a studio is loaded.                         *)
ListsRooms ==
  /\ Doing("list_rooms")
  /\ \E x \in Answers :
       /\ Queues(x, inbox)
       /\ LET d == x[1]
              rooms == IF d.loaded THEN SetToSeq(There(d)) ELSE <<>>
          IN gladish' = Instead(gladish, FoldLeft(LAMBDA steps, r : steps \o Opening(r, d.rooms[r].name), <<>>, rooms))
  /\ UNCHANGED <<hooks, ops>>

-----------------------------------------------------------------------------
(* Creating a view.  Hooks that are there already are an assertion.        *)
AddsHook(h, g) ==
  /\ IF h \in hooks
       THEN gladish' = [Off EXCEPT !.aborted = TRUE] /\ hooks' = {} /\ inbox' = <<>>
       ELSE gladish' = g /\ hooks' = hooks \cup {h} /\ UNCHANGED inbox
  /\ UNCHANGED <<daemon, missed, twice, ops>>

RegistersHook == Doing("hook") /\ AddsHook(<<Now.on, Now.face>>, Onward(gladish))

OpensView ==
  /\ Doing("open")
  /\ AddsHook(<<Now.on, "apps">>, [Onward(gladish) EXCEPT !.views[Now.on] = [NoView EXCEPT !.name = Now.name]])

(* GetAll2; its failure is ignored.                                        *)
Row(a) == [id |-> a.id, name |-> a.name, runs |-> a.runs]

Refreshed(v, s) ==
  [v EXCEPT !.version = s.version, !.rows = @ \o [i \in DOMAIN s.list |-> Row(s.list[i])]]

ListsApps ==
  /\ Doing("list_apps")
  /\ \E x \in Answers :
       /\ Queues(x, inbox)
       /\ gladish' = IF Now.on \in Registered(x[1])
                       THEN [Onward(gladish) EXCEPT !.views[Now.on] = Refreshed(@, Supervisor(x[1], Now.on))]
                       ELSE Onward(gladish)
  /\ UNCHANGED <<hooks, ops>>

Described(v, project, version, doubt) ==
  [v EXCEPT !.project = project, !.pversion = version, !.doubt = doubt]

(* GetProjectProperties; if it fails, the view is taken apart again.       *)
GetsProject ==
  /\ Doing("get_project")
  /\ \E x \in Answers :
       /\ Queues(x, inbox)
       /\ IF Now.on \in Registered(x[1])
            THEN LET r == x[1].rooms[Now.on]
                 IN /\ gladish' = [Onward(gladish) EXCEPT
                         !.views[Now.on] = Described(@, r.project, r.version, r.saves # <<>>)]
                    /\ UNCHANGED hooks
            ELSE /\ gladish' = Closed(Onward(Onward(gladish)), {Now.on})
                 /\ hooks' = Unhooked({Now.on})
  /\ UNCHANGED ops

-----------------------------------------------------------------------------
(* The main loop takes the signals one after the other.                    *)
Idle == gladish.on /\ gladish.todo = <<>>
Takes(face, what) ==
  /\ Idle /\ inbox # <<>> /\ Head(inbox).face = face /\ Head(inbox).is \in what
  /\ <<Head(inbox).on, face>> \in hooks
  /\ UNCHANGED ops
Taken == Head(inbox)
Just(g) == gladish' = g /\ inbox' = Tail(inbox) /\ UNCHANGED <<daemon, missed, twice>>

(* The hook went while the signal was in the queue.                        *)
Drops ==
  /\ Idle /\ inbox # <<>> /\ <<Taken.on, Taken.face>> \notin hooks
  /\ Just(gladish) /\ UNCHANGED <<hooks, ops>>

DaemonAppears ==
  /\ Takes("life", {"appeared"})
  /\ Just([gladish EXCEPT !.state = "unloaded", !.clean = FALSE,
                          !.timers = IF gladish.state \in {"na", "sick"} THEN @ - 1 ELSE @])
  /\ UNCHANGED hooks

DaemonDisappears ==
  /\ Takes("life", {"disappeared"})
  /\ Just([AllClosed(gladish) EXCEPT !.state = IF gladish.clean THEN "na" ELSE "sick",
                                          !.clean = FALSE, !.timers = @ + 1])
  /\ hooks' = Unhooked(Objects)

CleanExit ==
  /\ Takes("control", {"CleanExit"})
  /\ Just([gladish EXCEPT !.clean = TRUE]) /\ UNCHANGED hooks

(* Changes of the state ask for the name, to show it.                      *)
StudioAppears ==
  /\ Takes("control", {"StudioAppeared"})
  /\ \E x \in Answers :
       /\ Queues(x, Tail(inbox))
       /\ gladish' = [gladish EXCEPT !.state = "stopped", !.todo = OpensStudio(gladish, x[1])]
  /\ UNCHANGED hooks

StudioDisappears ==
  /\ Takes("control", {"StudioDisappeared"})
  /\ Just([Closed(gladish, {Studio}) EXCEPT !.state = "unloaded"])
  /\ hooks' = Unhooked({Studio})

NewState(is) ==
  CASE is = "StudioStarted" -> "started" [] is = "StudioStopped" -> "stopped" [] is = "StudioCrashed" -> "crashed"

StudioChanges ==
  /\ Takes("studio", {"StudioStarted", "StudioStopped", "StudioCrashed"})
  /\ \E x \in Answers :
       Queues(x, Tail(inbox)) /\ gladish' = [gladish EXCEPT !.state = NewState(Taken.is)]
  /\ UNCHANGED hooks

StudioRenamed ==
  /\ Takes("studio", {"StudioRenamed"})
  /\ Just(IF Studio \in Opened(gladish) THEN [gladish EXCEPT !.views[Studio].name = Taken.name] ELSE gladish)
  /\ UNCHANGED hooks

RoomAppears ==
  /\ Takes("studio", {"RoomAppeared"})
  /\ Just([gladish EXCEPT !.todo = Opening(Taken.room, Taken.name)]) /\ UNCHANGED hooks

RoomDisappears ==
  /\ Takes("studio", {"RoomDisappeared"})
  /\ Just(Closed(gladish, {Taken.room})) /\ hooks' = Unhooked({Taken.room})

(* (Mutant: a signal that the list it is about already shows is followed.) *)
FollowedAlways(v, s) ==
  [v EXCEPT !.version = s.version,
     !.rows = CASE s.is = "AppAdded2" -> Append(@, Row(s.app))
                [] s.is = "AppRemoved" -> Select(@, LAMBDA a : a.id # s.app.id)
                [] s.is = "AppStateChanged2" -> [i \in DOMAIN @ |-> IF @[i].id = s.app.id THEN Row(s.app) ELSE @[i]]]

(* Signals about apps and projects that the view knows of are old.         *)
Followed(v, s) ==
  IF s.version <= v.version THEN v
  ELSE [v EXCEPT !.version = s.version,
          !.rows = CASE s.is = "AppAdded2" -> Append(@, Row(s.app))
                     [] s.is = "AppRemoved" -> Select(@, LAMBDA a : a.id # s.app.id)
                     [] s.is = "AppStateChanged2" -> [i \in DOMAIN @ |-> IF @[i].id = s.app.id THEN Row(s.app) ELSE @[i]]]

AppsChange ==
  /\ Takes("apps", {"AppAdded2", "AppRemoved", "AppStateChanged2"})
  /\ Just([gladish EXCEPT !.views[Taken.on] = Followed(@, Taken)]) /\ UNCHANGED hooks

ProjectChanges ==
  /\ Takes("room", {"ProjectPropertiesChanged"})
  /\ LET v == gladish.views[Taken.on]
     IN Just(IF v.pversion >= Taken.version THEN gladish
             ELSE [gladish EXCEPT !.views[Taken.on] = Described(@, Taken.name, Taken.version, FALSE)])
  /\ UNCHANGED hooks

(* The timer that runs while there is no daemon calls it.                  *)
Polls ==
  /\ Idle /\ gladish.timers > 0 /\ ~daemon.up
  /\ \E x \in Answers : Queues(x, inbox)
  /\ UNCHANGED <<gladish, hooks, ops>>

Gladish ==
  \/ GladishStarts \/ GladishQuits \/ AsksForStudio \/ AsksIfStarted \/ AsksForName \/ ListsRooms
  \/ RegistersHook \/ OpensView \/ ListsApps \/ GetsProject
  \/ Drops \/ DaemonAppears \/ DaemonDisappears \/ CleanExit \/ StudioAppears \/ StudioDisappears
  \/ StudioChanges \/ StudioRenamed \/ RoomAppears \/ RoomDisappears \/ AppsChange \/ ProjectChanges \/ Polls

-----------------------------------------------------------------------------
(* What the daemon does.                                                   *)
Does(x) ==
  /\ ops < MaxOps /\ ops' = ops + 1
  /\ Queues(x, inbox)
  /\ UNCHANGED <<gladish, hooks>>

NewStudio(name) == daemon.up /\ ~daemon.loaded /\ Does(Published(daemon, name))

(* JACK was started by somebody else.                                      *)
AutomaticStudio(name) ==
  /\ daemon.up /\ ~daemon.loaded
  /\ Does(Then(Published(daemon, name),
                LAMBDA d : <<[d EXCEPT !.runs = "started"], <<OfStudio("StudioStarted", None)>> >>))

LoadsStudio(name, r) ==
  /\ daemon.up /\ ~daemon.loaded /\ r \notin There(daemon)
  /\ \/ Does(LoadedFrom(daemon, name, r))
     \/ Does(Then(Read(daemon, name, r), Cleared))

UnloadsStudio == daemon.up /\ daemon.loaded /\ daemon.runs # "started" /\ Does(Cleared(daemon))

Runs(from, to, is) ==
  /\ daemon.up /\ daemon.loaded /\ daemon.runs \in from
  /\ Does(<<[daemon EXCEPT !.runs = to], <<OfStudio(is, None)>> >>)

StartsOrStops ==
  \/ Runs({"stopped", "crashed"}, "started", "StudioStarted")
  \/ Runs({"started"}, "stopped", "StudioStopped")
  \/ Runs({"started"}, "crashed", "StudioCrashed")

RenamesStudio(name) ==
  /\ daemon.up /\ daemon.loaded
  /\ Does(<<[daemon EXCEPT !.name = name], <<OfStudio("StudioRenamed", name)>> >>)

CreatesRoom(r, name) ==
  /\ daemon.up /\ daemon.loaded /\ r \notin There(daemon)
  /\ Does(RoomCreated(daemon, r, name))

DeletesRoom(r) == daemon.up /\ r \in There(daemon) /\ Does(RoomDestroyed(daemon, r))

(* Apps are added, started, end, are described anew and removed.           *)
AddsApp(o, name) == daemon.up /\ o \in Registered(daemon) /\ Does(AppAdded(daemon, o, name))

Exists(o, i) == daemon.up /\ o \in There(daemon) \cup {Studio} /\ i \in DOMAIN Supervisor(daemon, o).list
TheApp(o, i) == Supervisor(daemon, o).list[i]

StartsApp(o, i) ==
  /\ Exists(o, i) /\ o \in Registered(daemon) /\ ~TheApp(o, i).runs
  /\ Does(AppChanged(daemon, o, i, [TheApp(o, i) EXCEPT !.runs = TRUE]))

RemovesApp(o, i) ==
  /\ Exists(o, i) /\ o \in Registered(daemon) /\ ~TheApp(o, i).runs
  /\ Does(AppRemoved(daemon, o, TheApp(o, i)))

SetsProperties(o, i, name) ==
  /\ Exists(o, i) /\ o \in Registered(daemon)
  /\ Does(AppChanged(daemon, o, i, [TheApp(o, i) EXCEPT !.name = name]))

AppEnds(o, i) ==
  /\ Exists(o, i) /\ TheApp(o, i).runs
  /\ Does(IF TheApp(o, i).zombie THEN AppRemoved(daemon, o, TheApp(o, i))
          ELSE AppChanged(daemon, o, i, [TheApp(o, i) EXCEPT !.runs = FALSE]))

(* A project is loaded, unloaded, saved or described anew.                 *)
Properties(r, x) == <<[daemon EXCEPT !.rooms[r] = x], <<OfProject(r, x)>> >>

ChangesProject(r) ==
  LET x == daemon.rooms[r]
  IN /\ daemon.up /\ r \in There(daemon)
     /\ \/ \E p \in Names \cup {None} :
             x.saves = <<>> /\ Does(Properties(r, [x EXCEPT !.project = p, !.version = @ + 1]))
        \/ \E p \in Names :   \* a save under another name: the name changes now
             x.saves = <<>> /\ Does(<<[daemon EXCEPT !.rooms[r].project = p, !.rooms[r].saves = <<x.project>>], <<>> >>)
        \/ x.saves # <<>> /\ Does(Properties(r, [x EXCEPT !.version = @ + 1, !.saves = <<>>]))
        \/ x.saves # <<>> /\ Does(<<[daemon EXCEPT !.rooms[r].project = Head(x.saves), !.rooms[r].saves = <<>>], <<>> >>)

DaemonEnds ==
  /\ daemon.up
  /\ \/ Does(<<Down, <<OfControl("CleanExit"), OfBus("disappeared")>> >>)
     \/ Does(<<Down, <<OfBus("disappeared")>> >>)

DaemonBegins == ~daemon.up /\ Does(<<Started, <<OfBus("appeared")>> >>)

Daemon ==
  \/ \E name \in Names : NewStudio(name) \/ AutomaticStudio(name) \/ RenamesStudio(name)
  \/ \E r \in Rooms, name \in Names : LoadsStudio(name, r) \/ CreatesRoom(r, name)
  \/ \E r \in Rooms : DeletesRoom(r) \/ ChangesProject(r)
  \/ \E o \in Objects, name \in Names : AddsApp(o, name)
  \/ \E o \in Objects : \E i \in DOMAIN Supervisor(daemon, o).list :
       StartsApp(o, i) \/ RemovesApp(o, i) \/ AppEnds(o, i) \/ \E name \in Names : SetsProperties(o, i, name)
  \/ UnloadsStudio \/ StartsOrStops \/ DaemonEnds \/ DaemonBegins

NextGui == Gladish \/ Daemon

SpecGui == InitGui /\ [][NextGui]_guiVars

-----------------------------------------------------------------------------
(* When gladish has nothing to do, it shows what the daemon has: whether   *)
(* it is there, whether there is a studio and whether it is started, the   *)
(* names, the rooms, the projects and the apps, in their order; whatever   *)
(* came and went while it asked, and whoever restarted.  The exceptions    *)
(* are the moments of its start between a question and the hook for the    *)
(* changes of the answer, a start without a daemon, and a project name     *)
(* read while a save under that name was going on that failed.             *)
MirrorFaithful ==
  Idle /\ inbox = <<>> /\ ~missed /\ <<"control", "control">> \in hooks =>
    /\ gladish.state \in
         IF ~daemon.up THEN {"na", "sick"} ELSE IF ~daemon.loaded THEN {"unloaded"}
         ELSE {daemon.runs} \cup IF daemon.runs = "crashed" THEN {"stopped"} ELSE {}
    /\ Opened(gladish) = Registered(daemon)
    /\ \A o \in Registered(daemon) :
         LET v == gladish.views[o]
             s == Supervisor(daemon, o)
         IN /\ v.name = IF o = Studio THEN daemon.name ELSE daemon.rooms[o].name
            /\ v.rows = [i \in DOMAIN s.list |-> Row(s.list[i])]
            /\ o # Studio /\ ~v.doubt =>
                 LET x == daemon.rooms[o] IN v.project = IF x.saves # <<>> THEN Head(x.saves) ELSE x.project

(* No hook is registered twice and none that is not there is removed,      *)
(* which would end gladish (src/cdbus/helpers.c:972-976, 1071-1076),       *)
(* unless a room appeared while it was about to ask for the rooms, it      *)
(* missed the end of a daemon while it started, or it started without a    *)
(* daemon and quits; between two signals the hooks of views are those of   *)
(* the views there are; and the timer runs exactly while there is no       *)
(* daemon.                                                                 *)
HooksMatchViews ==
  /\ gladish.aborted => twice \/ missed
  /\ Idle =>
       /\ { h \in hooks : h[1] \in Objects /\ h[2] \in ViewFaces }
            = { <<o, f>> : o \in Opened(gladish), f \in ViewFaces } \ {<<Studio, "room">>}
       /\ gladish.timers = IF gladish.state \in {"na", "sick"} THEN 1 ELSE 0
=============================================================================
