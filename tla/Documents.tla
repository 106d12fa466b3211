----------------------------- MODULE Documents -----------------------------
(***************************************************************************)
(* What the files of studios and projects say (save.c, room_save.c and     *)
(* cmd_save_studio.c write them; load.c, cmd_load_studio.c and room_load.c *)
(* read them; escape.c codes names).  Where the files are and how they     *)
(* replace each other is StudioFiles' and SessionSave's subject.           *)
(*                                                                         *)
(* A client here has one port and belongs to one application or is         *)
(* external.  It exists twice: in the JACK graph, and in the graph the     *)
(* user sees, the studio's or the room's; the port is one object, which    *)
(* both graphs refer to.  What left JACK stays in both, hidden, with its   *)
(* connections.  A file has both halves, and its reader has to find for    *)
(* each port of the second half the one of the first.  One room, whose     *)
(* link port is in both graphs as well.                                    *)
(*                                                                         *)
(* A string matters by how often its "<" is coded as %: -1 is a string     *)
(* with nothing to code, 0 has a "<" (or a "&"), 1 a "%3C", 2 a "%253C".   *)
(* One more is a string that is too long for the reader once it is coded.  *)
(***************************************************************************)
EXTENDS Integers, FiniteSets

CONSTANTS
  StudioApps, RoomApps, Externals,  \* clients: of the studio's apps, of the room's, of nobody
  Names,    \* the strings apps and clients are named with, apart from the id that differs
  Commands, RoomNames,
  Texts,    \* the strings the user gives to everything else
  Wires,    \* the pairs of ports that may be connected
  Marked,   \* the ports and graphs whose dicts are set
  MaxOps    \* bound on what the user, apps and clients do of themselves

Clients == StudioApps \cup RoomApps \cup Externals
Apps == StudioApps \cup RoomApps
Link == "link"     \* the room's port
Graphs == {"studio", "room"}
None == -2         \* no string at all
Long == -3         \* MAX_DATA_SIZE and more
Graph(i) == IF i \in RoomApps THEN "room" ELSE "studio"
Of(g) == { i \in Clients : Graph(i) = g }
WiresOf(g) == { w \in Wires : w \cap Of(g) # {} }

(* A connection is in one graph.                                           *)
ASSUME DocumentsAssumption ==
  /\ Link \notin Clients /\ Marked \subseteq Clients \cup {Link} \cup Graphs
  /\ Names \cup RoomNames \subseteq {-1, 0, 1}
  /\ Commands \cup Texts \subseteq {Long, -1, 0, 1}
  /\ \A w \in Wires : \E g \in Graphs : w \subseteq Of(g) \cup {Link} /\ w # {Link}
  /\ MaxOps \in Nat

(* No name has a "%3C" of its own: the writer would leave it alone in a    *)
(* client's name and the reader would not, and the client would lose its   *)
(* app.                                                                    *)
Uncoded == Names \subseteq {-1, 0}

VARIABLES
  studio,   \* the studio: whether it is loaded, whether it is started
  room,     \* the room: its name, the description and state of its project
  apps,     \* the records of the apps
  clients,  \* both halves of the clients and their ports
  link,     \* the room's port: whether it is visible, its dict
  wired,    \* the connections of the two graphs, the hidden ones too
  dicts,    \* the dicts of the two graphs
  conf,     \* the value of a parameter of JACK
  files,    \* the studio's file and the project's
  kept,     \* what there was to keep when they were written
  ops       \* counter, for the bound

vars == <<studio, room, apps, clients, link, wired, dicts, conf, files, kept, ops>>

NoRoom == [there |-> FALSE, name |-> None, project |-> FALSE, text |-> None]
NoApp == [there |-> FALSE, running |-> FALSE, autorun |-> FALSE, name |-> None, command |-> None]
NoClient == [jack |-> FALSE, virt |-> FALSE, jackPort |-> FALSE, virtPort |-> FALSE, shown |-> FALSE,
             jackName |-> None, virtName |-> None, jackApp |-> FALSE, virtApp |-> FALSE,
             portApp |-> FALSE, graph |-> "none", dict |-> None]
NoLink == [shown |-> FALSE, dict |-> None]
NoFile == [there |-> FALSE]

Init ==
  /\ studio = [loaded |-> FALSE, started |-> FALSE]
  /\ room = NoRoom
  /\ apps = [i \in Apps |-> NoApp]
  /\ clients = [i \in Clients |-> NoClient]
  /\ link = NoLink
  /\ wired = {}
  /\ dicts = [g \in Graphs |-> None]
  /\ conf = -1
  /\ files = [g \in Graphs |-> NoFile]
  /\ kept = [g \in Graphs |-> NoFile]
  /\ ops = 0

-----------------------------------------------------------------------------
(***************************************************************************)
(* Strings.  The names of clients and ports are coded with                 *)
(* LADISH_ESCAPE_FLAG_XML_ATTR, which leaves a "%" alone; what apps and    *)
(* projects are called, commands and descriptions with all flags; dicts,   *)
(* the room's name and JACK's parameters not at all.                       *)
(***************************************************************************)
EscapeAttr(t) == IF t = 0 THEN 1 ELSE t
EscapeAll(t) == IF t >= 0 THEN t + 1 ELSE t
Raw(t) == t
Unescape(t) == IF t > 0 THEN t - 1 ELSE t
Legal(t) == t # 0   \* what the XML parser accepts
Fits(t) == t # Long \* what the reader takes as the text of an element

-----------------------------------------------------------------------------
(* Writing.                                                                *)

(* Whether a hidden port is worth keeping: when its app is not running.    *)
Interesting(i) == clients[i].portApp /\ ~apps[i].running

(* mutant: the JACK half has only what is visible *)
JackVisible(g) == { i \in Clients : clients[i].jack /\ clients[i].graph = g /\ clients[i].shown }

(* The JACK half: the clients of one graph, visible or of an app.          *)
JackWritten(g) ==
  { i \in Clients : /\ clients[i].jack /\ clients[i].graph = g
                    /\ clients[i].shown \/ clients[i].jackApp }
JackPortWritten(i) == clients[i].jackPort /\ (clients[i].shown \/ Interesting(i))

(* The other half.  A visible link port of the studio's graph is written   *)
(* with a uuid of its own beside the one it shares with the room.          *)
VirtWritten(g) ==
  { i \in Of(g) : clients[i].virt /\ (clients[i].shown \/ clients[i].virtApp) }
VirtPortWritten(i) == clients[i].virtPort /\ (clients[i].shown \/ Interesting(i))
EndWritten(p) == IF p = Link THEN link.shown ELSE VirtPortWritten(p)

AppWritten(i) == [name |-> EscapeAll(apps[i].name), command |-> EscapeAll(apps[i].command),
                  autorun |-> apps[i].running]

WriteDict(t) == Raw(t)
WriteVGraph(g) ==
  [clients |-> [i \in VirtWritten(g) |->
     [name |-> EscapeAttr(clients[i].virtName), app |-> clients[i].virtApp,
      port |-> VirtPortWritten(i), dict |-> IF VirtPortWritten(i) THEN WriteDict(clients[i].dict) ELSE None]],
   link |-> link.shown,
   wires |-> { w \in wired \cap WiresOf(g) : \A p \in w : EndWritten(p) },
   apps |-> [i \in { a \in Apps \cap Of(g) : apps[a].there } |-> AppWritten(i)]]

WriteJGraph(g) ==
  [i \in JackWritten(g) |->
     [name |-> EscapeAttr(clients[i].jackName), port |-> JackPortWritten(i)]]

(* The room's port, and the room as a studio's file has it.                *)
RoomPorts == WriteDict(link.dict)
RoomElement == [there |-> room.there, name |-> Raw(room.name), dict |-> RoomPorts]

StudioFile ==
  [there |-> TRUE, text |-> Raw(conf), jack |-> WriteJGraph("studio"), room |-> RoomElement,
   graph |-> WriteVGraph("studio"), dict |-> WriteDict(dicts["studio"])]
ProjectFile ==
  [there |-> TRUE, text |-> EscapeAll(room.text), jack |-> WriteJGraph("room"),
   room |-> [there |-> TRUE, name |-> None, dict |-> RoomPorts],
   graph |-> WriteVGraph("room"), dict |-> WriteDict(dicts["room"])]

(* For the properties: the apps, and what a file should have of them.      *)
Stopped(i) == i \in Apps /\ apps[i].there /\ ~apps[i].running
Lasting(i) == clients[i].virtPort /\ (clients[i].shown \/ Stopped(i))
Worth(g) ==
  [there |-> TRUE,
   text |-> IF g = "studio" THEN conf ELSE room.text,
   room |-> room.name,
   dict |-> dicts[g],
   apps |-> [i \in { a \in Apps \cap Of(g) : apps[a].there } |-> <<apps[i].name, apps[i].command, apps[i].running>>],
   ports |-> [i \in { c \in Of(g) : Lasting(c) } |-> <<clients[i].virtName, clients[i].dict>>],
   wires |-> { w \in wired \cap WiresOf(g) : \A p \in w : IF p = Link THEN link.shown ELSE Lasting(p) }]

Op == ops < MaxOps /\ ops' = ops + 1

(* The studio has to be started; a project may be saved at any time.       *)
SaveStudio ==
  /\ Op
  /\ studio.started
  /\ files' = [files EXCEPT !["studio"] = StudioFile]
  /\ kept' = [kept EXCEPT !["studio"] = Worth("studio")]
  /\ UNCHANGED <<studio, room, apps, clients, link, wired, dicts, conf>>

SaveProject ==
  /\ Op
  /\ room.there
  /\ files' = [files EXCEPT !["room"] = ProjectFile]
  /\ kept' = [kept EXCEPT !["room"] = Worth("room")]
  /\ room' = [room EXCEPT !.project = TRUE]
  /\ UNCHANGED <<studio, apps, clients, link, wired, dicts, conf>>

-----------------------------------------------------------------------------
(***************************************************************************)
(* Reading.  The parser stops where the file is not XML; a port of the     *)
(* second half has to be among those of the first, and the ports of a      *)
(* connection among those of the second.  The port of the room is made     *)
(* with the room; in the studio's graph a connection names it by the uuid  *)
(* that only its element there tells.                                      *)
(***************************************************************************)
RawLegal(d, g) ==
  /\ g = "studio" => Legal(d.text)
  /\ Legal(d.dict) /\ Legal(d.room.name) /\ Legal(d.room.dict)
  /\ \A i \in DOMAIN d.graph.clients : Legal(d.graph.clients[i].dict)

\* Values of dicts and parameters, commands and descriptions are such texts.
AllFit(d) ==
  /\ Fits(d.text) /\ Fits(d.dict) /\ Fits(d.room.dict)
  /\ \A i \in DOMAIN d.graph.clients : Fits(d.graph.clients[i].dict)
  /\ \A i \in DOMAIN d.graph.apps : Fits(d.graph.apps[i].command)

\* What the writer does not make sure of.
GivenReadable(d, g) == RawLegal(d, g) /\ AllFit(d)

NamesLegal(d, g) ==
  /\ g = "room" => Legal(d.text)
  /\ \A i \in DOMAIN d.jack : Legal(d.jack[i].name)
  /\ \A i \in DOMAIN d.graph.clients : Legal(d.graph.clients[i].name)
  /\ \A i \in DOMAIN d.graph.apps : Legal(d.graph.apps[i].name) /\ Legal(d.graph.apps[i].command)

PortRead(d, i) == i \in DOMAIN d.graph.clients /\ d.graph.clients[i].port
PortsFound(d) ==
  \A i \in Clients : PortRead(d, i) => i \in DOMAIN d.jack /\ d.jack[i].port
WiresFound(d, there) == \A w \in d.graph.wires : \A p \in w : IF p = Link THEN there ELSE PortRead(d, p)

(* A studio's file makes the room, and a connection to the room's port     *)
(* needs the port's element in the studio's graph.                         *)
StudioPortsFound(d) == PortsFound(d) /\ (d.graph.link => d.room.there)
StudioWiresFound(d) == WiresFound(d, d.graph.link)
StudioReadable(d) ==
  GivenReadable(d, "studio") /\ NamesLegal(d, "studio") /\ StudioPortsFound(d) /\ StudioWiresFound(d)

(* A project is read into a room that has its port, with the uuid of the   *)
(* template both were made from.                                           *)
ProjectPortsFound(d) == PortsFound(d) /\ room.there
ProjectWiresFound(d) == WiresFound(d, room.there)
ProjectReadable(d) ==
  GivenReadable(d, "room") /\ NamesLegal(d, "room") /\ ProjectPortsFound(d) /\ ProjectWiresFound(d)

(* The first half.  A project finds the clients an earlier one has left.   *)
StudioJack(d) ==
  [i \in Clients |->
    IF i \notin DOMAIN d.jack THEN NoClient
    ELSE [NoClient EXCEPT !.jack = TRUE, !.jackName = Unescape(d.jack[i].name), !.jackPort = d.jack[i].port]]
ProjectJack(d, cs) ==
  [i \in Clients |->
    IF i \notin DOMAIN d.jack THEN cs[i]
    ELSE IF cs[i].jack THEN [cs[i] EXCEPT !.jackPort = @ \/ d.jack[i].port]
    ELSE StudioJack(d)[i]]

(* The second half; only the reader of studios looks for the app here.     *)
ReadVirt(d, cs, app) ==
  [i \in Clients |->
    IF i \notin DOMAIN d.graph.clients THEN cs[i]
    ELSE [cs[i] EXCEPT !.virt = TRUE, !.virtName = Unescape(d.graph.clients[i].name), !.virtApp = app[i],
                       !.virtPort = PortRead(d, i),
                       !.dict = IF PortRead(d, i) THEN d.graph.clients[i].dict ELSE @]]
StudioVirt(d) == ReadVirt(d, StudioJack(d), [i \in DOMAIN d.graph.clients |-> d.graph.clients[i].app])
ProjectVirt(d, cs) == ReadVirt(d, ProjectJack(d, cs), [i \in Clients |-> FALSE])

StudioRoom(d) == [NoRoom EXCEPT !.there = d.room.there, !.name = d.room.name]
StudioLink(d) == [NoLink EXCEPT !.dict = d.room.dict]
DictRead(t, old) == IF t = None THEN old ELSE t
TextRead(d) == Unescape(d.text)

ReadApps(d, as) ==
  [i \in Apps |->
    IF i \notin DOMAIN d.graph.apps THEN as[i]
    ELSE LET a == d.graph.apps[i] IN
         [there |-> TRUE, running |-> FALSE, autorun |-> a.autorun,
          name |-> Unescape(a.name), command |-> Unescape(a.command)]]

(* The app of a client of JACK is the one of its name, and so are its      *)
(* other half and the graph it belongs to.                                 *)
InterlinkClients(g, cs, as) ==
  LET Found(i) == /\ i \in Apps \cap Of(g) /\ as[i].there
                  /\ cs[i].jack /\ cs[i].graph \in {"none", g} /\ ~cs[i].jackApp
                  /\ as[i].name = cs[i].jackName
                  /\ cs[i].virt /\ cs[i].virtName = cs[i].jackName
  IN [i \in Clients |->
       IF Found(i) THEN [cs[i] EXCEPT !.jackApp = TRUE, !.virtApp = TRUE, !.graph = g] ELSE cs[i]]
(* mutant: ports are not told their app *)
PortsWithoutApp(g, cs) == cs
InterlinkPorts(g, cs) ==
  [i \in Clients |->
    IF i \in Of(g) /\ cs[i].virtApp /\ cs[i].virtPort THEN [cs[i] EXCEPT !.portApp = TRUE] ELSE cs[i]]
Interlink(g, cs, as) == InterlinkPorts(g, InterlinkClients(g, cs, as))

Autorun(g, as) ==
  [i \in Apps |-> IF i \in Of(g) /\ as[i].autorun THEN [as[i] EXCEPT !.running = TRUE, !.autorun = FALSE] ELSE as[i]]

(* The dict of the studio's graph is not cleared.                          *)
Emptied ==
  /\ room' = NoRoom /\ link' = NoLink
  /\ apps' = [i \in Apps |-> NoApp]
  /\ clients' = [i \in Clients |-> NoClient]
  /\ wired' = {}
  /\ dicts' = [dicts EXCEPT !["room"] = None]

(* jackdbus may refuse the parameter.                                      *)
ConfRead(d, refused) == IF refused \/ ~(Legal(d.text) /\ Fits(d.text)) THEN -1 ELSE d.text

LoadStudio ==
  /\ ~studio.loaded /\ files["studio"].there
  /\ LET d == files["studio"] IN
     /\ StudioReadable(d)
     /\ studio' = [studio EXCEPT !.loaded = TRUE]
     /\ conf' = ConfRead(d, FALSE)
     /\ room' = StudioRoom(d) /\ link' = StudioLink(d)
     /\ apps' = ReadApps(d, apps)
     /\ clients' = Interlink("studio", StudioVirt(d), apps')
     /\ wired' = d.graph.wires
     /\ dicts' = [dicts EXCEPT !["studio"] = DictRead(d.dict, @)]
  /\ UNCHANGED <<files, kept, ops>>

LoadStudioFails ==
  /\ ~studio.loaded /\ files["studio"].there
  /\ \E refused \in BOOLEAN :
       /\ refused \/ ~StudioReadable(files["studio"])
       /\ conf' = ConfRead(files["studio"], refused)
  /\ Emptied
  /\ UNCHANGED <<studio, files, kept, ops>>

(* A project's apps and clients are taken away before another is loaded;   *)
(* clients of JACK without an app stay.                                    *)
AppsTaken == [i \in Apps |-> IF i \in RoomApps THEN NoApp ELSE apps[i]]
ClientsTaken ==
  [i \in Clients |->
    IF i \notin RoomApps THEN clients[i]
    ELSE IF clients[i].jackApp THEN NoClient
    ELSE [clients[i] EXCEPT !.virt = FALSE, !.virtPort = FALSE, !.virtName = None, !.virtApp = FALSE,
                            !.portApp = FALSE, !.dict = None]]

UnloadProject ==
  /\ room.there
  /\ room' = [room EXCEPT !.project = FALSE, !.text = None]
  /\ apps' = AppsTaken
  /\ clients' = ClientsTaken
  /\ wired' = wired \ WiresOf("room")
  /\ UNCHANGED <<studio, link, dicts, conf, files, kept, ops>>

LoadProject ==
  /\ room.there /\ files["room"].there
  /\ LET d == files["room"]
         as == ReadApps(d, AppsTaken)
     IN
     /\ ProjectReadable(d)
     /\ room' = [room EXCEPT !.project = TRUE, !.text = TextRead(d)]
     /\ link' = [link EXCEPT !.dict = DictRead(d.room.dict, @)]
     /\ apps' = Autorun("room", as)
     /\ clients' = Interlink("room", ProjectVirt(d, ClientsTaken), as)
     /\ wired' = (wired \ WiresOf("room")) \cup d.graph.wires
     /\ dicts' = [dicts EXCEPT !["room"] = DictRead(d.dict, @)]
  /\ UNCHANGED <<studio, conf, files, kept, ops>>

(* Whatever was read up to the error: the first half, unless the error is  *)
(* in the room's port, which comes before it.                              *)
LoadProjectFails ==
  /\ room.there /\ files["room"].there
  /\ LET d == files["room"] IN
     /\ ~ProjectReadable(d)
     /\ clients' = IF Legal(d.room.dict) /\ Fits(d.room.dict) THEN ProjectJack(d, ClientsTaken) ELSE ClientsTaken
  /\ apps' = AppsTaken
  /\ wired' = wired \ WiresOf("room")
  /\ room' = [room EXCEPT !.project = FALSE, !.text = None]
  /\ UNCHANGED <<studio, link, dicts, conf, files, kept, ops>>

-----------------------------------------------------------------------------
(* What happens in between.                                                *)

NewStudio ==
  /\ ~studio.loaded
  /\ studio' = [studio EXCEPT !.loaded = TRUE]
  /\ UNCHANGED <<room, apps, clients, link, wired, dicts, conf, files, kept, ops>>

StartStudio ==
  /\ studio.loaded /\ ~studio.started
  /\ studio' = [studio EXCEPT !.started = TRUE]
  /\ apps' = Autorun("studio", Autorun("room", apps))
  /\ UNCHANGED <<room, clients, link, wired, dicts, conf, files, kept, ops>>

StopStudio ==
  /\ studio.started
  /\ studio' = [studio EXCEPT !.started = FALSE]
  /\ apps' = [i \in Apps |-> IF apps[i].running THEN [apps[i] EXCEPT !.running = FALSE, !.autorun = TRUE]
                                                ELSE apps[i]]
  /\ clients' = [i \in Clients |-> [clients[i] EXCEPT !.shown = FALSE]]
  /\ link' = [link EXCEPT !.shown = FALSE]
  /\ UNCHANGED <<room, wired, dicts, conf, files, kept, ops>>

UnloadStudio ==
  /\ studio.loaded /\ ~studio.started
  /\ studio' = [studio EXCEPT !.loaded = FALSE]
  /\ Emptied
  /\ UNCHANGED <<conf, files, kept, ops>>

CreateRoom ==
  /\ studio.loaded /\ ~room.there
  /\ \E t \in RoomNames : room' = [NoRoom EXCEPT !.there = TRUE, !.name = t]
  /\ UNCHANGED <<studio, apps, clients, link, wired, dicts, conf, files, kept, ops>>

LinkUp ==
  /\ studio.started /\ room.there /\ ~link.shown
  /\ link' = [link EXCEPT !.shown = TRUE]
  /\ UNCHANGED <<studio, room, apps, clients, wired, dicts, conf, files, kept, ops>>

Present(i) == IF i \in RoomApps THEN room.there ELSE studio.loaded

(* In a studio that is stopped the app waits for the start.                *)
NewApp(i) ==
  /\ Op
  /\ Present(i) /\ ~apps[i].there
  /\ \E n \in Names, c \in Commands :
       apps' = [apps EXCEPT ![i] = [there |-> TRUE, running |-> studio.started, autorun |-> ~studio.started,
                                    name |-> n, command |-> c]]
  /\ UNCHANGED <<studio, room, clients, link, wired, dicts, conf, files, kept>>

StartApp(i) ==
  /\ Op
  /\ studio.started /\ apps[i].there /\ ~apps[i].running
  /\ apps' = [apps EXCEPT ![i].running = TRUE]
  /\ UNCHANGED <<studio, room, clients, link, wired, dicts, conf, files, kept>>

AppExits(i) ==
  /\ Op
  /\ apps[i].running
  /\ apps' = [apps EXCEPT ![i].running = FALSE]
  /\ UNCHANGED <<studio, room, clients, link, wired, dicts, conf, files, kept>>

RemoveApp(i) ==
  /\ apps[i].there /\ ~apps[i].running
  /\ apps' = [apps EXCEPT ![i] = NoApp]
  /\ LET c == clients[i] IN
     /\ clients' = [clients EXCEPT ![i] =
          IF c.jackApp THEN NoClient
          ELSE IF c.portApp THEN [c EXCEPT !.jackPort = FALSE, !.virtPort = FALSE, !.portApp = FALSE, !.dict = None]
          ELSE c]
     /\ wired' = IF c.jackApp \/ c.portApp THEN { w \in wired : i \notin w } ELSE wired
  /\ UNCHANGED <<studio, room, link, dicts, conf, files, kept, ops>>

RenameApp(i, n) ==
  /\ Op
  /\ apps[i].there /\ apps[i].name # n
  /\ apps' = [apps EXCEPT ![i].name = n]
  /\ clients' = [clients EXCEPT ![i].virtName = IF clients[i].virtApp THEN n ELSE @,
                                ![i].jackName = IF clients[i].jackApp THEN n ELSE @]
  /\ UNCHANGED <<studio, room, link, wired, dicts, conf, files, kept>>

(* A client of JACK and its port appear.  A client known by its app or its *)
(* name is shown again, and with it the port; what is hidden under another *)
(* name is of no more interest.  That a port which is known to JACK's      *)
(* graph is in the user's graph is asserted.                               *)
NameOf(i) == IF i \in Apps THEN apps[i].name ELSE -1
KnownClient(i) == clients[i].jack /\ (clients[i].jackApp \/ clients[i].jackName = NameOf(i))
MayAppear(i) == studio.started /\ ~clients[i].shown /\ (i \in Apps => apps[i].running)
Asserted(i) == KnownClient(i) /\ clients[i].jackPort => clients[i].virtPort

ClientUp(i) ==
  /\ MayAppear(i) /\ Asserted(i)
  /\ LET c == IF KnownClient(i) THEN clients[i] ELSE NoClient IN
     /\ clients' = [clients EXCEPT ![i] =
          [c EXCEPT !.jack = TRUE, !.virt = TRUE, !.jackPort = TRUE, !.virtPort = TRUE, !.shown = TRUE,
                    !.jackName = IF c.jack THEN @ ELSE NameOf(i),
                    !.virtName = IF c.virt THEN @ ELSE NameOf(i),
                    !.jackApp = i \in Apps, !.portApp = i \in Apps,
                    !.virtApp = @ \/ (i \in Apps /\ (c.jackPort \/ ~c.virt)),
                    !.graph = Graph(i)]]
     /\ wired' = IF c.virtPort THEN wired ELSE { w \in wired : i \notin w }
  /\ UNCHANGED <<studio, room, apps, link, dicts, conf, files, kept, ops>>

ClientDown(i) ==
  /\ Op
  /\ clients[i].shown
  /\ clients' = [clients EXCEPT ![i].shown = FALSE]
  /\ UNCHANGED <<studio, room, apps, link, wired, dicts, conf, files, kept>>

Visible(p) == IF p = Link THEN link.shown ELSE clients[p].shown
Connect(w) ==
  /\ Op
  /\ w \notin wired /\ \A p \in w : Visible(p)
  /\ wired' = wired \cup {w}
  /\ UNCHANGED <<studio, room, apps, clients, link, dicts, conf, files, kept>>

SetPortDict(p, t) ==
  /\ Op
  /\ IF p = Link THEN /\ room.there /\ link' = [link EXCEPT !.dict = t]
                      /\ UNCHANGED clients
                 ELSE /\ clients[p].shown /\ clients' = [clients EXCEPT ![p].dict = t]
                      /\ UNCHANGED link
  /\ UNCHANGED <<studio, room, apps, wired, dicts, conf, files, kept>>

SetGraphDict(g, t) ==
  /\ Op
  /\ IF g = "room" THEN room.there ELSE studio.loaded
  /\ dicts' = [dicts EXCEPT ![g] = t]
  /\ UNCHANGED <<studio, room, apps, clients, link, wired, conf, files, kept>>

SetDescription(t) ==
  /\ Op
  /\ room.project /\ room' = [room EXCEPT !.text = t]
  /\ UNCHANGED <<studio, apps, clients, link, wired, dicts, conf, files, kept>>

(* The user changes JACK's parameter; a studio takes it when it starts.    *)
SetConf(t) ==
  /\ Op
  /\ ~studio.started /\ conf' = t
  /\ UNCHANGED <<studio, room, apps, clients, link, wired, dicts, files, kept>>

Files == SaveStudio \/ SaveProject \/ LoadStudio \/ LoadStudioFails \/ LoadProject \/ LoadProjectFails
Studios == NewStudio \/ StartStudio \/ StopStudio \/ UnloadStudio \/ UnloadProject \/ CreateRoom \/ LinkUp
Processes == \E i \in Apps : \/ NewApp(i) \/ StartApp(i) \/ AppExits(i) \/ RemoveApp(i)
                             \/ \E n \in Names : RenameApp(i, n)
JackClients == \E i \in Clients : ClientUp(i) \/ ClientDown(i)
Edits == \/ \E w \in Wires : Connect(w)
         \/ \E t \in Texts : \/ \E p \in Marked \ Graphs : SetPortDict(p, t)
                             \/ \E g \in Marked \cap Graphs : SetGraphDict(g, t)
                             \/ SetDescription(t)
                             \/ SetConf(t)
Next == Files \/ Studios \/ Processes \/ JackClients \/ Edits
Spec == Init /\ [][Next]_vars

-----------------------------------------------------------------------------
(* Properties.                                                             *)

(* A file that was written can be read again: every port of the second     *)
(* half is in the first, every end of a connection is there, every name is *)
(* coded, whatever was running, hidden, renamed, removed or only half      *)
(* loaded when it was written; unless one of the strings that are written  *)
(* as they are, a dict's value, the room's name or a value for JACK, is    *)
(* not XML, or one that is read as text is too long for the reader.        *)
SavedLoads ==
  /\ LET d == files["studio"] IN d.there /\ GivenReadable(d, "studio") => StudioReadable(d)
  /\ LET d == files["room"] IN d.there /\ GivenReadable(d, "room") /\ room.there => ProjectReadable(d)

(* What a load brings back is what there was when the file was written:    *)
(* the apps with their names and commands, and whether they run, the ports *)
(* that were visible or of stopped apps with their names and dicts, and    *)
(* the connections between them.  A dict of a graph that was empty is not  *)
(* restored: the one from before stays.                                    *)
BroughtBack(g) ==
  LET k == kept[g] IN
  /\ { i \in Apps \cap Of(g) : apps'[i].there } = DOMAIN k.apps
  /\ \A i \in DOMAIN k.apps :
       <<apps'[i].name, apps'[i].command, apps'[i].autorun \/ apps'[i].running>> = k.apps[i]
  /\ \A i \in DOMAIN k.ports :
       clients'[i].virtPort /\ <<clients'[i].virtName, clients'[i].dict>> = k.ports[i]
  /\ wired' \cap WiresOf(g) = k.wires
  /\ k.dict # None => dicts'[g] = k.dict
  /\ IF g = "studio" THEN conf' = k.text /\ room'.name = k.room ELSE room'.text = k.text
LoadsBack == [][ /\ LoadStudio => BroughtBack("studio")
                 /\ LoadProject => BroughtBack("room") ]_vars

AppearFindsPort == \A i \in Clients : MayAppear(i) => Asserted(i)
=============================================================================
