----------------------------- MODULE GraphMirror -----------------------------
(***************************************************************************)
(* A published graph of the daemon and the canvas that shows it.           *)
(*                                                                         *)
(* The daemon changes the graph (src/daemon/graph.c) on behalf of the      *)
(* virtualizer, the rooms and the loader, and emits signals.  gladish has  *)
(* a graph proxy (src/proxies/graph_proxy.c) that hears the signals, asks  *)
(* once for the whole graph and feeds a canvas (src/gui/graph_canvas.c).   *)
(* Signals and the answer travel separately: the proxy registers for the   *)
(* signals first, asks, blocks, and finds the signals that were emitted    *)
(* meanwhile in its queue, behind the answer.  Versions tell the ones the  *)
(* answer already contains from the ones it does not.                      *)
(***************************************************************************)
EXTENDS Graph, FiniteSets

CONSTANTS
  MaxClients,   \* bound on the clients ever added
  MaxPorts,     \* bound on the ids of ports ever given
  MaxOps,       \* bound on the operations on the graph
  MaxViews,     \* bound on the times the canvas is opened
  CallFails,    \* whether GetGraph may fail
  StaleIds      \* whether a client is joined to one that was hidden meanwhile

ASSUME BoundsAssumption ==
  /\ MaxClients \in Nat /\ MaxPorts \in Nat /\ MaxOps \in Nat /\ MaxViews \in Nat
  /\ CallFails \in BOOLEAN /\ StaleIds \in BOOLEAN

VARIABLES
  graph,      \* the graph in the daemon
  persist,    \* its flag: what disappears is hidden, not removed
  bus,        \* signals on their way to the proxy
  active,     \* the proxy is registered for signals
  answer,     \* the call of GetGraph: none, asked, or the answer
  known,      \* the version the proxy has seen
  refreshed,  \* the whole graph was received
  mirror,     \* what the canvas shows
  lost,       \* the canvas was told something that does not fit what it shows
  ops, views  \* counters, for the bounds

daemonVars == <<graph, persist>>
proxyVars == <<active, answer, known, refreshed, mirror, lost>>
vars == <<graph, persist, bus, active, answer, known, refreshed, mirror, lost, ops, views>>

Blank == [clients |-> << >>, ports |-> << >>, conns |-> {}]
NoAnswer == [state |-> "none"]

\* Nobody looks at the graph yet.
Unseen ==
  /\ bus = << >>
  /\ active = FALSE
  /\ answer = NoAnswer
  /\ known = 0
  /\ refreshed = FALSE
  /\ mirror = Blank
  /\ lost = FALSE
  /\ ops = 0
  /\ views = 0

Init == graph = EmptyGraph /\ persist = TRUE /\ Unseen

-----------------------------------------------------------------------------
(***************************************************************************)
(* The daemon.                                                             *)
(***************************************************************************)
Ids(list) == { x.id : x \in Elements(list) }
VisiblePort(id) == ~PortById(graph, id).hidden
Joined(p, q) == { k \in Elements(graph.conns) : k.ends = {p, q} }

\* The graph becomes g and the signals leave.
Publish(g) ==
  /\ ops < MaxOps
  /\ ops' = ops + 1
  /\ graph' = [g EXCEPT !.sent = << >>]
  /\ bus' = IF active THEN bus \o g.sent ELSE bus
  /\ UNCHANGED <<persist, proxyVars, views>>

\* A client is created by the virtualizer, or hidden by the loader and for the rooms.
ClientIsAdded ==
  \E hidden \in BOOLEAN : graph.nextClient <= MaxClients /\ Publish(AddClient(graph, hidden))

\* A JACK port appears for the first time, or a port is loaded or created for a room.
PortIsAdded ==
  /\ graph.nextPort <= MaxPorts
  /\ \E c \in Ids(graph.clients), hidden \in BOOLEAN : Publish(AddPort(graph, c, hidden))

\* A JACK port that the graph knows appears again.
PortReturns ==
  \E p \in Ids(graph.ports) : ~VisiblePort(p) /\ Publish(ShowPort(graph, p))

\* A JACK port disappears, and its client with it when it was the last.
PortDisappears ==
  \E p \in Ids(graph.ports) :
    LET c == PortById(graph, p).client
        g == IF persist THEN HidePort(graph, p) ELSE RemovePort(graph, p)
    IN  /\ VisiblePort(p)
        /\ \/ persist /\ LooksEmpty(g, c) /\ ~ClientById(g, c).hidden /\ Publish(HideClient(g, c))
           \/ persist /\ (~LooksEmpty(g, c) \/ ClientById(g, c).hidden) /\ Publish(g)
           \/ ~persist /\ PortsOf(g, c) = << >> /\ Publish(RemoveClient(g, c))
           \/ ~persist /\ PortsOf(g, c) # << >> /\ Publish(g)

\* JACK connected two ports: the connection the graph keeps is shown, or a new one added.
PortsConnect ==
  \E p, q \in Ids(graph.ports) :
    /\ p < q /\ VisiblePort(p) /\ VisiblePort(q)
    /\ \/ Joined(p, q) = {} /\ Publish(AddConnection(graph, {p, q}, FALSE))
       \/ \E k \in Joined(p, q) : k.hidden /\ Publish(ShowConnection(graph, k))

\* The loader adds a connection, hidden, between the ports it added.
ConnectionIsLoaded ==
  \E p, q \in Ids(graph.ports) :
    /\ p < q /\ ~VisiblePort(p) /\ ~VisiblePort(q) /\ Joined(p, q) = {}
    /\ Publish(AddConnection(graph, {p, q}, TRUE))

\* JACK disconnected two ports: on request of the user the connection is
\* forgotten, otherwise it is kept, hidden.
PortsDisconnect ==
  \E k \in Elements(Visible(graph.conns)), requested \in BOOLEAN :
    Publish(IF requested \/ ~persist THEN DropConnection(graph, k) ELSE HideConnection(graph, k))

ClientIsRenamed == \E c \in Ids(graph.clients) : Publish(RenameClient(graph, c))
PortIsRenamed == \E p \in Ids(graph.ports) : Publish(RenamePort(graph, p))

\* The user splits a client, or joins two: the canvas named them by id.
ClientIsSplit ==
  /\ graph.nextClient <= MaxClients
  /\ \E c \in Ids(graph.clients) : \E moving \in SUBSET Ids(PortsOf(graph, c)) :
       /\ graph.nextPort + Cardinality(moving) <= MaxPorts + 1
       /\ Publish(SplitClient(graph, c, moving))

ClientsAreJoined ==
  \E c, d \in Ids(graph.clients) :
    /\ c # d
    /\ ClientById(graph, c).hidden => StaleIds
    /\ graph.nextPort + Len(PortsOf(graph, d)) <= MaxPorts + 1
    /\ Publish(JoinClients(graph, c, d))

\* The user moves a port to the client that is selected.
PortIsMoved ==
  /\ graph.nextPort <= MaxPorts
  /\ \E p \in Ids(graph.ports), c \in Ids(graph.clients) :
       /\ (~VisiblePort(p) \/ ClientById(graph, c).hidden) => StaleIds
       /\ Publish(MovePort(graph, p, c))

\* An app is removed, or the user removes an empty client: its client and the ports of it, all of them hidden.
AppIsRemoved ==
  \E c \in Ids(graph.clients) : LooksEmpty(graph, c) /\ Publish(RemoveClient(graph, c))

\* JACK is gone: what belongs to its clients is hidden.
JackIsGone ==
  \E jack \in SUBSET Ids(graph.clients) : jack # {} /\ Publish(HideNonVirtual(graph, jack))

\* A project is loaded into a room; a project or a whole studio is unloaded.
ProjectIsLoaded == Publish(TrickDicts(graph))
ProjectIsUnloaded == Publish(RemoveHiddenObjects(graph))
GraphIsCleared == graph.clients # << >> /\ Publish(Clear(graph))

\* A room is being deleted: from now on what disappears is removed.
PersistIsCleared ==
  /\ persist
  /\ persist' = FALSE
  /\ UNCHANGED <<graph, bus, proxyVars, ops, views>>

\* GetGraph: the visible part of the graph and its version.
VisibleClients(g) == [c \in Ids(Visible(g.clients)) |-> ClientById(g, c).name]
VisiblePorts(g) ==
  [ p \in { p \in Ids(Visible(g.ports)) : PortById(g, p).client \in DOMAIN VisibleClients(g) }
      |-> [client |-> PortById(g, p).client, name |-> PortById(g, p).name] ]
VisibleConns(g) == { k.ends : k \in Elements(Visible(g.conns)) }

GetGraph ==
  /\ answer.state = "asked"
  /\ answer' = [ state |-> "answered", version |-> graph.version,
                 clients |-> VisibleClients(graph), ports |-> VisiblePorts(graph),
                 conns |-> VisibleConns(graph) ]
  /\ UNCHANGED <<daemonVars, bus, active, known, refreshed, mirror, lost, ops, views>>

-----------------------------------------------------------------------------
(***************************************************************************)
(* The proxy and the canvas.                                               *)
(***************************************************************************)
\* graph_proxy_activate: register for the signals, then ask for everything.
Activate ==
  /\ ~active
  /\ views < MaxViews
  /\ views' = views + 1
  /\ active' = TRUE
  /\ answer' = [state |-> "asked"]
  /\ UNCHANGED <<daemonVars, bus, known, refreshed, mirror, lost, ops>>

\* refresh_internal: the answer replaces everything.
Refresh ==
  /\ answer.state = "answered"
  /\ known' = answer.version
  /\ mirror' = [ clients |-> answer.clients, ports |-> answer.ports,
                 conns |-> { e \in answer.conns : e \subseteq DOMAIN answer.ports } ]
  /\ refreshed' = TRUE
  /\ answer' = NoAnswer
  /\ UNCHANGED <<daemonVars, bus, active, lost, ops, views>>

\* The call fails or times out: the proxy stays active with what it has.
RefreshFails ==
  /\ CallFails
  /\ answer.state # "none"
  /\ answer' = NoAnswer
  /\ UNCHANGED <<daemonVars, bus, active, known, refreshed, mirror, lost, ops, views>>

Put(f, x, y) == [z \in DOMAIN f \cup {x} |-> IF z = x THEN y ELSE f[z]]
Drop(f, S) == [z \in DOMAIN f \ S |-> f[z]]
KnownClient(m, s) == s.client \in DOMAIN m.clients
KnownPort(m, s) == s.port \in DOMAIN m.ports /\ m.ports[s.port].client = s.client
Shown(ports, conns) == { e \in conns : e \subseteq DOMAIN ports }

\* An object appears that is there already, or a port disappears that is not there.
Misfits(m, s) ==
  CASE s.kind = "ClientAppeared" -> KnownClient(m, s)
    [] s.kind = "PortAppeared" -> KnownClient(m, s) /\ KnownPort(m, s)
    [] s.kind = "PortDisappeared" -> KnownClient(m, s) /\ ~KnownPort(m, s)
    [] OTHER -> FALSE

(***************************************************************************)
(* What a canvas that shows m makes of a signal; it ignores what names an  *)
(* object it does not know.  A module that goes takes its ports with it,   *)
(* and a port its lines.                                                   *)
(***************************************************************************)
CanvasAddsClient(m, s) == [m EXCEPT !.clients = Put(@, s.client, s.name)]

CanvasRenamesClient(m, s) == IF KnownClient(m, s) THEN CanvasAddsClient(m, s) ELSE m

Keeping(clients, ports, conns) == [clients |-> clients, ports |-> ports, conns |-> Shown(ports, conns)]

CanvasDropsClient(m, s) ==
  Keeping(Drop(m.clients, {s.client}),
          Drop(m.ports, { p \in DOMAIN m.ports : m.ports[p].client = s.client }), m.conns)

CanvasDropsPort(m, s) ==
  IF KnownPort(m, s) THEN Keeping(m.clients, Drop(m.ports, {s.port}), m.conns) ELSE m

PutPort(m, s) == [m EXCEPT !.ports = Put(@, s.port, [client |-> s.client, name |-> s.name])]
CanvasAddsPort(m, s) == IF KnownClient(m, s) THEN PutPort(m, s) ELSE m
CanvasRenamesPort(m, s) == IF KnownPort(m, s) THEN PutPort(m, s) ELSE m

CanvasConnects(m, s) == [m EXCEPT !.conns = Shown(m.ports, @ \cup {s.ends})]
CanvasDisconnects(m, s) == [m EXCEPT !.conns = @ \ {s.ends}]

Canvas(m, s) ==
  CASE s.kind = "ClientAppeared" -> CanvasAddsClient(m, s)
    [] s.kind = "ClientRenamed" -> CanvasRenamesClient(m, s)
    [] s.kind = "ClientDisappeared" -> CanvasDropsClient(m, s)
    [] s.kind = "PortAppeared" -> CanvasAddsPort(m, s)
    [] s.kind = "PortRenamed" -> CanvasRenamesPort(m, s)
    [] s.kind = "PortDisappeared" -> CanvasDropsPort(m, s)
    [] s.kind = "PortsConnected" -> CanvasConnects(m, s)
    [] s.kind = "PortsDisconnected" -> CanvasDisconnects(m, s)

\* (Mutant: without the check of the version.)
EverythingIsNews(s) == TRUE

\* The proxy passes on what is newer than what it knows.
IsNews(s) == s.version > known

Hear ==
  LET s == Head(bus)
  IN  /\ bus # << >>
      /\ answer.state = "none"      \* the call blocks
      /\ bus' = Tail(bus)
      /\ \/ ~IsNews(s) /\ UNCHANGED <<known, mirror, lost>>
         \/ /\ IsNews(s)
            /\ known' = s.version
            /\ mirror' = Canvas(mirror, s)
            /\ lost' = (lost \/ Misfits(mirror, s))
      /\ UNCHANGED <<daemonVars, active, answer, refreshed, ops, views>>

\* The canvas is closed and the proxy destroyed with it.
Close ==
  /\ active
  /\ answer.state = "none"
  /\ active' = FALSE
  /\ bus' = << >>
  /\ known' = 0
  /\ refreshed' = FALSE
  /\ mirror' = Blank
  /\ UNCHANGED <<daemonVars, answer, lost, ops, views>>

-----------------------------------------------------------------------------
Daemon ==
  \/ ClientIsAdded \/ PortIsAdded \/ PortReturns \/ PortDisappears
  \/ PortsConnect \/ ConnectionIsLoaded \/ PortsDisconnect
  \/ ClientIsRenamed \/ PortIsRenamed \/ ClientIsSplit \/ ClientsAreJoined \/ PortIsMoved
  \/ AppIsRemoved \/ JackIsGone \/ ProjectIsLoaded \/ ProjectIsUnloaded
  \/ GraphIsCleared \/ PersistIsCleared

Proxy == Activate \/ Refresh \/ RefreshFails \/ Hear \/ Close

Next == Daemon \/ GetGraph \/ Proxy

Spec == Init /\ [][Next]_vars

-----------------------------------------------------------------------------
(***************************************************************************)
(* Types: ids and versions are numbers, lists hold what their owners put   *)
(* into them, and the lists of a graph name no client or port twice; a     *)
(* port is in a client and a connection between ports that are there.      *)
(***************************************************************************)
WellFormed ==
  /\ graph.version \in Nat \ {0} /\ graph.sent = << >>
  /\ \A c \in Elements(graph.clients) : c.id < graph.nextClient /\ c.hidden \in BOOLEAN
  /\ \A p \in Elements(graph.ports) : p.id < graph.nextPort /\ p.client \in Ids(graph.clients)
  /\ \A k \in Elements(graph.conns) : k.ends \subseteq Ids(graph.ports) /\ Cardinality(k.ends) = 2
  /\ Cardinality(Ids(graph.clients)) = Len(graph.clients)
  /\ Cardinality(Ids(graph.ports)) = Len(graph.ports)
  /\ persist \in BOOLEAN /\ active \in BOOLEAN /\ refreshed \in BOOLEAN /\ lost \in BOOLEAN
  /\ answer.state \in {"none", "asked", "answered"}
  /\ known \in Nat
  /\ \A p \in DOMAIN mirror.ports : mirror.ports[p].client \in DOMAIN mirror.clients
  /\ \A e \in mirror.conns : e \subseteq DOMAIN mirror.ports

(***************************************************************************)
(* What is there is inside something that is there, and what is visible in *)
(* something visible: a visible port has a visible client and a visible    *)
(* connection visible ports.  The daemon asserts it where it looks for the *)
(* visible ports of an app.                                                *)
(***************************************************************************)
VisibleInside ==
  /\ WellFormed
  /\ \A p \in Elements(Visible(graph.ports)) : ~ClientById(graph, p.client).hidden
  /\ \A k \in Elements(Visible(graph.conns)) : \A p \in k.ends : VisiblePort(p)

(***************************************************************************)
(* When the proxy has heard everything, the canvas shows the clients, the  *)
(* connections and the ports of the graph with their names.  All it may    *)
(* show beyond them are ports the graph no longer has, whose removal had   *)
(* no version of its own and was taken for old news.                       *)
(***************************************************************************)
InSync ==
  /\ mirror.clients = VisibleClients(graph)
  /\ mirror.conns = VisibleConns(graph)
  /\ \A p \in DOMAIN VisiblePorts(graph) :
       p \in DOMAIN mirror.ports /\ mirror.ports[p] = VisiblePorts(graph)[p]
  /\ \A p \in DOMAIN mirror.ports \ DOMAIN VisiblePorts(graph) : p \notin Ids(graph.ports)

CanvasInSync ==
  active /\ refreshed /\ bus = << >> /\ answer.state = "none" => InSync

(***************************************************************************)
(* Whatever part of the graph a failed call left out, and however signals  *)
(* and answer overtake each other, the canvas is never told of an object   *)
(* it shows already, nor that a port it does not show disappeared from a   *)
(* client it shows: it would show the object twice, or dereference the     *)
(* port it did not find.                                                   *)
(***************************************************************************)
CanvasFollows == ~lost

=============================================================================
