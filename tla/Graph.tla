-------------------------------- MODULE Graph --------------------------------
(***************************************************************************)
(* The patchbay graph of src/daemon/graph.c as a value, and its operations *)
(* as operators from graphs to graphs.                                     *)
(*                                                                         *)
(* A graph keeps its clients, its ports and its connections in lists, in   *)
(* the order they were added.  Each object has a hidden flag: an app that  *)
(* is not running keeps its client, its ports and their connections in the *)
(* graph, hidden.  The D-Bus side of a graph publishes only what is        *)
(* visible, and numbers its signals with the version of the graph.         *)
(*                                                                         *)
(* "sent" collects the signals an operation emits, in order; a signal      *)
(* about a hidden object is "silent" and never leaves the daemon.  Names   *)
(* are abstracted to the version at which they were given.                 *)
(***************************************************************************)
EXTENDS Lists

(***************************************************************************)
(* A new graph is empty and has version 1.                                 *)
(***************************************************************************)
EmptyGraph ==
  [ version    |-> 1,
    nextClient |-> 1,
    nextPort   |-> 1,
    clients    |-> << >>,   \* [id, hidden, name]
    ports      |-> << >>,   \* [id, client, hidden, name], client an id
    conns      |-> << >>,   \* [ends, hidden], ends two ids of ports
    sent       |-> << >> ]

ClientById(g, id) == CHOOSE c \in Elements(g.clients) : c.id = id
PortById(g, id) == CHOOSE p \in Elements(g.ports) : p.id = id
PortsOf(g, id) == Select(g.ports, LAMBDA p : p.client = id)
ConnsOf(g, id) == Select(g.conns, LAMBDA k : id \in k.ends)

(***************************************************************************)
(* ladish_graph_client_looks_empty_internal                                *)
(***************************************************************************)
LooksEmpty(g, id) == \A p \in Elements(PortsOf(g, id)) : p.hidden

-----------------------------------------------------------------------------
(***************************************************************************)
(* The signals.  One leaves with the version of the graph, unless it is    *)
(* about a hidden object; most changes have a version of their own.        *)
(***************************************************************************)
Signal(kind, hidden, client, port, name, ends) ==
  [ kind |-> IF hidden THEN "silent" ELSE kind,
    version |-> 0, client |-> client, port |-> port, name |-> name, ends |-> ends ]

ClientSignal(kind, c) == Signal(kind, c.hidden, c.id, 0, c.name, {})
PortSignal(kind, p) == Signal(kind, p.hidden, p.client, p.id, p.name, {})
ConnSignal(kind, k) == Signal(kind, k.hidden, 0, 0, 0, k.ends)

Bump(g) == [g EXCEPT !.version = @ + 1]
Emit(g, s) ==
  IF s.kind = "silent" THEN g
  ELSE [g EXCEPT !.sent = Append(@, [s EXCEPT !.version = g.version])]
Say(g, s) == Emit(Bump(g), s)

SayConnected(g, k) == Say(g, ConnSignal("PortsConnected", k))
SayDisconnected(g, k) == Say(g, ConnSignal("PortsDisconnected", k))

-----------------------------------------------------------------------------
(***************************************************************************)
(* Connections.                                                            *)
(***************************************************************************)
\* (Mutant: the signal has the version before the change.)
AddConnectionLate(g, ends, hidden) ==
  LET k == [ends |-> ends, hidden |-> hidden]
  IN  Bump(Emit([g EXCEPT !.conns = Append(@, k)], ConnSignal("PortsConnected", k)))

AddConnection(g, ends, hidden) ==
  LET k == [ends |-> ends, hidden |-> hidden]
  IN  SayConnected([g EXCEPT !.conns = Append(@, k)], k)

ShowConnection(g, k) ==
  SayConnected([g EXCEPT !.conns = Update(@, LAMBDA x : x = k, Show)], Show(k))

HideConnection(g, k) ==
  SayDisconnected([g EXCEPT !.conns = Update(@, LAMBDA x : x = k, Hide)], k)

DropConnection(g, k) ==
  SayDisconnected([g EXCEPT !.conns = Without(@, LAMBDA x : x = k)], k)

(***************************************************************************)
(* Ports.  Showing a port shows its client first.  Removing one removes    *)
(* its connections; it emits its signal with the version of the last of    *)
(* these changes: the removal of the port has no version of its own.       *)
(***************************************************************************)
ShowClient(g, id) ==
  Say([g EXCEPT !.clients = Update(@, LAMBDA x : x.id = id, Show)],
      ClientSignal("ClientAppeared", Show(ClientById(g, id))))

ShowPortOnly(g, id) ==
  Say([g EXCEPT !.ports = Update(@, LAMBDA x : x.id = id, Show)],
      PortSignal("PortAppeared", Show(PortById(g, id))))

ShowPort(g, id) ==
  LET client == PortById(g, id).client
  IN  ShowPortOnly(IF ClientById(g, client).hidden THEN ShowClient(g, client) ELSE g, id)

AddPort(g, client, hidden) ==
  LET p == [id |-> g.nextPort, client |-> client, hidden |-> TRUE, name |-> 0]
      h == [g EXCEPT !.ports = Append(@, p), !.nextPort = @ + 1]
  IN  IF hidden THEN h ELSE ShowPort(h, p.id)

HidePortOnly(g, id) ==
  Say([g EXCEPT !.ports = Update(@, LAMBDA x : x.id = id, Hide)],
      PortSignal("PortDisappeared", PortById(g, id)))

\* (Mutant: the connections of the port stay.)
HidePortAlone(g, id) == HidePortOnly(g, id)

HidePort(g, id) ==
  HidePortOnly(FoldLeft(HideConnection, g, Visible(ConnsOf(g, id))), id)

RemovePortOnly(g, id) ==
  Emit([g EXCEPT !.ports = Without(@, LAMBDA x : x.id = id)],
       PortSignal("PortDisappeared", PortById(g, id)))

RemovePort(g, id) == RemovePortOnly(FoldLeft(DropConnection, g, ConnsOf(g, id)), id)

(***************************************************************************)
(* A port moves to another client and gets a new id: its visible           *)
(* connections and the port disappear, then the port and the connections   *)
(* appear again.                                                           *)
(***************************************************************************)
Shift(g, id, client) ==
  LET q == [PortById(g, id) EXCEPT !.id = g.nextPort, !.client = client]
      Moved(k) == [k EXCEPT !.ends = (@ \ {id}) \cup {q.id}]
  IN  Say([g EXCEPT !.ports = Append(Without(@, LAMBDA x : x.id = id), q),
                    !.conns = Update(@, LAMBDA k : id \in k.ends, Moved),
                    !.nextPort = @ + 1],
          PortSignal("PortAppeared", q))

MovePort(g, id, client) ==
  LET p == PortById(g, id)
      Lines(h, e) == IF p.hidden THEN << >> ELSE Visible(ConnsOf(h, e))
      left == Say(FoldLeft(SayDisconnected, g, Lines(g, id)), PortSignal("PortDisappeared", p))
      there == Shift(left, id, client)
  IN  FoldLeft(SayConnected, there, Lines(there, g.nextPort))

RenamePort(g, id) ==
  LET Renamed(p) == [p EXCEPT !.name = g.version + 1]
  IN  Say([g EXCEPT !.ports = Update(@, LAMBDA x : x.id = id, Renamed)],
          PortSignal("PortRenamed", Renamed(PortById(g, id))))

-----------------------------------------------------------------------------
(***************************************************************************)
(* Clients.                                                                *)
(***************************************************************************)
AddClient(g, hidden) ==
  LET c == [id |-> g.nextClient, hidden |-> hidden, name |-> 0]
  IN  Say([g EXCEPT !.clients = Append(@, c), !.nextClient = @ + 1], ClientSignal("ClientAppeared", c))

HideClient(g, id) ==
  Say([g EXCEPT !.clients = Update(@, LAMBDA x : x.id = id, Hide)],
      ClientSignal("ClientDisappeared", ClientById(g, id)))

RenameClient(g, id) ==
  LET Renamed(c) == [c EXCEPT !.name = g.version + 1]
  IN  Say([g EXCEPT !.clients = Update(@, LAMBDA x : x.id = id, Renamed)],
          ClientSignal("ClientRenamed", Renamed(ClientById(g, id))))

RemoveClientOnly(g, id) ==
  Say([g EXCEPT !.clients = Without(@, LAMBDA x : x.id = id)],
      ClientSignal("ClientDisappeared", ClientById(g, id)))

RemoveClient(g, id) ==
  RemoveClientOnly(FoldLeft(LAMBDA acc, p : RemovePort(acc, p.id), g, PortsOf(g, id)), id)

(***************************************************************************)
(* The capture ports of a client, those in "moving", go to a new client of *)
(* the same name; all the ports of the second client go to the first one.  *)
(***************************************************************************)
SplitClient(g, id, moving) ==
  FoldLeft(LAMBDA acc, p : MovePort(acc, p.id, g.nextClient),
           AddClient(g, FALSE),
           Select(PortsOf(g, id), LAMBDA p : p.id \in moving))

JoinClients(g, id1, id2) ==
  RemoveClient(FoldLeft(LAMBDA acc, p : MovePort(acc, p.id, id1), g, PortsOf(g, id2)), id2)

-----------------------------------------------------------------------------
(***************************************************************************)
(* The whole graph.                                                        *)
(***************************************************************************)
Clear(g) ==
  FoldLeft(LAMBDA acc, c : RemoveClient(acc, c.id),
           FoldLeft(DropConnection, g, g.conns),
           g.clients)

\* The objects of the clients in "jack", those JACK knows, are hidden.
HideNonVirtual(g, jack) ==
  LET Mine(id) == PortById(g, id).client \in jack
      a == FoldLeft(HideConnection, g,
                    Select(Visible(g.conns), LAMBDA k : \E id \in k.ends : Mine(id)))
      b == FoldLeft(LAMBDA acc, p : HidePortOnly(acc, p.id), a,
                    Select(Visible(g.ports), LAMBDA p : Mine(p.id)))
  IN  FoldLeft(LAMBDA acc, c : HideClient(acc, c.id), b,
               Select(Visible(g.clients), LAMBDA c : c.id \in jack))

RemoveHiddenObjects(g) ==
  LET h == FoldLeft(DropConnection, g, Select(g.conns, LAMBDA k : k.hidden))
  IN  FoldLeft(LAMBDA acc, c : RemoveClient(acc, c.id), h,
               Select(h.clients, LAMBDA c : c.hidden))

\* Every visible object is taken away from the listeners and given back.
TrickDicts(g) ==
  LET Goes(acc, p) == Say(acc, PortSignal("PortDisappeared", p))
      GoesAndComes(acc, c) == Say(Say(acc, ClientSignal("ClientDisappeared", c)), ClientSignal("ClientAppeared", c))
      Comes(acc, p) == Say(acc, PortSignal("PortAppeared", p))
      unlined == FoldLeft(SayDisconnected, g, Visible(g.conns))
      empty == FoldLeft(Goes, unlined, Visible(g.ports))
      again == FoldLeft(GoesAndComes, empty, Visible(g.clients))
      filled == FoldLeft(Comes, again, Visible(g.ports))
  IN  FoldLeft(SayConnected, filled, Visible(g.conns))

=============================================================================
