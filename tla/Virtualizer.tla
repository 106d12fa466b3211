----------------------------- MODULE Virtualizer -----------------------------
(***************************************************************************)
(* How the daemon follows JACK's patchbay (src/daemon/virtualizer.c).      *)
(*                                                                         *)
(* JACK has clients, ports and connections that come and go, and tells of  *)
(* it in signals.  The daemon keeps two graphs: the JACK graph, with every *)
(* client as it is, and the virtual graph of the studio, with the clients  *)
(* of apps under the names of the apps.  What goes is hidden, not removed, *)
(* so that it finds its place, its settings and its connections again when *)
(* it comes back: clients are found by app or name, ports by name, and a   *)
(* hidden connection is asked of JACK once both its ports are there.       *)
(*                                                                         *)
(* An object is bound to JACK by a jack id, 0 when it is hidden.  A port   *)
(* is one object in both graphs.  The handlers are operators from the      *)
(* state of the virtualizer to its next state; "asked" collects the        *)
(* connections that a handler asks of JACK, and "failed" is set where an   *)
(* ASSERT of the code would not hold.                                      *)
(*                                                                         *)
(* Left out: the bridge of ALSA ports (a2j), the link ports of rooms and   *)
(* their graphs, the connections of the JACK graph, which nothing reads.   *)
(***************************************************************************)
EXTENDS Lists, FiniteSets

CONSTANTS
  Clients,      \* the JACK clients there may be
  NameOf,       \* the name each asks JACK for, and that of its app
  SecondName,   \* the name JACK gives it when that is taken
  AppOf,        \* the app a client belongs to, or NoApp
  PortsOf,      \* the names of the ports of each
  System,       \* the client of the hardware
  NoApp,
  MaxEvents,    \* bound on what JACK's clients and the user do
  CallFails,    \* whether JACK may refuse a connection for reasons of its own
  Disturbances  \* what else may happen, see below

ASSUME VirtualizerAssumption ==
  /\ {NameOf, SecondName} \subseteq [Clients -> STRING]
  /\ \A c \in Clients : IsFiniteSet(PortsOf[c])
  /\ MaxEvents \in Nat
  /\ CallFails \in BOOLEAN
  /\ Disturbances \subseteq {"sudden", "join", "shared"}

(***************************************************************************)
(* Three things break the correspondence of the graphs and are left to     *)
(* runs of their own: "sudden", the server goes without telling what goes  *)
(* with it; "join", the user joins a virtual client that a JACK client is  *)
(* linked to; "shared", an app is removed while another client is linked   *)
(* to its virtual client.                                                  *)
(***************************************************************************)
VARIABLES
  jack,      \* JACK: up, present clients and ports with their ids, connections
  bus,       \* signals on their way to the daemon
  v,         \* the virtualizer and the two graphs
  apps,      \* the apps of the studio
  excused,   \* hidden connections another program cut, or JACK refused
  events     \* counter, for the bound

vars == <<jack, bus, v, apps, excused, events>>

Apps == { AppOf[c] : c \in Clients } \ {NoApp}
JackPorts == UNION { {c} \X PortsOf[c] : c \in Clients }

Silence == [up |-> FALSE, clients |-> << >>, names |-> << >>, ports |-> << >>, conns |-> {}, next |-> 1]

NoGraphs ==
  [ running  |-> FALSE,
    clients  |-> << >>,   \* of the JACK graph: [key, name, jack, app, id, hidden, link]
    vclients |-> << >>,   \* of the virtual graph, the same without "jack"
    ports    |-> << >>,   \* [key, name, app, id, client, vclient, hidden, vhidden]
    conns    |-> << >>,   \* of the virtual graph: [ends, hidden, changing]
    count    |-> 0,
    system   |-> 0,
    next     |-> 1,
    asked    |-> {},
    failed   |-> FALSE ]

Init ==
  /\ jack = Silence
  /\ bus = << >>
  /\ v = NoGraphs
  /\ apps = Apps
  /\ excused = {}
  /\ events = 0

-----------------------------------------------------------------------------
(***************************************************************************)
(* Looking things up.                                                      *)
(***************************************************************************)
VPort(x, key) == First(x.ports, LAMBDA p : p.key = key)
VisibleEnds(x, k) == \A e \in k.ends : ~VPort(x, e).vhidden
ClientPorts(x, key) == SelectSeq(x.ports, LAMBDA p : p.client = key)
\* A port that is in the virtual graph; removing an app may leave one that is not.
InVirtual(p) == p.vclient # 0
LooksEmpty(x, key) == \A p \in Elements(x.ports) : p.vclient = key => p.vhidden

\* The ASSERTs of the code.
Expect(x, ok) == [x EXCEPT !.failed = @ \/ ~ok]

(***************************************************************************)
(* Asking JACK to connect the ports of hidden connections that are there.  *)
(***************************************************************************)
InJack(x, e) == { p \in DOMAIN jack.ports : jack.ports[p] = VPort(x, e).id }
PairOf(x, k) == UNION { InJack(x, e) : e \in k.ends }
Accepts(x, k, refused) ==
  /\ \A e \in k.ends : InJack(x, e) # {}
  /\ PairOf(x, k) \notin jack.conns \cup x.asked
  /\ k.ends \notin refused

TryConnect(x, refused) ==
  LET Due(k) == k.hidden /\ ~k.changing /\ VisibleEnds(x, k) /\ Accepts(x, k, refused)
  IN  [x EXCEPT !.conns = Update(@, Due, LAMBDA k : [k EXCEPT !.changing = TRUE]),
                !.asked = @ \cup { PairOf(x, k) : k \in Elements(SelectSeq(x.conns, Due)) }]

-----------------------------------------------------------------------------
(***************************************************************************)
(* A JACK client appeared.  The daemon asks JACK for the process of the    *)
(* client, and looks for an app that has started it, whose name it then    *)
(* takes for that of the client.  The client is found by app, or by name   *)
(* among those that have no app.  When that client is in use, this is      *)
(* another one of the same name.                                           *)
(***************************************************************************)
AppBehind(s) ==
  IF s.client \in DOMAIN jack.clients /\ jack.clients[s.client] = s.id /\ AppOf[s.client] \in apps
  THEN AppOf[s.client] ELSE NoApp

ClientAppeared(x, s) ==
  LET app == AppBehind(s)
      name == IF app = NoApp THEN s.name ELSE NameOf[s.client]
      Own(c) == app # NoApp /\ c.app = app
      Namesake(c) == c.name = name /\ c.app = NoApp
      Fits(c) == IF Some(x.clients, Own) THEN Own(c) ELSE Namesake(c)
      old == First(x.clients, Fits)
      reuse == Some(x.clients, Fits) /\ old.id = 0
      Bound(c) == [c EXCEPT !.id = s.id, !.jack = s.name, !.hidden = FALSE, !.app = IF app = NoApp THEN @ ELSE app]
      new == [key |-> x.next, name |-> name, jack |-> s.name, app |-> app, id |-> s.id,
              hidden |-> FALSE, link |-> 0]
      y == Expect(x, reuse => old.hidden)
  IN  [y EXCEPT !.clients = IF reuse THEN Update(@, LAMBDA c : c.key = old.key, Bound)
                            ELSE Append(@, new),
                !.next = IF reuse THEN @ ELSE @ + 1,
                !.count = IF app = NoApp THEN @ ELSE @ + 1,
                !.system = IF s.client = System THEN s.id ELSE @]

(***************************************************************************)
(* A port appeared.  A port is known by its name and the name its client   *)
(* has in JACK; when a client comes back under another name its ports are  *)
(* new ones.  A port that is known is shown in both graphs.  A new one     *)
(* needs its client in the virtual graph: one of the two clients of the    *)
(* hardware, the one its JACK client is linked to, or one found by app or  *)
(* name and linked from now on.                                            *)
(***************************************************************************)
ShowPort(x, key, refused) ==
  LET p == VPort(x, key)
      y == Expect(x, p.hidden /\ p.vhidden)
  IN  TryConnect(
        [y EXCEPT !.ports = Update(@, LAMBDA q : q.key = key,
                                   LAMBDA q : [q EXCEPT !.hidden = FALSE, !.vhidden = FALSE]),
                  !.clients = Update(@, LAMBDA c : c.key = p.client, Show),
                  !.vclients = Update(@, LAMBDA c : c.key = p.vclient, Show)],
        refused)

KnownPortAppeared(x, c, p, s, refused) ==
  LET Rebound(q) == [q EXCEPT !.id = s.port, !.app = IF c.app = NoApp THEN @ ELSE c.app]
      Used(w) == [w EXCEPT !.id = s.id, !.app = IF @ = NoApp THEN c.app ELSE @]
  IN  ShowPort([Expect(x, InVirtual(p)) EXCEPT
                  !.ports = Update(@, LAMBDA q : q.key = p.key, Rebound),
                  !.vclients = Update(@, LAMBDA w : w.key = p.vclient, Used)],
               p.key, refused)

\* The virtual client for a new port of client c.
IsHardware(x, c) == c.id = x.system
VName(x, c, s) == IF IsHardware(x, c) THEN s.name ELSE c.name

FindVClient(x, c, s) ==
  LET Own(w) == c.app # NoApp /\ w.app = c.app
      Namesake(w) == w.name = VName(x, c, s) /\ w.app = NoApp
      Fits(w) == CASE IsHardware(x, c) -> w.name = s.name
                   [] ~IsHardware(x, c) /\ c.link # 0 -> w.key = c.link
                   [] OTHER -> IF Some(x.vclients, Own) THEN Own(w) ELSE Namesake(w)
  IN  SelectSeq(x.vclients, Fits)

Linked(list, key, other) == Update(list, LAMBDA w : w.key = key, LAMBDA w : [w EXCEPT !.link = other])

WithVClient(x, c, s) ==
  LET found == FindVClient(x, c, s)
      key == IF found = << >> THEN x.next ELSE Head(found).key
      new == [key |-> key, name |-> VName(x, c, s), id |-> 0, hidden |-> FALSE, link |-> 0,
              app |-> IF IsHardware(x, c) THEN NoApp ELSE c.app]
      y == IF found = << >>
           THEN [Expect(x, IsHardware(x, c) \/ c.link = 0)
                   EXCEPT !.vclients = Append(@, new), !.next = @ + 1]
           ELSE x
  IN  IF IsHardware(x, c) \/ c.link # 0 THEN y
      ELSE [y EXCEPT !.clients = Linked(@, c.key, key), !.vclients = Linked(@, key, c.key)]

NewPortAppeared(x, c, s, refused) ==
  LET y == WithVClient(x, c, s)
      d == First(y.clients, LAMBDA w : w.key = c.key)
      p == [key |-> y.next, name |-> <<c.jack, s.name>>, app |-> c.app, id |-> s.port, client |-> c.key,
            vclient |-> Head(FindVClient(y, d, s)).key, hidden |-> TRUE, vhidden |-> TRUE]
  IN  IF y.failed THEN y
      ELSE ShowPort([y EXCEPT !.ports = Append(@, p), !.next = @ + 1], p.key, refused)

PortAppeared(x, s, refused) ==
  LET c == First(x.clients, LAMBDA w : w.id = s.id)
      Known(p) == p.client = c.key /\ p.name = <<c.jack, s.name>>
      p == First(x.ports, Known)
  IN  CASE ~Some(x.clients, LAMBDA w : w.id = s.id) -> x
        [] OTHER -> IF ~Some(x.ports, Known) THEN NewPortAppeared(x, c, s, refused)
                    ELSE IF p.id # 0 THEN x
                    ELSE KnownPortAppeared(x, c, p, s, refused)

-----------------------------------------------------------------------------
(***************************************************************************)
(* A port or a client disappeared.  jackdbus may forget to tell of the     *)
(* ports of a client that goes: they are made to disappear first.          *)
(***************************************************************************)
\* (Mutant: only the JACK graph hides the port.)
HidePortInJack(x, p) ==
  [x EXCEPT !.ports = Update(@, LAMBDA q : q.key = p.key, LAMBDA q : [q EXCEPT !.id = 0, !.hidden = TRUE])]

HidePort(x, p) ==
  LET w == First(x.vclients, LAMBDA c : c.key = p.vclient)
      y == [Expect(x, ~p.hidden /\ ~p.vhidden) EXCEPT
              !.ports = Update(@, LAMBDA q : q.key = p.key,
                               LAMBDA q : [q EXCEPT !.id = 0, !.hidden = TRUE, !.vhidden = TRUE]),
              !.conns = Update(@, LAMBDA k : p.key \in k.ends, Hide)]
  IN  IF LooksEmpty(y, p.vclient)
      THEN [Expect(y, ~w.hidden) EXCEPT !.vclients = Update(@, LAMBDA c : c.key = w.key, Hide)]
      ELSE y

PortDisappeared(x, s) ==
  IF Some(x.clients, LAMBDA c : c.id = s.id) /\ Some(x.ports, LAMBDA p : p.id = s.port)
  THEN HidePort(x, First(x.ports, LAMBDA p : p.id = s.port))
  ELSE x

\* (Mutant: the ports are left to their own signals.)
ForceNoPorts(x, key) == x

ForcePorts(x, key) == FoldLeft(HidePort, x, Visible(ClientPorts(x, key)))

\* (Mutant: the client is not counted out when its ports are gone already.)
ClientDisappearedUncounted(x, s) ==
  LET c == First(x.clients, LAMBDA w : w.id = s.id)
      y == ForcePorts(x, c.key)
  IN  IF ~Some(x.clients, LAMBDA w : w.id = s.id) THEN x
      ELSE [y EXCEPT
              !.count = IF c.app = NoApp \/ y = x THEN @ ELSE @ - 1,
              !.system = IF s.id = @ THEN 0 ELSE @,
              !.clients = Update(@, LAMBDA w : w.key = c.key,
                                 LAMBDA w : [w EXCEPT !.id = 0, !.hidden = TRUE])]

ClientDisappeared(x, s) ==
  LET c == First(x.clients, LAMBDA w : w.id = s.id)
      y == ForcePorts(x, c.key)
  IN  IF ~Some(x.clients, LAMBDA w : w.id = s.id) THEN x
      ELSE [Expect(y, ~c.hidden) EXCEPT
              !.count = IF c.app = NoApp THEN @ ELSE @ - 1,
              !.system = IF s.id = @ THEN 0 ELSE @,
              !.clients = Update(@, LAMBDA w : w.key = c.key,
                                 LAMBDA w : [w EXCEPT !.id = 0, !.hidden = TRUE])]

(***************************************************************************)
(* Two ports were connected or disconnected.  A disconnection on request   *)
(* of the user is forgotten, any other is remembered.                      *)
(***************************************************************************)
Ends(x, s) == { p.key : p \in Elements(SelectSeq(x.ports, LAMBDA p : p.id \in s.pair)) }
Resolves(x, s) == Cardinality(Ends(x, s)) = 2

\* (Mutant: a connection that is shown is still marked as changing.)
PortsConnectedChanging(x, s) ==
  LET Old(k) == k.ends = Ends(x, s)
      new == [ends |-> Ends(x, s), hidden |-> FALSE, changing |-> FALSE]
  IN  CASE ~Resolves(x, s) -> x
        [] Resolves(x, s) /\ Some(x.conns, Old) ->
             [Expect(x, First(x.conns, Old).hidden) EXCEPT !.conns = Update(@, Old, Show)]
        [] OTHER -> [x EXCEPT !.conns = Append(@, new)]

PortsConnected(x, s) ==
  LET Old(k) == k.ends = Ends(x, s)
      new == [ends |-> Ends(x, s), hidden |-> FALSE, changing |-> FALSE]
  IN  CASE ~Resolves(x, s) -> x
        [] Resolves(x, s) /\ Some(x.conns, Old) ->
             [Expect(x, First(x.conns, Old).hidden) EXCEPT
                !.conns = Update(@, Old, LAMBDA k : new)]
        [] OTHER -> [x EXCEPT !.conns = Append(@, new)]

PortsDisconnected(x, s) ==
  LET Old(k) == k.ends = Ends(x, s)
      k == First(x.conns, Old)
  IN  CASE ~Resolves(x, s) \/ ~Some(x.conns, Old) -> x
        [] OTHER -> IF k.changing THEN [x EXCEPT !.conns = Without(@, Old)]
                    ELSE [Expect(x, ~k.hidden) EXCEPT !.conns = Update(@, Old, Hide)]

(***************************************************************************)
(* The server stopped.  The stop command hides what is bound to JACK in    *)
(* both graphs; when jackdbus vanished only the virtual one is cleaned up, *)
(* and when JACK stopped by itself none.                                   *)
(***************************************************************************)
HideJackGraph(x) ==
  LET Bound(key) == First(x.clients, LAMBDA c : c.key = key).id # 0
      Gone(p) == ~p.hidden /\ Bound(p.client)
  IN  [x EXCEPT !.ports = Update(@, Gone, LAMBDA p : [p EXCEPT !.id = 0, !.hidden = TRUE]),
                !.clients = Update(@, LAMBDA c : ~c.hidden /\ c.id # 0,
                                   LAMBDA c : [c EXCEPT !.id = 0, !.hidden = TRUE])]

HideVirtualGraph(x) ==
  LET Bound(key) == First(x.vclients, LAMBDA w : w.key = key).id # 0
      Gone(p) == ~p.vhidden /\ Bound(p.vclient)
  IN  [x EXCEPT !.conns = Update(@, LAMBDA k : \E e \in k.ends : Bound(VPort(x, e).vclient), Hide),
                !.ports = Update(@, Gone, LAMBDA p : [p EXCEPT !.id = 0, !.vhidden = TRUE]),
                !.vclients = Update(@, LAMBDA w : ~w.hidden /\ w.id # 0,
                                    LAMBDA w : [w EXCEPT !.id = 0, !.hidden = TRUE])]

Stopped(x, how) ==
  LET y == CASE how = "requested" -> HideVirtualGraph(HideJackGraph(x))
             [] how = "vanished" -> HideVirtualGraph(x)
             [] how = "unexpected" -> x
  IN  [y EXCEPT !.running = FALSE, !.count = 0, !.system = 0]

Handler(x, s, refused) ==
  CASE s.kind = "ClientAppeared" -> ClientAppeared(x, s)
    [] s.kind = "ClientDisappeared" -> ClientDisappeared(x, s)
    [] s.kind = "PortAppeared" -> PortAppeared(x, s, refused)
    [] s.kind = "PortDisappeared" -> PortDisappeared(x, s)
    [] s.kind = "PortsConnected" -> PortsConnected(x, s)
    [] s.kind = "PortsDisconnected" -> PortsDisconnected(x, s)
    [] s.kind = "Stopped" -> Stopped(x, s.name)

-----------------------------------------------------------------------------
(***************************************************************************)
(* JACK.  Its signals reach the daemon while the proxy listens.            *)
(***************************************************************************)
Sig(kind, client, id, name, port, pair) ==
  [kind |-> kind, client |-> client, id |-> id, name |-> name, port |-> port, pair |-> pair]

ClientSig(kind, j, c) == Sig(kind, c, j.clients[c], j.names[c], 0, {})
PortSig(kind, j, p) == Sig(kind, p[1], j.clients[p[1]], p[2], j.ports[p], {})
PairSig(kind, j, pair) == Sig(kind, System, 0, "", 0, { j.ports[p] : p \in pair })

\* Messages of the ports and connections of j in some order.
PortSigs(kind, j, ports) == LET l == SetToSeq(ports) IN [i \in DOMAIN l |-> PortSig(kind, j, l[i])]
PairSigs(kind, j, pairs) == LET l == SetToSeq(pairs) IN [i \in DOMAIN l |-> PairSig(kind, j, l[i])]

Tell(sigs) == bus' = IF v.running THEN bus \o sigs ELSE bus

Happens ==
  /\ events < MaxEvents
  /\ events' = events + 1

Values(f) == { f[x] : x \in DOMAIN f }
Add(f, x, y) == [z \in DOMAIN f \cup {x} |-> IF z = x THEN y ELSE f[z]]
Less(f, S) == [z \in DOMAIN f \ S |-> f[z]]
Touching(ports) == { pair \in jack.conns : pair \cap ports # {} }
Own(c) == { p \in DOMAIN jack.ports : p[1] = c }

\* A client opens, and registers ports.
ClientEnters ==
  \E c \in Clients \ DOMAIN jack.clients :
    \E names \in SUBSET PortsOf[c] :
      LET free == {NameOf[c], SecondName[c]} \ Values(jack.names)
          name == IF NameOf[c] \in free THEN NameOf[c] ELSE SecondName[c]
          l == SetToSeq({c} \X names)
          ids == [p \in Elements(l) |-> jack.next + CHOOSE i \in DOMAIN l : l[i] = p]
          j == [jack EXCEPT !.clients = Add(@, c, jack.next), !.names = Add(@, c, name),
                            !.ports = @ @@ ids, !.next = @ + Len(l) + 1]
      IN  /\ jack.up /\ free # {} /\ Happens
          /\ jack' = j
          /\ Tell(<< ClientSig("ClientAppeared", j, c) >> \o PortSigs("PortAppeared", j, Elements(l)))
          /\ UNCHANGED <<v, apps, excused>>

PortEnters ==
  \E p \in JackPorts \ DOMAIN jack.ports :
    LET j == [jack EXCEPT !.ports = Add(@, p, jack.next), !.next = @ + 1]
    IN  /\ p[1] \in DOMAIN jack.clients /\ Happens
        /\ jack' = j
        /\ Tell(<< PortSig("PortAppeared", j, p) >>)
        /\ UNCHANGED <<v, apps, excused>>

PortLeaves ==
  \E p \in DOMAIN jack.ports :
    /\ Happens
    /\ jack' = [jack EXCEPT !.ports = Less(@, {p}), !.conns = @ \ Touching({p})]
    /\ Tell(PairSigs("PortsDisconnected", jack, Touching({p})) \o << PortSig("PortDisappeared", jack, p) >>)
    /\ UNCHANGED <<v, apps, excused>>

\* A client closes or dies; jackdbus may only tell of the client.
ClientLeaves ==
  \E c \in DOMAIN jack.clients, tidy \in BOOLEAN :
    LET less == IF tidy THEN PairSigs("PortsDisconnected", jack, Touching(Own(c)))
                             \o PortSigs("PortDisappeared", jack, Own(c))
                ELSE << >>
    IN  /\ Happens
        /\ jack' = [jack EXCEPT !.clients = Less(@, {c}), !.names = Less(@, {c}),
                                !.ports = Less(@, Own(c)), !.conns = @ \ Touching(Own(c))]
        /\ Tell(less \o << ClientSig("ClientDisappeared", jack, c) >>)
        /\ UNCHANGED <<v, apps, excused>>

\* Another program connects or disconnects.
OthersConnect ==
  \E p, q \in DOMAIN jack.ports :
    /\ p # q /\ {p, q} \notin jack.conns /\ Happens
    /\ jack' = [jack EXCEPT !.conns = @ \cup {{p, q}}]
    /\ Tell(<< PairSig("PortsConnected", jack, {p, q}) >>)
    /\ UNCHANGED <<v, apps, excused>>

OthersDisconnect ==
  \E pair \in jack.conns :
    /\ Happens
    /\ jack' = [jack EXCEPT !.conns = @ \ {pair}]
    /\ Tell(<< PairSig("PortsDisconnected", jack, pair) >>)
    /\ UNCHANGED <<v, apps, excused>>

\* The daemon has dealt with the end of one session before the next begins.
ServerStarts ==
  /\ ~jack.up /\ ~v.running /\ Happens
  /\ jack' = [Silence EXCEPT !.up = TRUE]
  /\ UNCHANGED <<bus, v, apps, excused>>

ServerStops ==
  \E tidy \in BOOLEAN, how \in {"requested", "vanished", "unexpected"} :
    LET l == SetToSeq(DOMAIN jack.clients)
        goodbye == PairSigs("PortsDisconnected", jack, jack.conns)
                   \o PortSigs("PortDisappeared", jack, DOMAIN jack.ports)
                   \o [i \in DOMAIN l |-> ClientSig("ClientDisappeared", jack, l[i])]
    IN  /\ jack.up /\ v.running /\ Happens
        /\ tidy \/ "sudden" \in Disturbances
        /\ how = "requested" => v.count = 0
        /\ jack' = Silence
        /\ Tell((IF tidy THEN goodbye ELSE << >>) \o << Sig("Stopped", System, 0, how, 0, {}) >>)
        /\ UNCHANGED <<v, apps, excused>>

-----------------------------------------------------------------------------
(***************************************************************************)
(* The daemon.  What a handler asked of JACK is done when it returns.      *)
(***************************************************************************)
MayRefuse == IF CallFails THEN SUBSET { k.ends : k \in Elements(v.conns) } ELSE {{}}

\* Hidden connections between visible ports in y, among those in "old".
StillExcused(y, old) ==
  { e \in old : \E k \in Elements(y.conns) : k.ends = e /\ k.hidden /\ VisibleEnds(y, k) }

Becomes(y, rest, old) ==
  /\ v' = [y EXCEPT !.asked = {}]
  /\ jack' = [jack EXCEPT !.conns = @ \cup y.asked]
  /\ bus' = rest \o PairSigs("PortsConnected", jack, y.asked)
  /\ excused' = StillExcused(y, old)

HandleSignal ==
  /\ v.running /\ bus # << >>
  /\ \E refused \in MayRefuse :
       LET s == Head(bus)
           cut == IF s.kind = "PortsDisconnected" THEN {Ends(v, s)} ELSE {}
       IN  Becomes(Handler(v, s, refused), Tail(bus), excused \cup refused \cup cut)
  /\ UNCHANGED <<apps, events>>

\* JACK is known to run: the proxy listens and is given the whole patchbay.
Activate ==
  /\ jack.up /\ ~v.running
  /\ \E refused \in MayRefuse :
       LET l == SetToSeq(DOMAIN jack.clients)
           Clnt(c) == << ClientSig("ClientAppeared", jack, c) >>
                      \o PortSigs("PortAppeared", jack, Own(c))
           all == FlattenSeq([i \in DOMAIN l |-> Clnt(l[i])])
                  \o PairSigs("PortsConnected", jack, jack.conns)
           y == FoldLeft(LAMBDA x, s : Handler(x, s, refused), [v EXCEPT !.running = TRUE], all)
       IN  Becomes(y, bus, excused \cup refused)
  /\ UNCHANGED <<apps, events>>

(***************************************************************************)
(* The user, through the virtual graph.                                    *)
(***************************************************************************)
UserConnects ==
  \E p, q \in Elements(v.ports) :
    LET pair == InJack(v, p.key) \cup InJack(v, q.key)
    IN  /\ v.running /\ p.key < q.key /\ ~p.vhidden /\ ~q.vhidden
        /\ Cardinality(pair) = 2 /\ pair \notin jack.conns /\ Happens
        /\ jack' = [jack EXCEPT !.conns = @ \cup {pair}]
        /\ Tell(<< PairSig("PortsConnected", jack, pair) >>)
        /\ UNCHANGED <<v, apps, excused>>

\* A request that JACK refuses leaves no trace.
UserDisconnects ==
  \E k \in Elements(v.conns) :
    /\ v.running /\ PairOf(v, k) \in jack.conns /\ Happens
    /\ jack' = [jack EXCEPT !.conns = @ \ {PairOf(v, k)}]
    /\ Tell(<< PairSig("PortsDisconnected", jack, PairOf(v, k)) >>)
    /\ v' = [v EXCEPT !.conns = Update(@, LAMBDA x : x = k, LAMBDA x : [x EXCEPT !.changing = TRUE])]
    /\ UNCHANGED <<apps, excused>>

UserJoinsClients ==
  \E w, u \in Elements(v.vclients) :
    /\ w # u /\ ~w.hidden /\ ~u.hidden /\ Happens
    /\ w.link # 0 \/ u.link # 0 => "join" \in Disturbances
    /\ v' = [v EXCEPT !.ports = Update(@, LAMBDA p : p.vclient = u.key, LAMBDA p : [p EXCEPT !.vclient = w.key]),
                      !.vclients = Without(@, LAMBDA x : x = u)]
    /\ UNCHANGED <<jack, bus, apps, excused>>

(***************************************************************************)
(* An app is removed once nothing of it is visible.                        *)
(***************************************************************************)
ClientOf(x, app) == SelectSeq(x.clients, LAMBDA c : c.app = app)

IsHiddenApp(x, app) ==
  ClientOf(x, app) # << >> =>
    LET c == Head(ClientOf(x, app))
    IN  /\ \A p \in Elements(ClientPorts(x, c.key)) : p.hidden
        /\ c.hidden
        /\ c.link # 0 => LooksEmpty(x, c.link)

\* The ASSERTs met with a client of which nothing is visible: without a virtual
\* client it has no ports, and the virtual client exists and is hidden.
FoundHidden(x, app) ==
  ClientOf(x, app) # << >> =>
    LET c == Head(ClientOf(x, app))
        IsLinked(w) == w.key = c.link
    IN  IF c.link = 0 THEN ClientPorts(x, c.key) = << >>
        ELSE Some(x.vclients, IsLinked) /\ First(x.vclients, IsLinked).hidden

Leaves(x, app) ==
  LET cs == ClientOf(x, app)
  IN  IF cs = << >> THEN [client |-> 0, link |-> 0]
      ELSE [client |-> Head(cs).key, link |-> Head(cs).link]

WithoutApp(x, app) ==
  LET key == Leaves(x, app).client
      link == Leaves(x, app).link
      Goes(p) == p.app = app \/ p.client = key
      Unlisted(p) == link # 0 /\ p.vclient = link
      gone == { p.key : p \in { p \in Elements(x.ports) : Goes(p) \/ Unlisted(p) } }
  IN  [x EXCEPT !.ports = Update(Without(@, Goes), Unlisted, LAMBDA p : [p EXCEPT !.vclient = 0]),
                !.conns = Without(@, LAMBDA k : k.ends \cap gone # {}),
                !.clients = Without(@, LAMBDA c : c.key = key),
                !.vclients = Without(@, LAMBDA w : link # 0 /\ w.key = link)]

\* Another client is linked to the virtual client of the app.
IsShared(x, app) ==
  \E c \in Elements(x.clients) : c.link # 0 /\ c.link = Leaves(x, app).link /\ c.key # Leaves(x, app).client

AppIsRemoved ==
  \E app \in apps :
    /\ IsHiddenApp(v, app) /\ Happens
    /\ IsShared(v, app) => "shared" \in Disturbances
    /\ v' = WithoutApp(Expect(v, FoundHidden(v, app)), app)
    /\ apps' = apps \ {app}
    /\ excused' = StillExcused(v', excused)
    /\ UNCHANGED <<jack, bus>>

-----------------------------------------------------------------------------
Jack ==
  \/ ClientEnters \/ PortEnters \/ PortLeaves \/ ClientLeaves
  \/ OthersConnect \/ OthersDisconnect \/ ServerStarts \/ ServerStops

Daemon == HandleSignal \/ Activate

User == UserConnects \/ UserDisconnects \/ UserJoinsClients \/ AppIsRemoved

Next == Jack \/ Daemon \/ User

Spec == Init /\ [][Next]_vars


-----------------------------------------------------------------------------
(***************************************************************************)
(* Types: keys are unique, ports are in clients that exist, connections    *)
(* join two ports that exist.                                              *)
(***************************************************************************)
Keys(list) == { x.key : x \in Elements(list) }

WellFormed ==
  /\ DOMAIN jack.clients \subseteq Clients /\ DOMAIN jack.ports \subseteq JackPorts
  /\ apps \subseteq Apps
  /\ v.count \in Nat
  /\ v.asked = {}
  /\ Cardinality(Keys(v.clients) \cup Keys(v.vclients) \cup Keys(v.ports))
       = Len(v.clients) + Len(v.vclients) + Len(v.ports)
  /\ \A p \in Elements(v.ports) : p.client \in Keys(v.clients) /\ p.vclient \in Keys(v.vclients) \cup {0}
  /\ \A k \in Elements(v.conns) : k.ends \subseteq Keys(v.ports) /\ Cardinality(k.ends) = 2

(***************************************************************************)
(* No ASSERT of the handlers fails: what is shown was hidden, what is      *)
(* hidden was visible, a client that is linked to a virtual client finds   *)
(* it; and no port or connection outlives what it is in.                   *)
(***************************************************************************)
AssertionsHold == WellFormed /\ ~v.failed

(***************************************************************************)
(* When the daemon has heard everything, both graphs show exactly what is  *)
(* in JACK: bound to the ids of the present clients and ports, each once;  *)
(* and a virtual client is visible exactly when one of its ports is.       *)
(***************************************************************************)
Quiet == v.running /\ bus = << >>
Bijects(list, ids) == Len(list) = Cardinality(ids) /\ { x.id : x \in Elements(list) } = ids

GraphsShowJack ==
  Quiet =>
    /\ Bijects(Visible(v.clients), Values(jack.clients))
    /\ Bijects(Visible(v.ports), Values(jack.ports))
    /\ Visible(v.ports) = SelectSeq(v.ports, LAMBDA p : ~p.vhidden)
    /\ { PairOf(v, k) : k \in Elements(Visible(v.conns)) } = jack.conns
    /\ Len(Visible(v.conns)) = Cardinality(jack.conns)
    /\ \A w \in Elements(v.vclients) : w.hidden <=> LooksEmpty(v, w.key)

(***************************************************************************)
(* The count the stop command waits for is that of the visible clients of  *)
(* apps, whatever happened to the apps and their clients since.            *)
(***************************************************************************)
CountExact ==
  v.running => v.count = Len(SelectSeq(v.clients, LAMBDA c : ~c.hidden /\ c.app # NoApp))

(***************************************************************************)
(* When all is quiet no connection waits for JACK, and those between       *)
(* visible ports are made, but for what another program cut or JACK        *)
(* refused.                                                                *)
(***************************************************************************)
ConnectionsRestored ==
  Quiet => \A k \in Elements(v.conns) :
             VisibleEnds(v, k) => ~k.changing /\ (k.hidden => k.ends \in excused)

=============================================================================
