---------------------------- MODULE MCTransports ----------------------------
(* Instances of Tcpcast, Udpcast, TipsDomain and ShmTransport for TLC.  A       *)
(* behaviour is one of the component that "running" names; the others rest in   *)
(* a state in which none of their actions that has to happen is enabled.        *)
EXTENDS Tcpcast, Udpcast, TipsDomain, ShmTransport, TLC

VARIABLE running

-----------------------------------------------------------------------------
(* Settings of Tcpcast. *)
TcAtRest == [rcv |-> {}, early |-> {}, tags |-> {}, minRecv |-> 1, wait |-> TRUE,
             stuck |-> {}, msgs |-> 0, conns |-> 0, drops |-> 0]
TcCases == <<
  \* a receiver stops reading, and the sender does not wait for it
  [TcAtRest EXCEPT !.rcv = {"r1", "r2"}, !.early = {"r1", "r2"}, !.tags = {"a"}, !.minRecv = 2,
                   !.wait = FALSE, !.stuck = {"r2"}, !.msgs = 3, !.conns = 2],
  \* attachments, over a connection that fails
  [TcAtRest EXCEPT !.rcv = {"r1"}, !.tags = {"b"}, !.msgs = 2, !.conns = 2, !.drops = 1],
  \* two tags, sent whether or not anyone is there
  [TcAtRest EXCEPT !.rcv = {"r1"}, !.tags = {"a", "b"}, !.minRecv = 0, !.msgs = 3, !.conns = 1] >>
TcInstances == {TcAtRest} \cup {TcCases[i] : i \in DOMAIN TcCases}

-----------------------------------------------------------------------------
(* Settings of Udpcast. *)
UdBase == [sizes |-> <<1, 2, 1, 1, 2>>, dests |-> <<"a", "b">>, adds |-> {}, hosts |-> {},
           ready |-> TRUE, refusals |-> 1, losses |-> 0, mtu |-> 3, room |-> 1,
           wanted |-> {1, 2, 4, 5}, late |-> {}]
UdAtRest == [UdBase EXCEPT !.sizes = <<>>, !.refusals = 0, !.wanted = {}]
UdCases == <<
  UdBase,
  \* the socket cannot be written at first
  [UdBase EXCEPT !.ready = FALSE, !.refusals = 0],
  \* a datagram is lost, a smaller receiver, a type subscribed to later
  [UdBase EXCEPT !.losses = 1, !.sizes = <<1, 2, 1, 1>>, !.wanted = {1, 2, 4}, !.late = {3},
                 !.hosts = {"a"}, !.dests = <<"a">>, !.refusals = 0, !.mtu = 2],
  \* a destination is added
  [UdBase EXCEPT !.dests = <<"b">>, !.adds = {"a"}, !.hosts = {"a"}, !.mtu = 2, !.room = 2] >>
UdInstances == {UdAtRest} \cup {UdCases[i] : i \in DOMAIN UdCases}

-----------------------------------------------------------------------------
(* Settings of TipsDomain. *)
TiBase ==
  [procs |-> {1, 2}, remote |-> {}, home |-> <<1, 2, 2>>, subs |-> <<{0}, {0}, {0}>>,
   on |-> {1, 2}, delayed |-> {}, ipc |-> TRUE, net |-> FALSE, pumps |-> 1,
   kind |-> [t \in TiTags |-> "shm"], via |-> [t \in TiTags |-> {"thread", "ipc", "net"}],
   try |-> FALSE, leave |-> {}, crash |-> {}, single |-> {}, say |-> {0}, pubs |-> <<1, 0, 0>>]
TiAtRest == [TiBase EXCEPT !.procs = {}, !.on = {}, !.pubs = <<0, 0, 0>>]
TiThree == [TiBase EXCEPT !.procs = {1, 2, 3}, !.home = <<1, 2, 3>>]
TiPlain == [t \in TiTags |-> "plain"]
TiCases == <<
  TiBase,
  \* nodes that come late, and a process that stops while messages are on their way
  [TiBase EXCEPT !.pubs = <<1, 1, 0>>, !.home[3] = 3],
  [TiBase EXCEPT !.pubs = <<2, 1, 0>>, !.home[3] = 3, !.on = {2}, !.subs = <<{}, {0}, {}>>, !.leave = {2}],
  \* three processes, one of them on another host
  [TiThree EXCEPT !.pubs[1] = 2, !.remote = {3}, !.on = {1, 2, 3}, !.net = TRUE],
  [TiThree EXCEPT !.pubs[1] = 3, !.remote = {3}, !.on = {2, 3}, !.subs = <<{}, {0}, {0}>>,
                  !.net = TRUE, !.try = TRUE],
  \* two tags, two pumps
  [TiBase EXCEPT !.pubs[1] = 2, !.on = {1, 2, 3}, !.say = {0, 1}, !.subs = <<{0}, {1}, {0, 1}>>,
                 !.kind = [t \in TiTags |-> IF t = 0 THEN "seg" ELSE "plain"], !.pumps = 2],
  \* a process dies; a SingleNodeDomain stops
  [TiThree EXCEPT !.on = {2, 3}, !.subs = <<{}, {0}, {0}>>, !.crash = {3}, !.single = {2}, !.leave = {2}],
  \* pumping starts after the nodes are added
  [TiBase EXCEPT !.pubs[1] = 2, !.delayed = {2}, !.home[3] = 3, !.kind = TiPlain, !.try = TRUE] >>
TiInstances == {TiAtRest} \cup {TiCases[i] : i \in DOMAIN TiCases}

-----------------------------------------------------------------------------
(* Settings of ShmTransport. *)
ShCase(own, exits, crashes, prompt) ==
  [own |-> own, exits |-> exits, crashes |-> crashes, prompt |-> prompt]
ShAtRest == ShCase(<<>>, {}, {}, FALSE)
ShInstances ==
  {ShAtRest,
   ShCase(<<0, 0, 0>>, {}, {}, TRUE), ShCase(<<1, -1, -1>>, {}, {}, TRUE),
   ShCase(<<0, 0, 0>>, {1, 2}, {}, FALSE), ShCase(<<0, 1>>, {}, {1}, FALSE)}

-----------------------------------------------------------------------------
Init ==
  /\ running \in {"tc", "ud", "ti", "sh"}
  /\ running = "tc" \/ tcSet = TcAtRest
  /\ TcInit
  /\ running = "ud" \/ udSet = UdAtRest
  /\ UdInit
  /\ running = "ti" \/ tiSet = TiAtRest
  /\ TiInit
  /\ running = "sh" \/ shSet = ShAtRest
  /\ ShInit

Next ==
  \/ running = "tc" /\ TcNext /\ UNCHANGED <<running, udVars, tiVars, shVars>>
  \/ running = "ud" /\ UdNext /\ UNCHANGED <<running, tcVars, tiVars, shVars>>
  \/ running = "ti" /\ TiNext /\ UNCHANGED <<running, tcVars, udVars, shVars>>
  \/ running = "sh" /\ ShNext /\ UNCHANGED <<running, tcVars, udVars, tiVars>>

Spec ==
  /\ Init /\ [][Next]_<<running, tcVars, udVars, tiVars, shVars>>
  /\ TcFairness /\ UdFairness /\ TiFairness /\ ShFairness

\* Where the transports lead to: what was sent arrives where it can, what travelled is
\* given back, and the processes that share memory are all up.
TransportGuarantees == <>[](TcSettled /\ UdSettled /\ TiSettled /\ ShSettled)
=============================================================================
