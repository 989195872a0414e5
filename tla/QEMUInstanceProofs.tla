-------------------------- MODULE QEMUInstanceProofs --------------------------
(***************************************************************************)
(* Proofs about QEMUInstance and the configurations it starts from         *)
(* (VMConfig), for any configurations and command lines, any observers,    *)
(* and connections and channels of any capacity.                           *)
(***************************************************************************)
EXTENDS QEMUInstance, SequenceTheorems, FiniteSetTheorems, TLAPS

AgentSteps == {"ga-gate", "ga-dial", "ga-sync", "ga-answer"}
ForceSteps == {"force", "grace", "kill", "reaping"}

\* The commands of each caller, and the steps at which it has none.
QMPCommands(p) ==
  IF p = "starter" THEN {"query-status", "query-vnc", "quit"}
  ELSE IF p = "shutdown" THEN {"system_powerdown"}
  ELSE IF p = "force" THEN {"quit"}
  ELSE IF p = "status" THEN {"query-status"}
  ELSE IF p = "collector" THEN {"query-status", "query-blockstats", "query-block"}
  ELSE {}
AgentCommands(p) ==
  IF p = "shutdown" THEN {"guest-shutdown"}
  ELSE IF p = "collector" THEN {"guest-info", "guest-get-time"}
  ELSE IF p = "ping" THEN {"guest-ping"}
  ELSE {}
OwnSteps(p) ==
  IF p = "starter" THEN {"idle", "secret", "fork", "connect", "adopt", "unsecret", "clean", "up",
                         "failed"} \cup ForceSteps
  ELSE IF p = "shutdown" THEN {"idle", "refused", "accepted"}
  ELSE IF p = "force" THEN {"idle", "forced"} \cup ForceSteps
  ELSE IF p = "collector" THEN {"idle", "events"}
  ELSE {"idle"}

Track(p) ==
  ({"gate", "reply"} \X QMPCommands(p)) \cup (AgentSteps \X AgentCommands(p))
    \cup (OwnSteps(p) \X {""})

\* Where callers can be.
Course ==
  /\ at \in [Callers -> UNION {Track(p) : p \in Callers}]
  /\ \A p \in Callers : at[p] \in Track(p)
  /\ late \in [Callers -> {"no", "agent", "all"}]

\* What is saved was validated.
Configured ==
  stored # None =>
    Valid(stored) /\ "usb" \in DOMAIN stored /\ stored.usb \in Seq(Selectors)

\* The commands that somebody waits for, and the replies that are on their way.
Asked   == {i \in DOMAIN pending : pending[i].by # "nobody"}
Replies == {i \in DOMAIN out : out[i].by # "event"}

\* What is written to the connection, and what is read from it.
Written == [by : Callers \cup {"nobody"}, command : UNION {QMPCommands(p) : p \in Callers}]
Unseen  == [by : Callers \cup {"event"}, ok : BOOLEAN]

\* The connection carries one command of the caller that holds its gate, or the reply to
\* it; what others left makes it unreadable.
Frames ==
  /\ pending \in Seq(Written) /\ out \in Seq(Unseen)
  /\ decoder \in {"good", "broken"}
  /\ gate \in Callers \cup {None} /\ \A p \in Callers : Step(p) = "reply" <=> gate = p
  /\ \A i \in Asked : gate = pending[i].by /\ pending[i].command = Command(pending[i].by)
  /\ \A i \in Replies : gate = out[i].by
  /\ \A i, j \in Asked : i = j
  /\ \A i, j \in Replies : i = j
  /\ Asked = {} \/ Replies = {}
  /\ decoder = "good" => Asked = DOMAIN pending
  /\ decoder = "broken" => out = <<>>

\* What a start has made, and what it has taken away again.
Starting ==
  /\ Step("starter") # "idle" => config.vnc \in BOOLEAN
  /\ Step("starter") \in {"idle", "secret", "up"} => secret = "absent"
  /\ Step("starter") = "secret" => config.vnc
  /\ Step("starter") \in {"fork", "connect", "adopt"} /\ ~config.vnc => secret = "absent"
  /\ Command("starter") = "query-status" /\ ~config.vnc => secret = "absent"
  /\ Step("starter") \in {"gate", "reply", "unsecret", "up"} => client # "none"
  /\ Step("starter") \in {"idle", "secret", "fork"} => reaper = "none"
  /\ Step("starter") \in {"clean", "failed"} => reaper \in {"none", "done"}
  /\ Step("starter") = "failed" => secret # "present"

\* The power button was not pressed for the shutdown request, or it was.
Unpressed == delivered \in {{}, {"unread"}}
Pressed   == delivered \in {{"powerdown"}, {"unread", "powerdown"}}

\* How far a shutdown request has reached the guest.
Asking ==
  /\ Step("shutdown") \in {"ga-gate", "ga-dial", "ga-sync"} => delivered = {}
  /\ Step("shutdown") = "gate" => Unpressed
  /\ Step("shutdown") = "ga-answer" => delivered = {"agent"}
  /\ \A i \in Asked : pending[i].by = "shutdown" => Unpressed
  /\ \A i \in Replies : out[i].by = "shutdown" /\ out[i].ok => Pressed
  /\ Step("shutdown") = "accepted" => delivered = {"agent"} \/ Pressed

\* The events not yet counted come before the answer to the status of the collector, and
\* are counted when that answer is read.
Counting ==
  /\ owed \in Nat
  /\ "collector" \in Callers =>
       /\ Command("collector") = "query-status" =>
            \A i \in Replies : out[i].by = "collector" => owed < i
       /\ Command("collector") \in {"query-blockstats", "query-block"} => owed = 0
       /\ Step("collector") = "events" => owed = 0

\* What is on the guest agent's channel.
Ids == [kind : {"sync", "shutdown", "command"}, session : {"this", "earlier"}]
Channel == requests \in Seq(Ids) /\ inbox \in Seq([id : Ids, ok : BOOLEAN])

\* The answer to a synchronisation is the last thing on the channel.
InOrder ==
  /\ \A i \in DOMAIN requests : requests[i] = mine => i = Len(requests)
  /\ \A i \in DOMAIN inbox : inbox[i].id = mine => i = Len(inbox) /\ requests = <<>>

\* One caller at a time is connected to the guest agent.  What an earlier session left behind
\* comes before the answer to the synchronisation, and after that there is nothing of it.
Connected(p) == Step(p) \in {"ga-dial", "ga-sync", "ga-answer"}
Session ==
  /\ \A p \in Callers : Connected(p) => qgaGate = p
  /\ (\A p \in Callers : Step(p) \notin {"ga-sync", "ga-answer"}) =>
       /\ mine = None /\ inbox = <<>>
       /\ \A i \in DOMAIN requests : requests[i].session = "earlier"
  /\ \A p \in Callers : Step(p) = "ga-sync" => mine = NewId("sync") /\ InOrder
  /\ SyncDiscardsStale

IInv ==
  Channel /\ Course /\ Configured /\ Frames /\ Starting /\ Asking /\ Counting /\ Session

-----------------------------------------------------------------------------
(* Configurations. *)

\* Two forwards collide only when both are of UDP, at different addresses.
LEMMA ForwardsApart ==
  ASSUME NEW c, ValidNetwork(c), NoPortConflicts(c),
         NEW i \in DOMAIN c.forwards, NEW j \in DOMAIN c.forwards, i # j,
         c.forwards[i].protocol = c.forwards[j].protocol,
         c.forwards[i].hostPort = c.forwards[j].hostPort,
         Overlap(c.forwards[i].address, c.forwards[j].address)
  PROVE  c.forwards[i].protocol = "udp" /\ c.forwards[i].address # c.forwards[j].address
<1>1. c.forwards[i].protocol # "tcp"
  <2>1. SUFFICES ASSUME c.forwards[i].protocol = "tcp" PROVE FALSE
    OBVIOUS
  <2>2. i \in TCPForwards(c) /\ j \in TCPForwards(c)
    BY <2>1 DEF TCPForwards
  <2>3. ~Takes(c.forwards[i], c.forwards[j].address, c.forwards[j].hostPort)
    BY <2>2 DEF NoPortConflicts
  <2> QED BY <2>3 DEF Takes, Overlap
<1>2. c.forwards[i].protocol \in {"tcp", "udp"}
  BY DEF ValidNetwork, WellFormedForward
<1> DEFINE tuple(n) ==
      <<c.forwards[n].protocol, c.forwards[n].address, c.forwards[n].hostPort>>
<1>3. IsInjective([n \in DOMAIN c.forwards |-> tuple(n)])
  BY DEF ValidNetwork
<1>4. tuple(i) # tuple(j)
  BY <1>3 DEF IsInjective
<1> QED BY <1>1, <1>2, <1>4

\* A forward collides with the metrics listener, or with a display of one port, never.
LEMMA ForwardsAlone ==
  ASSUME NEW c, NoPortConflicts(c), NEW i \in DOMAIN c.forwards,
         c.forwards[i].protocol = "tcp"
  PROVE  /\ c.metrics # 0 /\ c.forwards[i].hostPort = c.metrics
              => ~Overlap(Loopback, c.forwards[i].address)
         /\ FixedVNC(c) /\ c.forwards[i].hostPort = c.vnc.port
              => ~Overlap(c.vnc.bind, c.forwards[i].address)
<1>1. i \in TCPForwards(c)
  BY DEF TCPForwards
<1> QED BY <1>1 DEF NoPortConflicts, Takes

\* What a configuration listens on.
LEMMA ListenerKinds ==
  ASSUME NEW c, NEW l \in Listeners(c)
  PROVE  \/ \E i \in DOMAIN c.forwards :
              l = Listener(<<"forward", i>>, c.forwards[i].protocol, c.forwards[i].address,
                           c.forwards[i].hostPort, c.forwards[i].hostPort)
         \/ /\ c.vnc # None
            /\ l = Listener(<<"vnc", 0>>, "tcp", c.vnc.bind, c.vnc.port, c.vnc.portTo)
         \/ /\ c.metrics # 0
            /\ l = Listener(<<"metrics", 0>>, "tcp", Loopback, c.metrics, c.metrics)
BY DEF Listeners

\* Listeners of one port each collide only on the same port.
LEMMA SamePort ==
  ASSUME NEW k, NEW l, ~Ranged(k), ~Ranged(l), Collide(k, l)
  PROVE  k.first = l.first /\ k.protocol = l.protocol /\ Overlap(k.address, l.address)
BY DEF Collide, PortsOf

\* Who collides was overlooked.
LEMMA ListenersApart ==
  ASSUME NEW c, ValidNetwork(c), NoPortConflicts(c), NEW k \in Listeners(c),
         NEW l \in Listeners(c), k # l, Collide(k, l)
  PROVE  Overlooked(k, l)
<1> SUFFICES ASSUME ~Ranged(k), ~Ranged(l) PROVE Overlooked(k, l)
  BY DEF Overlooked
<1> DEFINE Forward(i) ==
             Listener(<<"forward", i>>, c.forwards[i].protocol, c.forwards[i].address,
                      c.forwards[i].hostPort, c.forwards[i].hostPort)
           VNC     == Listener(<<"vnc", 0>>, "tcp", c.vnc.bind, c.vnc.port, c.vnc.portTo)
           Metrics == Listener(<<"metrics", 0>>, "tcp", Loopback, c.metrics, c.metrics)
<1>0. k.first = l.first /\ k.protocol = l.protocol /\ Overlap(k.address, l.address)
  BY SamePort
<1>1. ASSUME NEW m \in Listeners(c), ~Ranged(m)
      PROVE  \/ \E i \in DOMAIN c.forwards : m = Forward(i)
             \/ FixedVNC(c) /\ m = VNC
             \/ c.metrics # 0 /\ m = Metrics
  BY <1>1, ListenerKinds DEF FixedVNC, Ranged, Listener
<1>2. \A a, b : Overlap(a, b) => Overlap(b, a)
  BY DEF Overlap
<1>3. ASSUME NEW i \in DOMAIN c.forwards, NEW a, NEW b,
             a \in {k, l}, b \in {k, l}, a = Forward(i),
             (FixedVNC(c) /\ b = VNC) \/ (c.metrics # 0 /\ b = Metrics)
      PROVE  FALSE
  <2>1. a.protocol = c.forwards[i].protocol /\ a.address = c.forwards[i].address
        /\ a.first = c.forwards[i].hostPort
    BY <1>3 DEF Listener
  <2>2. b.protocol = "tcp"
    BY <1>3 DEF Listener
  <2>3. a # b
    BY <1>3 DEF Listener
  <2>4. a.first = b.first /\ a.protocol = b.protocol /\ Overlap(b.address, a.address)
    BY <1>0, <1>2, <1>3, <2>3
  <2>5. CASE FixedVNC(c) /\ b = VNC
    <3>1. b.address = c.vnc.bind /\ b.first = c.vnc.port
      BY <2>5 DEF Listener
    <3> QED BY <2>1, <2>2, <2>4, <2>5, <3>1, ForwardsAlone
  <2>6. CASE c.metrics # 0 /\ b = Metrics
    <3>1. b.address = Loopback /\ b.first = c.metrics
      BY <2>6 DEF Listener
    <3> QED BY <2>1, <2>2, <2>4, <2>6, <3>1, ForwardsAlone
  <2> QED BY <1>3, <2>5, <2>6
<1>4. ASSUME FixedVNC(c), c.metrics # 0, {k, l} = {VNC, Metrics}
      PROVE  FALSE
  <2>1. VNC.first = c.vnc.port /\ VNC.address = c.vnc.bind
        /\ Metrics.first = c.metrics /\ Metrics.address = Loopback
    BY DEF Listener
  <2>2. (k = VNC /\ l = Metrics) \/ (k = Metrics /\ l = VNC)
    BY <1>4
  <2>3. c.metrics = c.vnc.port /\ Overlap(Loopback, c.vnc.bind)
    BY <1>0, <1>2, <2>1, <2>2
  <2> QED BY <1>4, <2>3 DEF NoPortConflicts
<1>5. CASE \E i, j \in DOMAIN c.forwards : k = Forward(i) /\ l = Forward(j)
  <2>1. PICK i, j \in DOMAIN c.forwards : k = Forward(i) /\ l = Forward(j)
    BY <1>5
  <2>2. /\ k.protocol = c.forwards[i].protocol /\ k.address = c.forwards[i].address
        /\ k.first = c.forwards[i].hostPort
        /\ l.protocol = c.forwards[j].protocol /\ l.address = c.forwards[j].address
        /\ l.first = c.forwards[j].hostPort
    BY <2>1 DEF Listener
  <2>3. i # j
    BY <2>1
  <2>4. /\ c.forwards[i].protocol = c.forwards[j].protocol
        /\ c.forwards[i].hostPort = c.forwards[j].hostPort
        /\ Overlap(c.forwards[i].address, c.forwards[j].address)
    BY <1>0, <2>2
  <2>5. c.forwards[i].protocol = "udp" /\ c.forwards[i].address # c.forwards[j].address
    BY <2>3, <2>4, ForwardsApart
  <2>6. k.protocol = "udp" /\ k.address # l.address
    BY <2>2, <2>5
  <2> QED BY <2>6 DEF Overlooked
<1>6. \/ \E i, j \in DOMAIN c.forwards : k = Forward(i) /\ l = Forward(j)
      \/ FixedVNC(c) /\ c.metrics # 0 /\ {k, l} = {VNC, Metrics}
      \/ \E i \in DOMAIN c.forwards, a, b \in {k, l} :
           a = Forward(i) /\ ((FixedVNC(c) /\ b = VNC) \/ (c.metrics # 0 /\ b = Metrics))
  <2>1. \/ \E i \in DOMAIN c.forwards : k = Forward(i)
        \/ FixedVNC(c) /\ k = VNC
        \/ c.metrics # 0 /\ k = Metrics
    BY <1>1
  <2>2. \/ \E i \in DOMAIN c.forwards : l = Forward(i)
        \/ FixedVNC(c) /\ l = VNC
        \/ c.metrics # 0 /\ l = Metrics
    BY <1>1
  <2> HIDE DEF Forward, VNC, Metrics
  <2> QED BY <2>1, <2>2
<1> HIDE DEF Forward, VNC, Metrics
<1> QED BY <1>3, <1>4, <1>5, <1>6

\* What Validate checks one after the other.
LEMMA ValidParts ==
  ASSUME NEW c, Valid(c)
  PROVE  /\ ValidStorage(c) /\ ValidNetwork(c) /\ NoPortConflicts(c) /\ ValidUSB(c)
         /\ c.extra \cap ManagerOwned = {}
BY DEF Valid

\* The options of a command line are all the manager's.
LEMMA OptionsOwned == ASSUME NEW c PROVE Options(c) \subseteq ManagerOwned
BY DEF Options, ManagerOwned

\* A configuration that Validate accepts is rendered, and its parts fit together.
LEMMA ValidFits ==
  ASSUME NEW c, Valid(c), c.usb \in Seq(Selectors)
  PROVE  \E command \in Render(c) : Fits(command)
<1>1. ~Unrenderable(c)
  BY ValidParts DEF ValidNetwork, Unrenderable
<1>3. RefersTo(c) \subseteq Defines(c)
  <2>1. (\E i \in DOMAIN c.usb : TRUE) => c.usb # <<>>
    OBVIOUS
  <2> QED BY <2>1 DEF RefersTo, Defines, USBController
<1>4. IsInjective(BootIndexes(c))
  BY ValidParts DEF ValidStorage
<1>5. USBPorts(c) <= 4
  <2>1. Len(c.usb) \in Nat /\ Len(c.usb) <= USBLimit(c.vnc)
    BY ValidParts, LenProperties DEF ValidUSB
  <2>2. CASE c.vnc = None
    BY <2>1, <2>2 DEF USBPorts, USBLimit
  <2>3. CASE c.vnc # None
    BY <2>1, <2>3 DEF USBPorts, USBLimit
  <2> QED BY <2>2, <2>3
<1>6. \A k, l \in Listeners(c) : k = l \/ Overlooked(k, l) \/ ~Collide(k, l)
  BY ValidParts, ListenersApart
<1>8. c.extra \cap Options(c) = {}
  BY ValidParts, OptionsOwned
<1> DEFINE path    == IF c.mode = "socket_vmnet" THEN "socket_vmnet_client" ELSE "qemu"
           command == [path |-> path, defines |-> Defines(c), refers |-> RefersTo(c),
                       boot |-> BootIndexes(c), usbPorts |-> USBPorts(c),
                       listeners |-> Listeners(c), options |-> Options(c),
                       extra |-> c.extra]
<1>2. Render(c) = {command}
  BY <1>1 DEF Render
<1>7. Fits(command)
  BY <1>3, <1>4, <1>5, <1>6, <1>8 DEF Fits
<1> QED BY <1>2, <1>7

\* Every command that saves a configuration saves one that was validated.
LEMMA ConfigureKeeps ==
  ASSUME Configured, Configure
  PROVE  Configured'
<1>1. ASSUME NEW f \in CreateFlags, Create(f) PROVE Configured'
  BY <1>1, ConfigAssumption DEF Create, Configured
<1>2. ASSUME NEW f \in SetFlags, Set(f) PROVE Configured'
  <2>1. stored' = Updated(stored, f) /\ Valid(stored') /\ stored # None
    BY <1>2 DEF Set
  <2>2. "usb" \in DOMAIN Updated(stored, f) /\ Updated(stored, f).usb = stored.usb
    BY <2>1 DEF Updated, Configured
  <2> QED BY <2>1, <2>2 DEF Configured
<1>3. ASSUME NEW r \in Replacements, Apply(r) PROVE Configured'
  BY <1>3, ConfigAssumption DEF Apply, Configured
<1>4. CASE Delete
  BY <1>4 DEF Delete, Configured
<1> QED BY <1>1, <1>2, <1>3, <1>4 DEF Configure

-----------------------------------------------------------------------------
(* The callers. *)

\* The step of a place.
LEMMA First == \A s, c : Idle(s)[1] = s /\ <<s, c>>[1] = s
BY DEF Idle

\* The command of a place.
LEMMA Second == \A s, c : Idle(s)[2] = "" /\ <<s, c>>[2] = c
BY DEF Idle

\* The three kinds of places.
LEMMA Places ==
  ASSUME NEW p, NEW s
  PROVE  /\ s \in OwnSteps(p) => Idle(s) \in Track(p)
         /\ s \in QMPCommands(p) => <<"gate", s>> \in Track(p) /\ <<"reply", s>> \in Track(p)
         /\ s \in AgentCommands(p) => \A step \in AgentSteps : <<step, s>> \in Track(p)
BY DEF Track, Idle

\* Where a caller goes once its command ended.
LEMMA AfterOnTrack ==
  ASSUME NEW p \in Callers, NEW command \in QMPCommands(p) \cup AgentCommands(p),
         NEW ok \in BOOLEAN
  PROVE  After(p, command, ok) \in Track(p) /\ After(p, command, ok)[1] # "reply"
<1> DEFINE next == After(p, command, ok)
<1>1. CASE p = "starter"
  <2>1. next \in {Idle("up"), Idle("unsecret"), Idle("force"), Idle("grace"), Idle("kill"),
                  <<"gate", "query-vnc">>}
    BY <1>1 DEF After, StarterNext
  <2>2. {"up", "unsecret", "force", "grace", "kill"} \subseteq OwnSteps(p)
        /\ "query-vnc" \in QMPCommands(p)
    BY <1>1 DEF OwnSteps, ForceSteps, QMPCommands
  <2>3. next \in Track(p)
    BY <2>1, <2>2, Places
  <2> HIDE DEF next
  <2>4. next[1] # "reply"
    BY <2>1, First
  <2> QED BY <2>3, <2>4 DEF next
<1>2. CASE p = "shutdown"
  <2>1. next \in {Idle("accepted"), Idle("refused"), <<"gate", "system_powerdown">>}
    BY <1>2 DEF After, ShutdownNext, QMPCommands, AgentCommands
  <2>2. {"accepted", "refused"} \subseteq OwnSteps(p) /\ "system_powerdown" \in QMPCommands(p)
    BY <1>2 DEF OwnSteps, QMPCommands
  <2>3. next \in Track(p)
    BY <2>1, <2>2, Places
  <2> HIDE DEF next
  <2>4. next[1] # "reply"
    BY <2>1, First
  <2> QED BY <2>3, <2>4 DEF next
<1>3. CASE p = "force"
  <2>1. next \in {Idle("grace"), Idle("kill")}
    BY <1>3 DEF After, QMPCommands, AgentCommands
  <2>2. {"grace", "kill"} \subseteq OwnSteps(p)
    BY <1>3 DEF OwnSteps, ForceSteps
  <2>3. next \in Track(p)
    BY <2>1, <2>2, Places
  <2> HIDE DEF next
  <2>4. next[1] # "reply"
    BY <2>1, First
  <2> QED BY <2>3, <2>4 DEF next
<1>4. CASE p = "collector"
  <2>1. next \in {Idle("idle"), Idle("events"), <<"gate", "query-blockstats">>,
                  <<"gate", "query-block">>, <<"ga-gate", "guest-get-time">>}
    BY <1>4 DEF After, CollectorNext, BlocksNext, QMPCommands, AgentCommands
  <2>2. /\ {"idle", "events"} \subseteq OwnSteps(p)
        /\ {"query-blockstats", "query-block"} \subseteq QMPCommands(p)
        /\ "guest-get-time" \in AgentCommands(p) /\ "ga-gate" \in AgentSteps
    BY <1>4 DEF OwnSteps, QMPCommands, AgentCommands, AgentSteps
  <2>3. next \in Track(p)
    BY <2>1, <2>2, Places
  <2> HIDE DEF next
  <2>4. next[1] # "reply"
    BY <2>1, First
  <2> QED BY <2>3, <2>4 DEF next
<1>5. CASE p \in {"status", "ping"}
  <2>1. next = Idle("idle")
    BY <1>5 DEF After, QMPCommands, AgentCommands
  <2>2. "idle" \in OwnSteps(p)
    BY <1>5 DEF OwnSteps
  <2>3. next \in Track(p)
    BY <2>1, <2>2, Places
  <2> HIDE DEF next
  <2>4. next[1] # "reply"
    BY <2>1, First
  <2> QED BY <2>3, <2>4 DEF next
<1> QED BY <1>1, <1>2, <1>3, <1>4, <1>5, InstanceAssumption DEF Callers

\* How a call begins.
LEMMA FirstOnTrack ==
  ASSUME NEW p \in Callers, p # "starter", NEW step \in FirstStep(p)
  PROVE  step \in Track(p) /\ step[1] \in {"gate", "ga-gate", "force"}
<1>1. ASSUME NEW command, step = <<"gate", command>>, command \in QMPCommands(p)
      PROVE  step \in Track(p) /\ step[1] = "gate"
  BY <1>1, Places
<1>2. ASSUME NEW command, step = <<"ga-gate", command>>, command \in AgentCommands(p)
      PROVE  step \in Track(p) /\ step[1] = "ga-gate"
  <2>1. "ga-gate" \in AgentSteps
    BY DEF AgentSteps
  <2> QED BY <1>2, <2>1, Places
<1>3. CASE p = "shutdown"
  <2>1. /\ step \in {<<"ga-gate", "guest-shutdown">>, <<"gate", "system_powerdown">>}
        /\ "guest-shutdown" \in AgentCommands(p) /\ "system_powerdown" \in QMPCommands(p)
    BY <1>3 DEF FirstStep, AgentCommands, QMPCommands
  <2> QED BY <1>1, <1>2, <2>1
<1>4. CASE p = "force"
  <2>1. step = Idle("force") /\ "force" \in OwnSteps(p)
    BY <1>4 DEF FirstStep, OwnSteps, ForceSteps
  <2>2. step \in Track(p)
    BY <2>1, Places
  <2> QED BY <2>1, <2>2 DEF Idle
<1>5. CASE p = "status"
  <2>1. step = <<"gate", "query-status">> /\ "query-status" \in QMPCommands(p)
    BY <1>5 DEF FirstStep, QMPCommands
  <2> QED BY <1>1, <2>1
<1>6. CASE p = "collector"
  <2>1. /\ step \in {<<"gate", "query-status">>, <<"ga-gate", "guest-info">>}
        /\ "query-status" \in QMPCommands(p) /\ "guest-info" \in AgentCommands(p)
    BY <1>6 DEF FirstStep, AgentCommands, QMPCommands
  <2> QED BY <1>1, <1>2, <2>1
<1>7. CASE p = "ping"
  <2>1. step = <<"ga-gate", "guest-ping">> /\ "guest-ping" \in AgentCommands(p)
    BY <1>7 DEF FirstStep, AgentCommands
  <2> QED BY <1>2, <2>1
<1> QED BY <1>3, <1>4, <1>5, <1>6, <1>7, InstanceAssumption DEF Callers

\* A caller with a command is at one of its own.
LEMMA OwnCommand ==
  ASSUME NEW p \in Callers, at[p] \in Track(p),
         Step(p) \in {"gate", "reply"} \cup AgentSteps
  PROVE  /\ Command(p) \in QMPCommands(p) \cup AgentCommands(p)
         /\ Step(p) \in {"gate", "reply"} => Command(p) \in QMPCommands(p)
         /\ Step(p) \in AgentSteps => Command(p) \in AgentCommands(p)
<1>1. \A s \in OwnSteps(p) : s \notin {"gate", "reply"} \cup AgentSteps
  BY DEF OwnSteps, AgentSteps, ForceSteps
<1>2. {"gate", "reply"} \cap AgentSteps = {}
  BY DEF AgentSteps
<1> QED BY <1>1, <1>2 DEF Step, Command, Track

\* A caller stays on its track when it goes to a place of it.
LEMMA GoOnTrack ==
  ASSUME Course, NEW p \in Callers, NEW where \in Track(p), Go(p, where)
  PROVE  Course'
<1>1. Track(p) \subseteq UNION {Track(q) : q \in Callers}
  OBVIOUS
<1>2. at' \in [Callers -> UNION {Track(q) : q \in Callers}]
  BY <1>1 DEF Course, Go
<1>3. late' \in [Callers -> {"no", "agent", "all"}]
  BY DEF Course, Go
<1>4. \A q \in Callers : at'[q] \in Track(q)
  BY DEF Course, Go
<1> QED BY <1>2, <1>3, <1>4 DEF Course

\* The places a start and a force go through.
LEMMA StartPlaces ==
  \A s \in {"idle", "secret", "fork", "connect", "adopt", "unsecret", "clean", "up", "failed",
            "force", "grace", "kill", "reaping"} : Idle(s) \in Track("starter")
<1>1. {"idle", "secret", "fork", "connect", "adopt", "unsecret", "clean", "up", "failed",
       "force", "grace", "kill", "reaping"} \subseteq OwnSteps("starter")
  BY DEF OwnSteps, ForceSteps
<1> QED BY <1>1, Places

LEMMA ForcePlaces ==
  ASSUME NEW p, at[p] \in Track(p), Step(p) \in ForceSteps
  PROVE  /\ p \in {"starter", "force"}
         /\ \A s \in ForceSteps : Idle(s) \in Track(p)
         /\ Forced(p) \in Track(p)
         /\ <<"gate", "quit">> \in Track(p)
<1>1. \A s \in AgentSteps \cup {"gate", "reply"} : s \notin ForceSteps
  BY DEF AgentSteps, ForceSteps
<1>2. Step(p) \in OwnSteps(p)
  BY <1>1 DEF Track, Step
<1>3. p \in {"starter", "force"}
  BY <1>2 DEF OwnSteps, ForceSteps
<1>4. ForceSteps \subseteq OwnSteps(p)
  BY <1>3 DEF OwnSteps
<1>5. (IF p = "starter" THEN "clean" ELSE "forced") \in OwnSteps(p)
  BY <1>3 DEF OwnSteps
<1>6. "quit" \in QMPCommands(p)
  BY <1>3 DEF QMPCommands
<1> QED BY <1>3, <1>4, <1>5, <1>6, Places DEF Forced

\* A command that ended brings its caller to a place of its own.
LEMMA EndOnTrack ==
  ASSUME Course, NEW p \in Callers, Step(p) \in {"gate", "reply"} \cup AgentSteps,
         NEW ok \in BOOLEAN, Go(p, After(p, Command(p), ok))
  PROVE  Course'
<1>1. at[p] \in Track(p)
  BY DEF Course
<1>2. After(p, Command(p), ok) \in Track(p)
  BY <1>1, OwnCommand, AfterOnTrack
<1> QED BY <1>2, GoOnTrack

\* Everyone may be idle.
LEMMA RestsOnTrack ==
  /\ [p \in Callers |-> Idle("idle")] \in [Callers -> UNION {Track(p) : p \in Callers}]
  /\ \A p \in Callers : [q \in Callers |-> Idle("idle")][p] \in Track(p)
<1>1. \A p \in Callers : "idle" \in OwnSteps(p)
  BY DEF OwnSteps
<1>2. \A p \in Callers : Idle("idle") \in Track(p)
  BY <1>1, Places
<1> QED BY <1>2

\* Callers stay on their tracks.
LEMMA NextCourse ==
  ASSUME Channel, Course, Frames, [Next]_vars
  PROVE  Course'
<1>0. Next \/ UNCHANGED vars
  OBVIOUS
<1>1. CASE ConfigureVM
  BY <1>1 DEF ConfigureVM, Course
<1>2. CASE Start
  <2>1. Go("starter", Idle("secret")) \/ Go("starter", Idle("fork"))
    BY <1>2 DEF Start
  <2> QED BY <2>1, StartPlaces, GoOnTrack DEF Callers
<1>3. CASE WriteSecret
  <2>1. Go("starter", Idle("fork")) \/ Go("starter", Idle("failed"))
    BY <1>3 DEF WriteSecret
  <2> QED BY <2>1, StartPlaces, GoOnTrack DEF Callers
<1>4. CASE Fork
  <2>1. Go("starter", Idle("connect")) \/ Go("starter", Idle("clean"))
    BY <1>4 DEF Fork
  <2> QED BY <2>1, StartPlaces, GoOnTrack DEF Callers
<1>5. CASE Connect
  <2>1. Go("starter", Idle("adopt")) \/ Go("starter", Idle("force"))
    BY <1>5 DEF Connect
  <2> QED BY <2>1, StartPlaces, GoOnTrack DEF Callers
<1>6. CASE Adopt
  <2>1. Go("starter", Idle("force")) \/ Go("starter", <<"gate", "query-status">>)
    BY <1>6 DEF Adopt
  <2>2. "query-status" \in QMPCommands("starter")
    BY DEF QMPCommands
  <2> QED BY <2>1, <2>2, Places, StartPlaces, GoOnTrack DEF Callers
<1>7. CASE RemoveSecret
  <2>1. Go("starter", Idle("up")) \/ Go("starter", Idle("force"))
    BY <1>7 DEF RemoveSecret
  <2> QED BY <2>1, StartPlaces, GoOnTrack DEF Callers
<1>8. CASE CleanSecret
  <2>1. Go("starter", Idle("failed"))
    BY <1>8 DEF CleanSecret
  <2> QED BY <2>1, StartPlaces, GoOnTrack DEF Callers
<1>9. CASE ReadCounters
  <2>1. "collector" \in Callers /\ Go("collector", Idle("idle"))
    BY <1>9 DEF ReadCounters
  <2>2. "idle" \in OwnSteps("collector")
    BY DEF OwnSteps
  <2> QED BY <2>1, <2>2, Places, GoOnTrack
<1>10. CASE ReapWaits
  BY <1>10 DEF ReapWaits, Course
<1>11. CASE ReapCloses
  BY <1>11 DEF ReapCloses, Course
<1>12. CASE End
  <2>1. /\ at' = [p \in Callers |-> Idle("idle")]
        /\ late' = [p \in Callers |-> "no"]
    BY <1>12 DEF End, Fresh
  <2> QED BY <2>1, RestsOnTrack DEF Course
<1>13. CASE QEMUExecutes
  BY <1>13 DEF QEMUExecutes, Course
<1>14. CASE QEMUEmits
  BY <1>14 DEF QEMUEmits, Course
<1>15. CASE QEMUExits
  BY <1>15 DEF QEMUExits, Course
<1>16. CASE AgentAnswers
  BY <1>16 DEF AgentAnswers, Course
<1>17. ASSUME NEW p \in Callers, LeaveGate(p)
      PROVE  Course'
  <2>1. Step(p) \in {"gate", "reply"} \cup AgentSteps /\ Go(p, After(p, Command(p), FALSE))
    BY <1>17 DEF LeaveGate, AgentSteps
  <2> QED BY <2>1, EndOnTrack
<1>18. ASSUME NEW p \in Callers, SendFails(p)
      PROVE  Course'
  <2>1. Step(p) \in {"gate", "reply"} \cup AgentSteps /\ Go(p, After(p, Command(p), FALSE))
    BY <1>18 DEF SendFails, AgentSteps
  <2> QED BY <2>1, EndOnTrack
<1>19. ASSUME NEW p \in Callers, Send(p)
      PROVE  Course'
  <2>1. Step(p) = "gate" /\ Go(p, <<"reply", Command(p)>>)
    BY <1>19 DEF Send
  <2>2. <<"reply", Command(p)>> \in Track(p)
    BY <2>1, OwnCommand, Places DEF Course
  <2> QED BY <2>1, <2>2, GoOnTrack
<1>20. ASSUME NEW p \in Callers, ReadEvent(p)
      PROVE  Course'
  BY <1>20 DEF ReadEvent, Course
<1>21. ASSUME NEW p \in Callers, ReadReply(p)
      PROVE  Course'
  <2>1. Head(out) \in Unseen
    BY <1>21, HeadTailProperties DEF ReadReply, Frames
  <2>2. Head(out).ok \in BOOLEAN
    BY <2>1 DEF Unseen
  <2>3. Step(p) = "reply" /\ Go(p, After(p, Command(p), Head(out).ok))
    BY <1>21 DEF ReadReply
  <2> QED BY <2>2, <2>3, EndOnTrack
<1>22. ASSUME NEW p \in Callers, GiveUp(p)
      PROVE  Course'
  <2>1. Step(p) \in {"gate", "reply"} \cup AgentSteps /\ Go(p, After(p, Command(p), FALSE))
    BY <1>22 DEF GiveUp, AgentSteps
  <2> QED BY <2>1, EndOnTrack
<1>23. ASSUME NEW p \in Callers, LeaveAgentGate(p)
      PROVE  Course'
  <2>1. Step(p) \in {"gate", "reply"} \cup AgentSteps /\ Go(p, After(p, Command(p), FALSE))
    BY <1>23 DEF LeaveAgentGate, AgentSteps
  <2> QED BY <2>1, EndOnTrack
<1>24. ASSUME NEW p \in Callers, EnterAgentGate(p)
      PROVE  Course'
  <2>1. Step(p) = "ga-gate" /\ Go(p, <<"ga-dial", Command(p)>>)
    BY <1>24 DEF EnterAgentGate
  <2>2. {"ga-gate", "ga-dial"} \subseteq AgentSteps
    BY DEF AgentSteps
  <2>3. <<"ga-dial", Command(p)>> \in Track(p)
    BY <2>1, <2>2, OwnCommand, Places DEF Course
  <2> QED BY <2>1, <2>3, GoOnTrack
<1>25. ASSUME NEW p \in Callers, Synchronize(p)
      PROVE  Course'
  <2>1. Step(p) = "ga-dial" /\ Go(p, <<"ga-sync", Command(p)>>)
    BY <1>25 DEF Synchronize
  <2>2. {"ga-dial", "ga-sync"} \subseteq AgentSteps
    BY DEF AgentSteps
  <2>3. <<"ga-sync", Command(p)>> \in Track(p)
    BY <2>1, <2>2, OwnCommand, Places DEF Course
  <2> QED BY <2>1, <2>3, GoOnTrack
<1>26. ASSUME NEW p \in Callers, Synchronized(p)
      PROVE  Course'
  <2>1. Step(p) = "ga-sync" /\ Go(p, <<"ga-answer", Command(p)>>)
    BY <1>26 DEF Synchronized
  <2>2. {"ga-sync", "ga-answer"} \subseteq AgentSteps
    BY DEF AgentSteps
  <2>3. <<"ga-answer", Command(p)>> \in Track(p)
    BY <2>1, <2>2, OwnCommand, Places DEF Course
  <2> QED BY <2>1, <2>3, GoOnTrack
<1>27. ASSUME NEW p \in Callers, Skip(p)
      PROVE  Course'
  BY <1>27 DEF Skip, Course
<1>28. ASSUME NEW p \in Callers, Answered(p)
      PROVE  Course'
  <2>3. Head(inbox) \in [id : Ids, ok : BOOLEAN]
    BY <1>28, HeadTailProperties DEF Answered, OwnAnswer, Channel
  <2>1. \E ok \in BOOLEAN : Go(p, After(p, Command(p), ok))
    BY <1>28, <2>3 DEF Answered, EndSession
  <2>2. Step(p) \in AgentSteps
    BY <1>28 DEF Answered, AgentSteps
  <2> QED BY <2>1, <2>2, EndOnTrack
<1>29. ASSUME NEW p \in Callers, SessionFails(p)
      PROVE  Course'
  <2>1. \E ok \in BOOLEAN : Go(p, After(p, Command(p), ok))
    BY <1>29 DEF SessionFails, EndSession
  <2>2. Step(p) \in AgentSteps
    BY <1>29 DEF SessionFails, AgentSteps
  <2> QED BY <2>1, <2>2, EndOnTrack
<1>30. ASSUME NEW p \in Callers, NoReply(p)
      PROVE  Course'
  <2>1. Go(p, After(p, Command(p), TRUE))
    BY <1>30 DEF NoReply, EndSession
  <2>2. Step(p) \in AgentSteps
    BY <1>30 DEF NoReply, AgentSteps
  <2> QED BY <2>1, <2>2, EndOnTrack
<1>31. ASSUME NEW p \in Callers, ForceStop(p)
      PROVE  Course'
  <2>1. Step(p) = "force" /\ (Go(p, Forced(p)) \/ Go(p, Idle("kill")) \/ Go(p, <<"gate", "quit">>))
    BY <1>31 DEF ForceStop
  <2>2. Step(p) \in ForceSteps /\ {"kill", "reaping"} \subseteq ForceSteps
    BY <2>1 DEF ForceSteps
  <2> QED BY <2>1, <2>2, ForcePlaces, GoOnTrack DEF Course
<1>32. ASSUME NEW p \in Callers, GraceEnds(p)
      PROVE  Course'
  <2>1. Step(p) = "grace" /\ (Go(p, Forced(p)) \/ Go(p, Idle("kill")))
    BY <1>32 DEF GraceEnds
  <2>2. Step(p) \in ForceSteps /\ {"kill", "reaping"} \subseteq ForceSteps
    BY <2>1 DEF ForceSteps
  <2> QED BY <2>1, <2>2, ForcePlaces, GoOnTrack DEF Course
<1>33. ASSUME NEW p \in Callers, Kill(p)
      PROVE  Course'
  <2>1. Step(p) = "kill" /\ (Go(p, Idle("reaping")))
    BY <1>33 DEF Kill
  <2>2. Step(p) \in ForceSteps /\ {"kill", "reaping"} \subseteq ForceSteps
    BY <2>1 DEF ForceSteps
  <2> QED BY <2>1, <2>2, ForcePlaces, GoOnTrack DEF Course
<1>34. ASSUME NEW p \in Callers, Reaped(p)
      PROVE  Course'
  <2>1. Step(p) = "reaping" /\ (Go(p, Forced(p)))
    BY <1>34 DEF Reaped
  <2>2. Step(p) \in ForceSteps /\ {"kill", "reaping"} \subseteq ForceSteps
    BY <2>1 DEF ForceSteps
  <2> QED BY <2>1, <2>2, ForcePlaces, GoOnTrack DEF Course
<1>35. ASSUME NEW p \in Callers, Call(p)
      PROVE  Course'
  <2>1. PICK step \in FirstStep(p) : p # "starter" /\ Go(p, step)
    BY <1>35 DEF Call
  <2> QED BY <2>1, FirstOnTrack, GoOnTrack
<1>36. ASSUME NEW p \in Callers, Expire(p)
      PROVE  Course'
  <2>1. late' \in [Callers -> {"no", "agent", "all"}] /\ at' = at
    BY <1>36 DEF Expire, Course
  <2> QED BY <2>1 DEF Course
<1>37. ASSUME NEW p \in Callers, Unreadable(p)
      PROVE  Course'
  <2>1. Step(p) \in AgentSteps /\ Go(p, After(p, Command(p), FALSE))
    BY <1>37 DEF Unreadable, EndSession, AgentSteps
  <2> QED BY <2>1, EndOnTrack
<1>38. CASE UNCHANGED vars
  BY <1>38 DEF vars, qmpVars, agentVars, Step, Command, Course
<1> QED BY <1>0, <1>1, <1>2, <1>3, <1>4, <1>5, <1>6, <1>7, <1>8, <1>9, <1>10, <1>11,
     <1>12, <1>13, <1>14, <1>15, <1>16, <1>17, <1>18, <1>19, <1>20, <1>21, <1>22, <1>23,
     <1>24, <1>25, <1>26, <1>27, <1>28, <1>29, <1>30, <1>31, <1>32, <1>33, <1>34, <1>35,
     <1>36, <1>37, <1>38 DEF Next, StartStep, ForceStep, QMPStep, AgentStep, Reap

\* What is saved stays good.
LEMMA NextConfigured ==
  ASSUME Course, Configured, [Next]_vars
  PROVE  Configured'
<1>0. Next \/ UNCHANGED vars
  OBVIOUS
<1>1. CASE ConfigureVM
  BY <1>1, ConfigureKeeps DEF ConfigureVM
<1>2. CASE Start
  BY <1>2 DEF Start, Configured
<1>3. CASE WriteSecret
  BY <1>3 DEF WriteSecret, Configured
<1>4. CASE Fork
  BY <1>4 DEF Fork, Configured
<1>5. CASE Connect
  BY <1>5 DEF Connect, Configured
<1>6. CASE Adopt
  BY <1>6 DEF Adopt, Configured
<1>7. CASE RemoveSecret
  BY <1>7 DEF RemoveSecret, Configured
<1>8. CASE CleanSecret
  BY <1>8 DEF CleanSecret, Configured
<1>9. CASE ReadCounters
  BY <1>9 DEF ReadCounters, Configured
<1>10. CASE ReapWaits
  BY <1>10 DEF ReapWaits, Configured
<1>11. CASE ReapCloses
  BY <1>11 DEF ReapCloses, Configured
<1>12. CASE End
  BY <1>12 DEF End, Configured
<1>13. CASE QEMUExecutes
  BY <1>13 DEF QEMUExecutes, Configured
<1>14. CASE QEMUEmits
  BY <1>14 DEF QEMUEmits, Configured
<1>15. CASE QEMUExits
  BY <1>15 DEF QEMUExits, Configured
<1>16. CASE AgentAnswers
  BY <1>16 DEF AgentAnswers, Configured
<1>17. ASSUME NEW p \in Callers, LeaveGate(p)
      PROVE  Configured'
  BY <1>17 DEF LeaveGate, Configured
<1>18. ASSUME NEW p \in Callers, SendFails(p)
      PROVE  Configured'
  BY <1>18 DEF SendFails, Configured
<1>19. ASSUME NEW p \in Callers, Send(p)
      PROVE  Configured'
  BY <1>19 DEF Send, Configured
<1>20. ASSUME NEW p \in Callers, ReadEvent(p)
      PROVE  Configured'
  BY <1>20 DEF ReadEvent, Configured
<1>21. ASSUME NEW p \in Callers, ReadReply(p)
      PROVE  Configured'
  BY <1>21 DEF ReadReply, Configured
<1>22. ASSUME NEW p \in Callers, GiveUp(p)
      PROVE  Configured'
  BY <1>22 DEF GiveUp, Configured
<1>23. ASSUME NEW p \in Callers, LeaveAgentGate(p)
      PROVE  Configured'
  BY <1>23 DEF LeaveAgentGate, Configured
<1>24. ASSUME NEW p \in Callers, EnterAgentGate(p)
      PROVE  Configured'
  BY <1>24 DEF EnterAgentGate, Configured
<1>25. ASSUME NEW p \in Callers, Synchronize(p)
      PROVE  Configured'
  BY <1>25 DEF Synchronize, Configured
<1>26. ASSUME NEW p \in Callers, Synchronized(p)
      PROVE  Configured'
  BY <1>26 DEF Synchronized, Configured
<1>27. ASSUME NEW p \in Callers, Skip(p)
      PROVE  Configured'
  BY <1>27 DEF Skip, Configured
<1>28. ASSUME NEW p \in Callers, Answered(p)
      PROVE  Configured'
  BY <1>28 DEF Answered, Configured
<1>29. ASSUME NEW p \in Callers, SessionFails(p)
      PROVE  Configured'
  BY <1>29 DEF SessionFails, Configured
<1>30. ASSUME NEW p \in Callers, NoReply(p)
      PROVE  Configured'
  BY <1>30 DEF NoReply, Configured
<1>31. ASSUME NEW p \in Callers, ForceStop(p)
      PROVE  Configured'
  BY <1>31 DEF ForceStop, Configured
<1>32. ASSUME NEW p \in Callers, GraceEnds(p)
      PROVE  Configured'
  BY <1>32 DEF GraceEnds, Configured
<1>33. ASSUME NEW p \in Callers, Kill(p)
      PROVE  Configured'
  BY <1>33 DEF Kill, Configured
<1>34. ASSUME NEW p \in Callers, Reaped(p)
      PROVE  Configured'
  BY <1>34 DEF Reaped, Configured
<1>35. ASSUME NEW p \in Callers, Call(p)
      PROVE  Configured'
  BY <1>35 DEF Call, Configured
<1>36. ASSUME NEW p \in Callers, Expire(p)
      PROVE  Configured'
  BY <1>36 DEF Expire, Configured
<1>37. ASSUME NEW p \in Callers, Unreadable(p)
      PROVE  Configured'
  BY <1>37 DEF Unreadable, Configured
<1>38. CASE UNCHANGED vars
  BY <1>38 DEF vars, qmpVars, agentVars, Step, Command, Configured
<1> QED BY <1>0, <1>1, <1>2, <1>3, <1>4, <1>5, <1>6, <1>7, <1>8, <1>9, <1>10, <1>11,
     <1>12, <1>13, <1>14, <1>15, <1>16, <1>17, <1>18, <1>19, <1>20, <1>21, <1>22, <1>23,
     <1>24, <1>25, <1>26, <1>27, <1>28, <1>29, <1>30, <1>31, <1>32, <1>33, <1>34, <1>35,
     <1>36, <1>37, <1>38 DEF Next, StartStep, ForceStep, QMPStep, AgentStep, Reap

-----------------------------------------------------------------------------
(* The guest agent's channel. *)

\* The requests of a session that ended are still requests.
LEMMA EndKeepsRequests ==
  ASSUME requests \in Seq(Ids)
  PROVE  [i \in DOMAIN requests |-> [requests[i] EXCEPT !.session = "earlier"]] \in Seq(Ids)
<1>1. \A i \in DOMAIN requests : [requests[i] EXCEPT !.session = "earlier"] \in Ids
  <2>1. \A i \in DOMAIN requests : requests[i] \in Ids
    BY ElementOfSeq, LenProperties
  <2> QED BY <2>1 DEF Ids
<1>2. Len(requests) \in Nat /\ DOMAIN requests = 1..Len(requests)
  BY LenProperties
<1> QED BY <1>1, <1>2, IsASeq

\* What is on the channel stays an identifier or an answer to one.
LEMMA NextChannel ==
  ASSUME Channel, [Next]_vars
  PROVE  Channel'
<1>0. Next \/ UNCHANGED vars
  OBVIOUS
<1>1. CASE ConfigureVM
  BY <1>1 DEF ConfigureVM, agentVars, Channel
<1>2. CASE Start
  BY <1>2 DEF Start, agentVars, Channel
<1>3. CASE WriteSecret
  BY <1>3 DEF WriteSecret, agentVars, Channel
<1>4. CASE Fork
  BY <1>4 DEF Fork, agentVars, Channel
<1>5. CASE Connect
  BY <1>5 DEF Connect, agentVars, Channel
<1>6. CASE Adopt
  BY <1>6 DEF Adopt, agentVars, Channel
<1>7. CASE RemoveSecret
  BY <1>7 DEF RemoveSecret, agentVars, Channel
<1>8. CASE CleanSecret
  BY <1>8 DEF CleanSecret, agentVars, Channel
<1>9. CASE ReadCounters
  BY <1>9 DEF ReadCounters, agentVars, Channel
<1>10. CASE ReapWaits
  BY <1>10 DEF ReapWaits, agentVars, Channel
<1>11. CASE ReapCloses
  BY <1>11 DEF ReapCloses, agentVars, Channel
<1>12. CASE End
  <2>1. requests' = <<>> /\ inbox' = <<>>
    BY <1>12 DEF End, Fresh
  <2> QED BY <2>1 DEF Channel
<1>13. CASE QEMUExecutes
  BY <1>13 DEF QEMUExecutes, agentVars, Channel
<1>14. CASE QEMUEmits
  BY <1>14 DEF QEMUEmits, agentVars, Channel
<1>15. CASE QEMUExits
  BY <1>15 DEF QEMUExits, agentVars, Channel
<1>16. CASE AgentAnswers
  <2>1. requests # <<>> /\ requests' = Tail(requests)
    BY <1>16 DEF AgentAnswers
  <2>2. requests' \in Seq(Ids) /\ Head(requests) \in Ids
    BY <2>1, HeadTailProperties DEF Channel
  <2>3. CASE inbox' = inbox
    BY <2>2, <2>3 DEF Channel
  <2>4. ASSUME NEW ok \in BOOLEAN, inbox' = Append(inbox, [id |-> Head(requests), ok |-> ok])
        PROVE  Channel'
    BY <2>2, <2>4, AppendProperties DEF Channel
  <2> QED BY <1>16, <2>3, <2>4 DEF AgentAnswers
<1>17. ASSUME NEW p \in Callers, LeaveGate(p)
      PROVE  Channel'
  BY <1>17 DEF LeaveGate, agentVars, Channel
<1>18. ASSUME NEW p \in Callers, SendFails(p)
      PROVE  Channel'
  BY <1>18 DEF SendFails, agentVars, Channel
<1>19. ASSUME NEW p \in Callers, Send(p)
      PROVE  Channel'
  BY <1>19 DEF Send, agentVars, Channel
<1>20. ASSUME NEW p \in Callers, ReadEvent(p)
      PROVE  Channel'
  BY <1>20 DEF ReadEvent, agentVars, Channel
<1>21. ASSUME NEW p \in Callers, ReadReply(p)
      PROVE  Channel'
  BY <1>21 DEF ReadReply, agentVars, Channel
<1>22. ASSUME NEW p \in Callers, GiveUp(p)
      PROVE  Channel'
  BY <1>22 DEF GiveUp, agentVars, Channel
<1>23. ASSUME NEW p \in Callers, LeaveAgentGate(p)
      PROVE  Channel'
  BY <1>23 DEF LeaveAgentGate, agentVars, Channel
<1>24. ASSUME NEW p \in Callers, EnterAgentGate(p)
      PROVE  Channel'
  BY <1>24 DEF EnterAgentGate, agentVars, Channel
<1>25. ASSUME NEW p \in Callers, Synchronize(p)
      PROVE  Channel'
  <2>1. NewId("sync") \in Ids
    BY DEF NewId, Ids
  <2>2. requests' = Append(requests, NewId("sync")) /\ inbox' = inbox
    BY <1>25 DEF Synchronize
  <2> QED BY <2>1, <2>2, AppendProperties DEF Channel
<1>26. ASSUME NEW p \in Callers, Synchronized(p)
      PROVE  Channel'
  <2>1. \A k \in {"shutdown", "command"} : NewId(k) \in Ids
    BY DEF NewId, Ids
  <2>2. \E id \in Ids : requests' = Append(requests, id)
    BY <1>26, <2>1 DEF Synchronized
  <2>3. inbox # <<>> /\ inbox' = Tail(inbox)
    BY <1>26 DEF Synchronized, OwnAnswer
  <2> QED BY <2>2, <2>3, AppendProperties, HeadTailProperties DEF Channel
<1>27. ASSUME NEW p \in Callers, Skip(p)
      PROVE  Channel'
  <2>1. inbox # <<>> /\ inbox' = Tail(inbox) /\ requests' = requests
    BY <1>27 DEF Skip
  <2> QED BY <2>1, HeadTailProperties DEF Channel
<1>28. ASSUME NEW p \in Callers, Answered(p)
      PROVE  Channel'
  <2>1. /\ requests' = [i \in DOMAIN requests |-> [requests[i] EXCEPT !.session = "earlier"]]
        /\ inbox' = <<>>
    BY <1>28 DEF Answered, EndSession
  <2>2. <<>> \in Seq([id : Ids, ok : BOOLEAN])
    OBVIOUS
  <2> QED BY <2>1, <2>2, EndKeepsRequests DEF Channel
<1>29. ASSUME NEW p \in Callers, SessionFails(p)
      PROVE  Channel'
  <2>1. /\ requests' = [i \in DOMAIN requests |-> [requests[i] EXCEPT !.session = "earlier"]]
        /\ inbox' = <<>>
    BY <1>29 DEF SessionFails, EndSession
  <2>2. <<>> \in Seq([id : Ids, ok : BOOLEAN])
    OBVIOUS
  <2> QED BY <2>1, <2>2, EndKeepsRequests DEF Channel
<1>30. ASSUME NEW p \in Callers, NoReply(p)
      PROVE  Channel'
  <2>1. /\ requests' = [i \in DOMAIN requests |-> [requests[i] EXCEPT !.session = "earlier"]]
        /\ inbox' = <<>>
    BY <1>30 DEF NoReply, EndSession
  <2>2. <<>> \in Seq([id : Ids, ok : BOOLEAN])
    OBVIOUS
  <2> QED BY <2>1, <2>2, EndKeepsRequests DEF Channel
<1>31. ASSUME NEW p \in Callers, ForceStop(p)
      PROVE  Channel'
  BY <1>31 DEF ForceStop, agentVars, Channel
<1>32. ASSUME NEW p \in Callers, GraceEnds(p)
      PROVE  Channel'
  BY <1>32 DEF GraceEnds, agentVars, Channel
<1>33. ASSUME NEW p \in Callers, Kill(p)
      PROVE  Channel'
  BY <1>33 DEF Kill, agentVars, Channel
<1>34. ASSUME NEW p \in Callers, Reaped(p)
      PROVE  Channel'
  BY <1>34 DEF Reaped, agentVars, Channel
<1>35. ASSUME NEW p \in Callers, Call(p)
      PROVE  Channel'
  BY <1>35 DEF Call, agentVars, Channel
<1>36. ASSUME NEW p \in Callers, Expire(p)
      PROVE  Channel'
  BY <1>36 DEF Expire, agentVars, Channel
<1>37. ASSUME NEW p \in Callers, Unreadable(p)
      PROVE  Channel'
  <2>1. /\ requests' = [i \in DOMAIN requests |-> [requests[i] EXCEPT !.session = "earlier"]]
        /\ inbox' = <<>>
    BY <1>37 DEF Unreadable, EndSession
  <2>2. <<>> \in Seq([id : Ids, ok : BOOLEAN])
    OBVIOUS
  <2> QED BY <2>1, <2>2, EndKeepsRequests DEF Channel
<1>38. CASE UNCHANGED vars
  BY <1>38 DEF vars, agentVars, Channel
<1> QED BY <1>0, <1>1, <1>2, <1>3, <1>4, <1>5, <1>6, <1>7, <1>8, <1>9, <1>10, <1>11,
     <1>12, <1>13, <1>14, <1>15, <1>16, <1>17, <1>18, <1>19, <1>20, <1>21, <1>22, <1>23,
     <1>24, <1>25, <1>26, <1>27, <1>28, <1>29, <1>30, <1>31, <1>32, <1>33, <1>34, <1>35,
     <1>36, <1>37, <1>38 DEF Next, StartStep, ForceStep, QMPStep, AgentStep, Reap

-----------------------------------------------------------------------------
(* The QMP connection. *)

\* Who goes somewhere leaves the others where they are.
LEMMA Moves ==
  ASSUME Course, NEW p \in Callers, NEW where, Go(p, where)
  PROVE  /\ Step(p)' = where[1] /\ Command(p)' = where[2]
         /\ \A q \in Callers \ {p} : Step(q)' = Step(q) /\ Command(q)' = Command(q)
BY DEF Course, Go, Step, Command

LEMMA Goes ==
  ASSUME Course, NEW p \in Callers
  PROVE  /\ \A s : Go(p, Idle(s)) => Step(p)' = s /\ Command(p)' = ""
         /\ \A s, c : Go(p, <<s, c>>) => Step(p)' = s /\ Command(p)' = c
<1>1. ASSUME NEW s, Go(p, Idle(s)) PROVE Step(p)' = s /\ Command(p)' = ""
  <2>1. Step(p)' = Idle(s)[1] /\ Command(p)' = Idle(s)[2]
    BY <1>1, Moves
  <2> QED BY <2>1, First, Second
<1>2. ASSUME NEW s, NEW c, Go(p, <<s, c>>) PROVE Step(p)' = s /\ Command(p)' = c
  <2>1. Step(p)' = <<s, c>>[1] /\ Command(p)' = <<s, c>>[2]
    BY <1>2, Moves
  <2> QED BY <2>1, First, Second
<1> QED BY <1>1, <1>2

\* No caller is called "nobody" or "event".
LEMMA Names == "nobody" \notin Callers /\ "event" \notin Callers /\ None \notin Callers
BY InstanceAssumption DEF Callers

\* A frame that is asked for, or a reply, belongs to a caller.
LEMMA FrameOf ==
  ASSUME Frames
  PROVE  /\ \A i \in DOMAIN pending :
              /\ pending[i].by \in Callers \cup {"nobody"}
              /\ pending[i] = [by |-> pending[i].by, command |-> pending[i].command]
         /\ \A i \in Asked : pending[i].by \in Callers /\ i \in DOMAIN pending
         /\ \A i \in DOMAIN out : out[i].by \in Callers \cup {"event"} /\ out[i].ok \in BOOLEAN
         /\ \A i \in Replies : out[i].by \in Callers /\ i \in DOMAIN out
<1>5. pending \in Seq(Written) /\ out \in Seq(Unseen)
  BY DEF Frames
<1>6. /\ \A i \in DOMAIN pending : pending[i] \in Written
      /\ \A i \in DOMAIN out : out[i] \in Unseen
  BY <1>5, LenProperties, ElementOfSeq
<1>3. \A i \in DOMAIN pending : pending[i].by \in Callers \cup {"nobody"}
                              /\ pending[i] = [by |-> pending[i].by, command |-> pending[i].command]
  BY <1>6 DEF Written
<1>4. \A i \in DOMAIN out : out[i].by \in Callers \cup {"event"} /\ out[i].ok \in BOOLEAN
  BY <1>6 DEF Unseen
<1> QED BY <1>3, <1>4 DEF Asked, Replies

\* What a caller does elsewhere leaves the connection as it was, also when QEMU is gone.
LEMMA FramesKeep ==
  ASSUME Course, Frames, NEW p \in Callers, NEW where, Go(p, where),
         Step(p) # "reply", where[1] # "reply",
         UNCHANGED <<gate, decoder, out>>, pending' = pending \/ pending' = <<>>
  PROVE  Frames'
<1>1. \A q \in Callers : Step(q)' = "reply" <=> gate' = q
  BY Moves DEF Frames
<1>2. CASE pending' = pending
  <2>1. Asked' = Asked /\ Replies' = Replies
    BY <1>2 DEF Asked, Replies
  <2>2. \A i \in Asked : pending[i].by \in Callers /\ pending[i].by # p
    BY FrameOf DEF Frames
  <2>3. \A i \in Asked : Command(pending[i].by)' = Command(pending[i].by)
    BY <1>2, <2>2, Moves
  <2> QED BY <1>1, <1>2, <2>1, <2>3 DEF Frames
<1>3. CASE pending' = <<>>
  <2>1. Asked' = {} /\ Replies' = Replies
    BY <1>3 DEF Asked, Replies
  <2> QED BY <1>1, <1>3, <2>1 DEF Frames
<1> QED BY <1>2, <1>3

\* A connection without a command and without replies.
LEMMA FramesNone ==
  ASSUME Frames, gate = None
  PROVE  Asked = {} /\ Replies = {}
BY FrameOf, Names DEF Frames

\* The end of a command that has no frame on the connection.
LEMMA FramesEnd ==
  ASSUME Course, Frames, NEW p \in Callers, Step(p) \in {"gate"} \cup AgentSteps,
         NEW ok \in BOOLEAN, Go(p, After(p, Command(p), ok)),
         UNCHANGED <<gate, decoder, pending, out>>
  PROVE  Frames'
<1>1. Step(p) # "reply" /\ Command(p) \in QMPCommands(p) \cup AgentCommands(p)
  BY OwnCommand DEF AgentSteps, Course
<1>2. After(p, Command(p), ok)[1] # "reply"
  BY <1>1, AfterOnTrack
<1> QED BY <1>1, <1>2, FramesKeep

\* Nobody moves, and the connection stays the same.
LEMMA SameFrames ==
  ASSUME Frames, UNCHANGED <<at, gate, decoder, pending, out>>
  PROVE  Frames'
<1>1. Asked' = Asked /\ Replies' = Replies
  BY DEF Asked, Replies
<1>2. \A p : Step(p)' = Step(p) /\ Command(p)' = Command(p)
  BY DEF Step, Command
<1> QED BY <1>1, <1>2 DEF Frames

\* QEMU emits an event, which is nobody's reply.
LEMMA Emitting ==
  ASSUME Frames, QEMUEmits
  PROVE  /\ Frames' /\ Asked' = Asked /\ pending' = pending
         /\ Replies' = Replies /\ \A i \in Replies : out'[i] = out[i]
<1>1. at' = at /\ UNCHANGED <<gate, decoder, pending>> /\ Asked' = Asked
  BY DEF QEMUEmits, Asked
<1>2. CASE out' = out
  <2>1. Replies' = Replies
    BY <1>2 DEF Replies
  <2> QED BY <1>1, <1>2, <2>1, SameFrames
<1>3. CASE decoder = "good" /\ out' = Append(out, [by |-> "event", ok |-> TRUE])
  <2>1. out \in Seq(Unseen) /\ [by |-> "event", ok |-> TRUE] \in Unseen
    BY DEF Frames, Unseen
  <2>2. out' \in Seq(Unseen)
    BY <1>3, <2>1, AppendProperties
  <2>3. Replies' = Replies /\ \A i \in Replies : out'[i] = out[i]
    <3>1. DOMAIN out' = DOMAIN out \cup {Len(out) + 1} /\ Len(out) + 1 \notin DOMAIN out
      BY <1>3, <2>1, LenProperties, AppendProperties
    <3>2. \A i \in DOMAIN out : out'[i] = out[i]
      BY <1>3, <2>1, LenProperties, AppendProperties
    <3>3. out'[Len(out) + 1].by = "event"
      BY <1>3, <2>1, AppendProperties
    <3> QED BY <3>1, <3>2, <3>3 DEF Replies
  <2>4. Frames'
    BY <1>1, <1>3, <2>2, <2>3 DEF Frames, Step, Command
  <2> QED BY <1>1, <2>3, <2>4
<1> QED BY <1>2, <1>3 DEF QEMUEmits, Put

\* A command is written to a connection that carries none.
LEMMA Sending ==
  ASSUME Course, Frames, NEW p \in Callers, Send(p)
  PROVE  /\ Frames'
         /\ \A i \in Asked' : pending'[i] = [by |-> p, command |-> Command(p)]
         /\ Replies' = {}
<1>1. /\ Step(p) = "gate" /\ gate = None /\ gate' = p /\ out' = out /\ decoder' = decoder
      /\ Go(p, <<"reply", Command(p)>>)
      /\ pending' = Append(pending, [by |-> p, command |-> Command(p)])
  BY DEF Send
<1>2. Asked = {} /\ Replies = {}
  BY <1>1, FramesNone
<1>3. Command(p) \in QMPCommands(p)
  BY <1>1, OwnCommand DEF Course
<1>4. pending \in Seq(Written) /\ [by |-> p, command |-> Command(p)] \in Written
  BY <1>3 DEF Frames, Written
<1>5. /\ pending' \in Seq(Written) /\ Len(pending) \in Nat
      /\ DOMAIN pending' = DOMAIN pending \cup {Len(pending) + 1}
      /\ Len(pending) + 1 \notin DOMAIN pending
      /\ \A i \in DOMAIN pending : pending'[i] = pending[i]
      /\ pending'[Len(pending) + 1] = [by |-> p, command |-> Command(p)]
  BY <1>1, <1>4, LenProperties, AppendProperties
<1>6. pending'[Len(pending) + 1].by = p /\ pending'[Len(pending) + 1].command = Command(p)
  BY <1>5
<1>7. Asked' = {Len(pending) + 1}
  <2>1. \A i \in DOMAIN pending : pending'[i].by = "nobody"
    BY <1>2, <1>5 DEF Asked
  <2>2. pending'[Len(pending) + 1].by # "nobody"
    BY <1>6, Names
  <2> QED BY <1>5, <2>1, <2>2 DEF Asked
<1>8. Replies' = {}
  BY <1>1, <1>2 DEF Replies
<1>9. Step(p)' = "reply" /\ Command(p)' = Command(p) /\ \A q \in Callers \ {p} : Step(q)' = Step(q)
  BY <1>1, Moves, First
<1>10. \A q \in Callers : Step(q)' = "reply" <=> gate' = q
  BY <1>1, <1>9, Names DEF Frames
<1>11. decoder = "good" => DOMAIN pending = {}
  BY <1>2 DEF Frames
<1>12. Frames'
  BY <1>1, <1>5, <1>6, <1>7, <1>8, <1>9, <1>10, <1>11 DEF Frames
<1> QED BY <1>5, <1>7, <1>8, <1>12

\* An event is read: the replies come one place nearer.
LEMMA ReadingEvent ==
  ASSUME Frames, NEW p \in Callers, ReadEvent(p)
  PROVE  /\ Frames'
         /\ Asked' = Asked /\ pending' = pending
         /\ Replies \subseteq Nat \ {0, 1}
         /\ \A i \in Replies' : i \in Nat /\ i + 1 \in Replies /\ out'[i] = out[i + 1]
<1>1. /\ decoder = "good" /\ out # <<>> /\ Head(out).by = "event" /\ out' = Tail(out)
      /\ UNCHANGED <<at, gate, decoder, pending>>
  BY DEF ReadEvent
<1>2. /\ out \in Seq(Unseen) /\ out' \in Seq(Unseen) /\ Head(out) = out[1]
      /\ Len(out) \in Nat /\ DOMAIN out = 1..Len(out) /\ DOMAIN out' = 1..(Len(out) - 1)
      /\ \A i \in DOMAIN out' : out'[i] = out[i + 1]
  BY <1>1, LenProperties, HeadTailProperties DEF Frames
<1>3. /\ Replies \subseteq Nat \ {0, 1}
      /\ \A i \in Replies' : i \in Nat /\ i + 1 \in Replies /\ out'[i] = out[i + 1]
  BY <1>1, <1>2 DEF Replies
<1>4. Asked' = Asked
  BY <1>1 DEF Asked
<1>5. \A i, j \in Replies' : i = j
  <2>1. \A i, j \in Replies' : i + 1 = j + 1
    BY <1>3 DEF Frames
  <2> QED BY <1>3, <2>1
<1>6. Asked' = {} \/ Replies' = {}
  BY <1>3, <1>4 DEF Frames
<1>7. \A i \in Replies' : gate = out'[i].by
  BY <1>3 DEF Frames
<1>8. \A q : Step(q)' = Step(q) /\ Command(q)' = Command(q)
  BY <1>1 DEF Step, Command
<1>9. Frames'
  BY <1>1, <1>2, <1>4, <1>5, <1>6, <1>7, <1>8 DEF Frames
<1> QED BY <1>1, <1>3, <1>4, <1>9

\* The end of a command leaves nothing that anybody waits for.
LEMMA FramesReleased ==
  ASSUME Course, Frames, NEW p \in Callers, Step(p) = "reply", NEW ok \in BOOLEAN,
         Go(p, After(p, Command(p), ok)), gate' = None, Asked' = {}, Replies' = {},
         pending' \in Seq(Written), out' \in Seq(Unseen), decoder' \in {"good", "broken"},
         decoder' = "good" => pending' = <<>>, decoder' = "broken" => out' = <<>>
  PROVE  Frames'
<1>1. Command(p) \in QMPCommands(p) \cup AgentCommands(p)
  BY OwnCommand DEF Course
<1>2. After(p, Command(p), ok)[1] # "reply"
  BY <1>1, AfterOnTrack
<1>3. \A q \in Callers : Step(q)' # "reply"
  BY <1>2, Moves DEF Frames
<1> QED BY <1>3, Names DEF Frames

\* The reply is read, which leaves the connection empty.
LEMMA ReadingReply ==
  ASSUME Course, Frames, NEW p \in Callers, ReadReply(p)
  PROVE  /\ Frames'
         /\ 1 \in Replies /\ out[1].by = p /\ out[1] = Head(out) /\ out[1].ok \in BOOLEAN
         /\ Asked' = {} /\ Replies' = {}
<1>1. /\ Step(p) = "reply" /\ decoder = "good" /\ out # <<>> /\ Head(out).by = p
      /\ out' = Tail(out) /\ gate' = None /\ UNCHANGED <<decoder, pending>>
      /\ Go(p, After(p, Command(p), Head(out).ok))
  BY DEF ReadReply, Release
<1>2. /\ out \in Seq(Unseen) /\ out' \in Seq(Unseen) /\ Head(out) = out[1]
      /\ Len(out) \in Nat /\ DOMAIN out = 1..Len(out) /\ DOMAIN out' = 1..(Len(out) - 1)
      /\ \A i \in DOMAIN out' : out'[i] = out[i + 1]
      /\ 1 \in DOMAIN out
  BY <1>1, LenProperties, HeadTailProperties, EmptySeq DEF Frames
<1>3. 1 \in Replies /\ out[1].by = p /\ out[1] = Head(out) /\ out[1].ok \in BOOLEAN
  BY <1>1, <1>2, FrameOf, Names DEF Replies
<1>4. Asked' = {} /\ pending' = <<>>
  <2>1. Asked = {}
    BY <1>3 DEF Frames
  <2>2. pending \in Seq(Written) /\ DOMAIN pending = {}
    BY <1>1, <2>1 DEF Frames
  <2>3. pending = <<>>
    BY <2>2, LenProperties, EmptySeq
  <2> QED BY <1>1, <2>3 DEF Asked
<1>5. Replies' = {}
  <2>1. \A i \in Replies : i = 1
    BY <1>3 DEF Frames
  <2>2. ASSUME NEW i \in Replies' PROVE FALSE
    <3>1. i \in DOMAIN out' /\ out'[i].by # "event"
      BY <2>2 DEF Replies
    <3>2. i + 1 \in DOMAIN out /\ out[i + 1].by # "event" /\ i + 1 # 1
      BY <1>2, <3>1
    <3> QED BY <2>1, <3>2 DEF Replies
  <2> QED BY <2>2
<1>6. <<>> \in Seq(Written)
  OBVIOUS
<1> QED BY <1>1, <1>2, <1>3, <1>4, <1>5, <1>6, FramesReleased DEF Frames

\* Nobody waits any more for what a caller abandoned.
LEMMA Abandoning ==
  ASSUME Frames, NEW p \in Callers, gate = p
  PROVE  /\ Abandon(pending, p) \in Seq(Written)
         /\ \A i \in DOMAIN Abandon(pending, p) : Abandon(pending, p)[i].by = "nobody"
<1> DEFINE F(i) == IF pending[i].by = p THEN [pending[i] EXCEPT !.by = "nobody"] ELSE pending[i]
<1>1. \A i \in DOMAIN pending : pending[i] \in Written
  BY LenProperties, ElementOfSeq DEF Frames
<1>2. \A i \in DOMAIN pending : F(i) \in Written
  BY <1>1 DEF Written
<1>3. \A i \in DOMAIN pending : pending[i].by \in {p, "nobody"}
  BY DEF Frames, Asked
<1>4. \A i \in DOMAIN pending : F(i).by = "nobody"
  BY <1>1, <1>3 DEF Written
<1>5. Len(pending) \in Nat /\ DOMAIN pending = 1..Len(pending)
  BY LenProperties DEF Frames
<1>6. Abandon(pending, p) = [i \in DOMAIN pending |-> F(i)]
  BY DEF Abandon
<1> HIDE DEF F
<1>7. [i \in DOMAIN pending |-> F(i)] \in Seq(Written)
  BY <1>2, <1>5, IsASeq
<1> QED BY <1>4, <1>6, <1>7

LEMMA GivingUp ==
  ASSUME Course, Frames, NEW p \in Callers, GiveUp(p)
  PROVE  Frames' /\ Asked' = {} /\ Replies' = {}
<1>1. /\ Step(p) = "reply" /\ decoder' = "broken" /\ out' = <<>> /\ gate' = None
      /\ pending' = Abandon(pending, p) /\ Go(p, After(p, Command(p), FALSE))
  BY DEF GiveUp, Release
<1>2. gate = p
  BY <1>1 DEF Frames
<1>3. pending' \in Seq(Written) /\ Asked' = {}
  BY <1>1, <1>2, Abandoning DEF Asked
<1>4. Replies' = {} /\ <<>> \in Seq(Unseen)
  BY <1>1 DEF Replies
<1> QED BY <1>1, <1>3, <1>4, FramesReleased

\* QEMU executes the only command that anybody waits for, or one that nobody does.
LEMMA Executing ==
  ASSUME Frames, QEMUExecutes
  PROVE  /\ Frames'
         /\ 1 \in DOMAIN pending /\ Head(pending) = pending[1]
         /\ \A i \in Asked' : i + 1 \in Asked /\ pending'[i] = pending[i + 1]
         /\ 1 \in Asked => Asked' = {}
         /\ Replies' # {} => /\ 1 \in Asked /\ Replies' = {Len(out) + 1}
                             /\ out'[Len(out) + 1].by = pending[1].by
<1>1. /\ pending # <<>> /\ pending' = Tail(pending) /\ UNCHANGED <<at, gate, decoder>>
      /\ \E ok \in BOOLEAN : Put([by |-> Head(pending).by, ok |-> ok])
  BY DEF QEMUExecutes
<1>2. /\ pending \in Seq(Written) /\ pending' \in Seq(Written) /\ Head(pending) = pending[1]
      /\ Len(pending) \in Nat /\ DOMAIN pending = 1..Len(pending)
      /\ DOMAIN pending' = 1..(Len(pending) - 1) /\ 1 \in DOMAIN pending
      /\ \A i \in DOMAIN pending' : pending'[i] = pending[i + 1]
  BY <1>1, LenProperties, HeadTailProperties, EmptySeq DEF Frames
<1>3. \A i \in Asked' : i \in Nat /\ i # 0 /\ i + 1 \in Asked /\ pending'[i] = pending[i + 1]
  BY <1>2 DEF Asked
<1>4. \A q : Step(q)' = Step(q) /\ Command(q)' = Command(q)
  BY <1>1 DEF Step, Command
<1>5. \A i, j \in Asked' : i = j
  <2>1. \A i, j \in Asked' : i + 1 = j + 1
    BY <1>3 DEF Frames
  <2> QED BY <1>3, <2>1
<1>6. \A i \in Asked' : gate = pending'[i].by /\ pending'[i].command = Command(pending'[i].by)
  BY <1>3 DEF Frames
<1>9. 1 \in Asked => Asked' = {}
  <2>1. 1 \in Asked => \A i \in Asked : i = 1
    BY DEF Frames
  <2> QED BY <1>3, <2>1
<1>7. CASE decoder = "broken"
  <2>1. out = <<>> /\ out' = out
    BY <1>1, <1>7 DEF Put, Frames
  <2>2. Replies' = {}
    BY <2>1 DEF Replies
  <2>3. Frames'
    BY <1>1, <1>2, <1>4, <1>5, <1>6, <1>7, <2>1, <2>2 DEF Frames
  <2> QED BY <1>2, <1>3, <1>9, <2>2, <2>3
<1>8. CASE decoder = "good"
  <2>1. PICK ok \in BOOLEAN : out' = Append(out, [by |-> pending[1].by, ok |-> ok])
    BY <1>1, <1>2, <1>8 DEF Put
  <2>2. 1 \in Asked /\ Replies = {} /\ gate = pending[1].by /\ pending[1].by \in Callers
    BY <1>2, <1>8, FrameOf DEF Frames
  <2>3. out \in Seq(Unseen) /\ [by |-> pending[1].by, ok |-> ok] \in Unseen
    BY <2>2 DEF Frames, Unseen
  <2>4. /\ out' \in Seq(Unseen) /\ Len(out) \in Nat
        /\ DOMAIN out' = DOMAIN out \cup {Len(out) + 1}
        /\ \A i \in DOMAIN out : out'[i] = out[i]
        /\ out'[Len(out) + 1] = [by |-> pending[1].by, ok |-> ok]
    BY <2>1, <2>3, LenProperties, AppendProperties
  <2>5. out'[Len(out) + 1].by = pending[1].by
    BY <2>4
  <2>6. Replies' = {Len(out) + 1}
    <3>1. \A i \in DOMAIN out : out'[i].by = "event"
      BY <2>2, <2>4 DEF Replies
    <3>2. out'[Len(out) + 1].by # "event"
      BY <2>2, <2>5, Names
    <3> QED BY <2>4, <3>1, <3>2 DEF Replies
  <2>7. Asked' = {}
    <3>1. \A i \in Asked : i = 1
      BY <2>2 DEF Frames
    <3> QED BY <1>3, <3>1
  <2>8. DOMAIN pending' = {}
    BY <1>2, <1>8, <2>7 DEF Asked, Frames
  <2>9. Frames'
    BY <1>1, <1>2, <1>4, <1>8, <2>2, <2>4, <2>5, <2>6, <2>7, <2>8 DEF Frames
  <2> QED BY <1>2, <1>9, <2>2, <2>5, <2>6, <2>7, <2>9
<1> QED BY <1>7, <1>8 DEF Frames

\* The connection carries one command at a time.
LEMMA NextFrames ==
  ASSUME Channel, Course, Frames, [Next]_vars
  PROVE  Frames'
<1>0. Next \/ UNCHANGED vars
  OBVIOUS
<1>1. CASE ConfigureVM
  BY <1>1, SameFrames DEF ConfigureVM, qmpVars
<1>2. CASE Start
  <2>1. Step("starter") = "idle" /\ (Go("starter", Idle("secret")) \/ Go("starter", Idle("fork")))
    BY <1>2 DEF Start
  <2>2. UNCHANGED <<gate, decoder, pending, out>>
    BY <1>2 DEF Start, qmpVars
  <2> QED BY <2>1, <2>2, First, FramesKeep DEF Callers
<1>3. CASE WriteSecret
  <2>1. Step("starter") = "secret" /\ (Go("starter", Idle("fork")) \/ Go("starter", Idle("failed")))
    BY <1>3 DEF WriteSecret
  <2>2. UNCHANGED <<gate, decoder, pending, out>>
    BY <1>3 DEF WriteSecret, qmpVars
  <2> QED BY <2>1, <2>2, First, FramesKeep DEF Callers
<1>4. CASE Fork
  <2>1. Step("starter") = "fork" /\ (Go("starter", Idle("connect")) \/ Go("starter", Idle("clean")))
    BY <1>4 DEF Fork
  <2>2. UNCHANGED <<gate, decoder, pending, out>>
    BY <1>4 DEF Fork, qmpVars
  <2> QED BY <2>1, <2>2, First, FramesKeep DEF Callers
<1>5. CASE Connect
  <2>1. /\ Step("starter") = "connect"
        /\ Go("starter", Idle("adopt")) \/ Go("starter", Idle("force"))
    BY <1>5 DEF Connect
  <2>2. UNCHANGED <<gate, decoder, pending, out>>
    BY <1>5 DEF Connect, qmpVars
  <2> QED BY <2>1, <2>2, First, FramesKeep DEF Callers
<1>6. CASE Adopt
  <2>1. /\ Step("starter") = "adopt" /\ UNCHANGED <<gate, decoder, pending, out>>
        /\ Go("starter", Idle("force")) \/ Go("starter", <<"gate", "query-status">>)
    BY <1>6 DEF Adopt
  <2> QED BY <2>1, First, FramesKeep DEF Callers
<1>7. CASE RemoveSecret
  <2>1. Step("starter") = "unsecret" /\ (Go("starter", Idle("up")) \/ Go("starter", Idle("force")))
    BY <1>7 DEF RemoveSecret
  <2>2. UNCHANGED <<gate, decoder, pending, out>>
    BY <1>7 DEF RemoveSecret, qmpVars
  <2> QED BY <2>1, <2>2, First, FramesKeep DEF Callers
<1>8. CASE CleanSecret
  <2>1. Step("starter") = "clean" /\ (Go("starter", Idle("failed")))
    BY <1>8 DEF CleanSecret
  <2>2. UNCHANGED <<gate, decoder, pending, out>>
    BY <1>8 DEF CleanSecret, qmpVars
  <2> QED BY <2>1, <2>2, First, FramesKeep DEF Callers
<1>9. CASE ReadCounters
  <2>1. /\ "collector" \in Callers /\ Step("collector") = "events"
        /\ Go("collector", Idle("idle")) /\ UNCHANGED <<gate, decoder, pending, out>>
    BY <1>9 DEF ReadCounters, qmpVars
  <2> QED BY <2>1, First, FramesKeep
<1>10. CASE ReapWaits
  BY <1>10, SameFrames DEF ReapWaits, qmpVars
<1>11. CASE ReapCloses
  BY <1>11, SameFrames DEF ReapCloses, qmpVars
<1>12. CASE End
  <2>1. /\ at' = [p \in Callers |-> Idle("idle")] /\ gate' = None /\ decoder' = "good"
        /\ pending' = <<>> /\ out' = <<>>
    BY <1>12 DEF End, Fresh
  <2>2. \A p \in Callers : Step(p)' # "reply"
    BY <2>1, First DEF Step
  <2>3. Asked' = {} /\ Replies' = {}
    BY <2>1 DEF Asked, Replies
  <2> QED BY <2>1, <2>2, <2>3, Names DEF Frames
<1>13. CASE QEMUExecutes
  BY <1>13, Executing
<1>14. CASE QEMUEmits
  BY <1>14, Emitting
<1>15. CASE QEMUExits
  <2>1. at' = at /\ pending' = <<>> /\ UNCHANGED <<gate, decoder, out>>
    BY <1>15 DEF QEMUExits
  <2>2. Asked' = {} /\ Replies' = Replies
    BY <2>1 DEF Asked, Replies
  <2> QED BY <2>1, <2>2 DEF Frames, Step
<1>16. CASE AgentAnswers
  BY <1>16, SameFrames DEF AgentAnswers, qmpVars
<1>17. ASSUME NEW p \in Callers, LeaveGate(p)
      PROVE  Frames'
  <2>1. /\ Step(p) \in {"gate"} \cup AgentSteps /\ Go(p, After(p, Command(p), FALSE))
        /\ UNCHANGED <<gate, decoder, pending, out>>
    BY <1>17 DEF LeaveGate, AgentSteps, qmpVars
  <2> QED BY <2>1, FramesEnd
<1>18. ASSUME NEW p \in Callers, SendFails(p)
      PROVE  Frames'
  <2>1. /\ Step(p) \in {"gate"} \cup AgentSteps /\ Go(p, After(p, Command(p), FALSE))
        /\ UNCHANGED <<gate, decoder, pending, out>>
    BY <1>18 DEF SendFails, AgentSteps, qmpVars
  <2> QED BY <2>1, FramesEnd
<1>19. ASSUME NEW p \in Callers, Send(p)
      PROVE  Frames'
  BY <1>19, Sending
<1>20. ASSUME NEW p \in Callers, ReadEvent(p)
      PROVE  Frames'
  BY <1>20, ReadingEvent
<1>21. ASSUME NEW p \in Callers, ReadReply(p)
      PROVE  Frames'
  BY <1>21, ReadingReply
<1>22. ASSUME NEW p \in Callers, GiveUp(p)
      PROVE  Frames'
  BY <1>22, GivingUp
<1>23. ASSUME NEW p \in Callers, LeaveAgentGate(p)
      PROVE  Frames'
  <2>1. /\ Step(p) \in {"gate"} \cup AgentSteps /\ Go(p, After(p, Command(p), FALSE))
        /\ UNCHANGED <<gate, decoder, pending, out>>
    BY <1>23 DEF LeaveAgentGate, AgentSteps, qmpVars
  <2> QED BY <2>1, FramesEnd
<1>24. ASSUME NEW p \in Callers, EnterAgentGate(p)
      PROVE  Frames'
  <2>1. /\ Step(p) = "ga-gate" /\ Go(p, <<"ga-dial", Command(p)>>)
        /\ UNCHANGED <<gate, decoder, pending, out>>
    BY <1>24 DEF EnterAgentGate, qmpVars
  <2> QED BY <2>1, First, FramesKeep
<1>25. ASSUME NEW p \in Callers, Synchronize(p)
      PROVE  Frames'
  <2>1. /\ Step(p) = "ga-dial" /\ Go(p, <<"ga-sync", Command(p)>>)
        /\ UNCHANGED <<gate, decoder, pending, out>>
    BY <1>25 DEF Synchronize, qmpVars
  <2> QED BY <2>1, First, FramesKeep
<1>26. ASSUME NEW p \in Callers, Synchronized(p)
      PROVE  Frames'
  <2>1. /\ Step(p) = "ga-sync" /\ Go(p, <<"ga-answer", Command(p)>>)
        /\ UNCHANGED <<gate, decoder, pending, out>>
    BY <1>26 DEF Synchronized, qmpVars
  <2> QED BY <2>1, First, FramesKeep
<1>27. ASSUME NEW p \in Callers, Skip(p)
      PROVE  Frames'
  BY <1>27, SameFrames DEF Skip, qmpVars
<1>28. ASSUME NEW p \in Callers, Answered(p)
      PROVE  Frames'
  <2>1. Head(inbox) \in [id : Ids, ok : BOOLEAN]
    BY <1>28, HeadTailProperties DEF Answered, OwnAnswer, Channel
  <2>2. /\ Step(p) \in {"gate"} \cup AgentSteps
        /\ \E ok \in BOOLEAN : Go(p, After(p, Command(p), ok))
        /\ UNCHANGED <<gate, decoder, pending, out>>
    BY <1>28, <2>1 DEF Answered, EndSession, AgentSteps, qmpVars
  <2> QED BY <2>2, FramesEnd
<1>29. ASSUME NEW p \in Callers, SessionFails(p)
      PROVE  Frames'
  <2>1. /\ Step(p) \in {"gate"} \cup AgentSteps
        /\ \E ok \in BOOLEAN : Go(p, After(p, Command(p), ok))
        /\ UNCHANGED <<gate, decoder, pending, out>>
    BY <1>29 DEF SessionFails, EndSession, AgentSteps, qmpVars
  <2> QED BY <2>1, FramesEnd
<1>30. ASSUME NEW p \in Callers, NoReply(p)
      PROVE  Frames'
  <2>1. /\ Step(p) \in {"gate"} \cup AgentSteps /\ Go(p, After(p, Command(p), TRUE))
        /\ UNCHANGED <<gate, decoder, pending, out>>
    BY <1>30 DEF NoReply, EndSession, AgentSteps, qmpVars
  <2> QED BY <2>1, FramesEnd
<1>31. ASSUME NEW p \in Callers, ForceStop(p)
      PROVE  Frames'
  <2>1. /\ Step(p) = "force"
        /\ Go(p, Forced(p)) \/ Go(p, Idle("kill")) \/ Go(p, <<"gate", "quit">>)
        /\ UNCHANGED <<gate, decoder, pending, out>>
    BY <1>31 DEF ForceStop, qmpVars
  <2>2. Forced(p)[1] # "reply"
    BY First DEF Forced
  <2> QED BY <2>1, <2>2, First, FramesKeep
<1>32. ASSUME NEW p \in Callers, GraceEnds(p)
      PROVE  Frames'
  <2>1. /\ Step(p) = "grace" /\ (Go(p, Forced(p)) \/ Go(p, Idle("kill")))
        /\ UNCHANGED <<gate, decoder, pending, out>>
    BY <1>32 DEF GraceEnds, qmpVars
  <2>2. Forced(p)[1] # "reply"
    BY First DEF Forced
  <2> QED BY <2>1, <2>2, First, FramesKeep
<1>33. ASSUME NEW p \in Callers, Kill(p)
      PROVE  Frames'
  <2>1. /\ Step(p) = "kill" /\ (Go(p, Idle("reaping")))
        /\ UNCHANGED <<gate, decoder, out>> /\ pending' = <<>>
    BY <1>33 DEF Kill, qmpVars
  <2>2. Forced(p)[1] # "reply"
    BY First DEF Forced
  <2> QED BY <2>1, <2>2, First, FramesKeep
<1>34. ASSUME NEW p \in Callers, Reaped(p)
      PROVE  Frames'
  <2>1. /\ Step(p) = "reaping" /\ (Go(p, Forced(p)))
        /\ UNCHANGED <<gate, decoder, pending, out>>
    BY <1>34 DEF Reaped, qmpVars
  <2>2. Forced(p)[1] # "reply"
    BY First DEF Forced
  <2> QED BY <2>1, <2>2, First, FramesKeep
<1>35. ASSUME NEW p \in Callers, Call(p)
      PROVE  Frames'
  <2>1. /\ p # "starter" /\ Step(p) # "reply" /\ UNCHANGED <<gate, decoder, pending, out>>
        /\ \E step \in FirstStep(p) : Go(p, step)
    BY <1>35 DEF Call, qmpVars
  <2>2. PICK step \in FirstStep(p) : Go(p, step)
    BY <2>1
  <2>3. step[1] # "reply"
    BY <2>1, FirstOnTrack
  <2> QED BY <2>1, <2>2, <2>3, FramesKeep
<1>36. ASSUME NEW p \in Callers, Expire(p)
      PROVE  Frames'
  BY <1>36, SameFrames DEF Expire, qmpVars
<1>37. ASSUME NEW p \in Callers, Unreadable(p)
      PROVE  Frames'
  <2>1. /\ Step(p) \in {"gate"} \cup AgentSteps /\ Go(p, After(p, Command(p), FALSE))
        /\ UNCHANGED <<gate, decoder, pending, out>>
    BY <1>37 DEF Unreadable, EndSession, AgentSteps, qmpVars
  <2> QED BY <2>1, FramesEnd
<1>38. CASE UNCHANGED vars
  BY <1>38, SameFrames DEF vars, qmpVars
<1> QED BY <1>0, <1>1, <1>2, <1>3, <1>4, <1>5, <1>6, <1>7, <1>8, <1>9, <1>10, <1>11,
     <1>12, <1>13, <1>14, <1>15, <1>16, <1>17, <1>18, <1>19, <1>20, <1>21, <1>22, <1>23,
     <1>24, <1>25, <1>26, <1>27, <1>28, <1>29, <1>30, <1>31, <1>32, <1>33, <1>34, <1>35,
     <1>36, <1>37, <1>38 DEF Next, StartStep, ForceStep, QMPStep, AgentStep, Reap

-----------------------------------------------------------------------------
(* Start. *)

\* A start that is where it was, with what it was.
LEMMA StartingStays ==
  ASSUME Starting, UNCHANGED <<config, secret, reaper, client>>,
         Step("starter")' = Step("starter"), Command("starter")' = Command("starter")
  PROVE  Starting'
BY DEF Starting

\* Somebody else goes somewhere.
LEMMA StartingAway ==
  ASSUME Course, Starting, NEW p \in Callers, p # "starter", NEW where, Go(p, where),
         UNCHANGED <<config, secret, reaper, client>>
  PROVE  Starting'
BY Moves, StartingStays DEF Callers

\* A command of the start ended: the next check, the end of the start, or its undoing.
LEMMA StartingEnds ==
  ASSUME Course, Starting, NEW p \in Callers, Step(p) \in {"gate", "reply"} \cup AgentSteps,
         NEW ok \in BOOLEAN, Go(p, After(p, Command(p), ok)),
         UNCHANGED <<config, secret, reaper, client>>
  PROVE  Starting'
<1>1. CASE p # "starter"
  BY <1>1, StartingAway
<1>2. CASE p = "starter"
  <2> DEFINE next == After(p, Command(p), ok)
  <2>1. Command(p) \in {"query-status", "query-vnc", "quit"} /\ Step(p) \in {"gate", "reply"}
    <3>1. Command(p) \in QMPCommands(p) \cup AgentCommands(p) /\ at[p] \in Track(p)
      BY OwnCommand DEF Course
    <3>2. AgentCommands(p) = {} /\ QMPCommands(p) = {"query-status", "query-vnc", "quit"}
      BY <1>2 DEF AgentCommands, QMPCommands
    <3>3. Step(p) \notin AgentSteps
      BY <3>1, <3>2, OwnCommand
    <3> QED BY <3>1, <3>2, <3>3
  <2>2. Step(p) # "idle" /\ config.vnc \in BOOLEAN /\ client # "none"
    BY <1>2, <2>1 DEF Starting
  <2>3. \/ next \in {Idle("force"), Idle("grace"), Idle("kill"), Idle("unsecret"),
                     <<"gate", "query-vnc">>}
        \/ next = Idle("up") /\ Command(p) = "query-status" /\ ~config.vnc
    BY <1>2, <2>1, <2>2 DEF After, StarterNext
  <2> HIDE DEF next
  <2>4. Step(p)' = next[1] /\ Command(p)' = next[2]
    BY Moves DEF next
  <2>5. CASE next = Idle("up") /\ Command(p) = "query-status" /\ ~config.vnc
    <3>1. Step(p)' = "up" /\ Command(p)' = "" /\ secret = "absent"
      BY <1>2, <2>4, <2>5 DEF Idle, Starting
    <3> QED BY <1>2, <2>2, <3>1 DEF Starting
  <2>6. CASE next \in {Idle("force"), Idle("grace"), Idle("kill"), Idle("unsecret"),
                       <<"gate", "query-vnc">>}
    <3>2. next[1] \in {"force", "grace", "kill", "unsecret", "gate"}
      BY <2>6, First
    <3>3. next[2] \in {"", "query-vnc"}
      BY <2>6, Second
    <3>1. /\ Step(p)' \in {"force", "grace", "kill", "unsecret", "gate"}
          /\ Command(p)' \in {"", "query-vnc"}
      BY <2>4, <3>2, <3>3
    <3> QED BY <1>2, <2>2, <3>1 DEF Starting
  <2> QED BY <2>3, <2>5, <2>6
<1> QED BY <1>1, <1>2

\* Only a caller that may ask the guest agent is at a step of a session.
LEMMA AgentCaller ==
  ASSUME Course, NEW p \in Callers, Step(p) \in AgentSteps
  PROVE  /\ Command(p) \in AgentCommands(p) /\ p \in {"shutdown", "collector", "ping"}
         /\ p = "shutdown" => Command(p) = "guest-shutdown"
         /\ p = "collector" => Command(p) \in {"guest-info", "guest-get-time"}
<1>1. Command(p) \in AgentCommands(p)
  BY OwnCommand DEF Course
<1> QED BY <1>1 DEF AgentCommands

\* A start leaves nothing behind.
LEMMA NextStarting ==
  ASSUME Channel, Course, Frames, Starting, [Next]_vars
  PROVE  Starting'
<1>0. Next \/ UNCHANGED vars
  OBVIOUS
<1>1. CASE ConfigureVM
  BY <1>1 DEF ConfigureVM, Step, Command, qmpVars, Starting
<1>2. CASE Start
  <2>1. /\ Step("starter") = "idle" /\ UNCHANGED <<secret, reaper, client>>
        /\ config' = [agent |-> stored.agent, vnc |-> stored.vnc # None]
        /\ Go("starter", Idle(IF stored.vnc # None THEN "secret" ELSE "fork"))
    BY <1>2 DEF Start, qmpVars
  <2>2. config'.vnc = (stored.vnc # None)
    BY <2>1
  <2>3. /\ Step("starter")' = IF stored.vnc # None THEN "secret" ELSE "fork"
        /\ Command("starter")' = ""
    BY <2>1, Goes DEF Callers
  <2>4. secret' = "absent" /\ reaper' = "none"
    BY <2>1 DEF Starting
  <2>5. CASE stored.vnc # None
    <3>1. Step("starter")' = "secret" /\ config'.vnc = TRUE
      BY <2>2, <2>3, <2>5
    <3> QED BY <2>3, <2>4, <3>1 DEF Starting
  <2>6. CASE stored.vnc = None
    <3>1. Step("starter")' = "fork" /\ config'.vnc = FALSE
      BY <2>2, <2>3, <2>6
    <3> QED BY <2>3, <2>4, <3>1 DEF Starting
  <2> QED BY <2>5, <2>6
<1>3. CASE WriteSecret
  <2>1. Step("starter") = "secret" /\ UNCHANGED <<config, client>>
    BY <1>3 DEF WriteSecret, qmpVars
  <2>2. \/ Go("starter", Idle("fork")) /\ reaper' = reaper
        \/ Go("starter", Idle("failed")) /\ reaper' = reaper /\ secret' = secret
    BY <1>3 DEF WriteSecret
  <2>3. \A s : Go("starter", Idle(s)) => Step("starter")' = s /\ Command("starter")' = ""
    BY Goes DEF Callers
  <2>4. \/ Step("starter")' = "fork" /\ Command("starter")' = "" /\ reaper' = reaper
        \/ /\ Step("starter")' = "failed" /\ Command("starter")' = ""
           /\ reaper' = reaper /\ secret' = secret
    BY <2>2, <2>3
  <2> QED BY <2>1, <2>4 DEF Starting
<1>4. CASE Fork
  <2>1. Step("starter") = "fork" /\ UNCHANGED <<config, client>>
    BY <1>4 DEF Fork, qmpVars
  <2>2. \/ Go("starter", Idle("connect")) /\ secret' = secret
        \/ Go("starter", Idle("clean")) /\ reaper' = reaper
    BY <1>4 DEF Fork
  <2>3. \A s : Go("starter", Idle(s)) => Step("starter")' = s /\ Command("starter")' = ""
    BY Goes DEF Callers
  <2>4. \/ Step("starter")' = "connect" /\ Command("starter")' = "" /\ secret' = secret
        \/ Step("starter")' = "clean" /\ Command("starter")' = "" /\ reaper' = reaper
    BY <2>2, <2>3
  <2> QED BY <2>1, <2>4 DEF Starting
<1>5. CASE Connect
  <2>1. Step("starter") = "connect" /\ UNCHANGED <<config, client>>
    BY <1>5 DEF Connect, qmpVars
  <2>2. \/ Go("starter", Idle("adopt")) /\ secret' = secret
        \/ Go("starter", Idle("force")) /\ reaper' = reaper
    BY <1>5 DEF Connect
  <2>3. \A s : Go("starter", Idle(s)) => Step("starter")' = s /\ Command("starter")' = ""
    BY Goes DEF Callers
  <2>4. \/ Step("starter")' = "adopt" /\ Command("starter")' = "" /\ secret' = secret
        \/ Step("starter")' = "force" /\ Command("starter")' = "" /\ reaper' = reaper
    BY <2>2, <2>3
  <2> QED BY <2>1, <2>4 DEF Starting
<1>6. CASE Adopt
  <2>1. /\ Step("starter") = "adopt" /\ UNCHANGED <<config, secret, reaper>>
        /\ \/ Go("starter", Idle("force")) /\ UNCHANGED client
           \/ Go("starter", <<"gate", "query-status">>) /\ client' = "open"
    BY <1>6 DEF Adopt
  <2>2. CASE Go("starter", Idle("force")) /\ UNCHANGED client
    <3>1. Step("starter")' = "force" /\ Command("starter")' = ""
      BY <2>2, Goes DEF Callers
    <3> QED BY <2>1, <2>2, <3>1 DEF Starting
  <2>3. CASE Go("starter", <<"gate", "query-status">>) /\ client' = "open"
    <3>1. Step("starter")' = "gate" /\ Command("starter")' = "query-status"
      BY <2>3, Goes DEF Callers
    <3> QED BY <2>1, <2>3, <3>1 DEF Starting
  <2> QED BY <2>1, <2>2, <2>3
<1>7. CASE RemoveSecret
  <2>1. Step("starter") = "unsecret" /\ UNCHANGED <<config, client>>
    BY <1>7 DEF RemoveSecret, qmpVars
  <2>2. \/ Go("starter", Idle("up")) /\ secret' = "absent"
        \/ Go("starter", Idle("force")) /\ reaper' = reaper
    BY <1>7 DEF RemoveSecret
  <2>3. \A s : Go("starter", Idle(s)) => Step("starter")' = s /\ Command("starter")' = ""
    BY Goes DEF Callers
  <2>4. \/ Step("starter")' = "up" /\ Command("starter")' = "" /\ secret' = "absent"
        \/ Step("starter")' = "force" /\ Command("starter")' = "" /\ reaper' = reaper
    BY <2>2, <2>3
  <2> QED BY <2>1, <2>4 DEF Starting
<1>8. CASE CleanSecret
  <2>1. Step("starter") = "clean" /\ UNCHANGED <<config, client>>
    BY <1>8 DEF CleanSecret, qmpVars
  <2>2. \/ Go("starter", Idle("failed")) /\ reaper' = reaper /\ secret' # "present"
    BY <1>8 DEF CleanSecret
  <2>3. \A s : Go("starter", Idle(s)) => Step("starter")' = s /\ Command("starter")' = ""
    BY Goes DEF Callers
  <2>4. \/ /\ Step("starter")' = "failed" /\ Command("starter")' = ""
           /\ reaper' = reaper /\ secret' # "present"
    BY <2>2, <2>3
  <2> QED BY <2>1, <2>4 DEF Starting
<1>9. CASE ReadCounters
  <2>1. /\ "collector" \in Callers /\ Go("collector", Idle("idle"))
        /\ UNCHANGED <<config, secret, reaper, client>>
    BY <1>9 DEF ReadCounters, qmpVars
  <2> QED BY <2>1, StartingAway
<1>10. CASE ReapWaits
  BY <1>10 DEF ReapWaits, Step, Command, qmpVars, Starting
<1>11. CASE ReapCloses
  BY <1>11 DEF ReapCloses, Step, Command, qmpVars, Starting
<1>12. CASE End
  <2>1. /\ at' = [p \in Callers |-> Idle("idle")] /\ secret' = "absent" /\ reaper' = "none"
    BY <1>12 DEF End, Fresh
  <2>2. Step("starter")' = "idle" /\ Command("starter")' = ""
    BY <2>1, First, Second DEF Step, Command, Callers
  <2> QED BY <2>1, <2>2 DEF Starting
<1>13. CASE QEMUExecutes
  BY <1>13 DEF QEMUExecutes, Step, Command, qmpVars, Starting
<1>14. CASE QEMUEmits
  BY <1>14 DEF QEMUEmits, Step, Command, qmpVars, Starting
<1>15. CASE QEMUExits
  BY <1>15 DEF QEMUExits, Step, Command, qmpVars, Starting
<1>16. CASE AgentAnswers
  BY <1>16 DEF AgentAnswers, Step, Command, qmpVars, Starting
<1>17. ASSUME NEW p \in Callers, LeaveGate(p)
      PROVE  Starting'
  <2>1. /\ Step(p) \in {"gate", "reply"} \cup AgentSteps /\ Go(p, After(p, Command(p), FALSE))
        /\ UNCHANGED <<config, secret, reaper, client>>
    BY <1>17 DEF LeaveGate, AgentSteps, qmpVars
  <2> QED BY <2>1, StartingEnds
<1>18. ASSUME NEW p \in Callers, SendFails(p)
      PROVE  Starting'
  <2>1. /\ Step(p) \in {"gate", "reply"} \cup AgentSteps /\ Go(p, After(p, Command(p), FALSE))
        /\ UNCHANGED <<config, secret, reaper, client>>
    BY <1>18 DEF SendFails, AgentSteps, qmpVars
  <2> QED BY <2>1, StartingEnds
<1>19. ASSUME NEW p \in Callers, Send(p)
      PROVE  Starting'
  <2>1. /\ Step(p) = "gate" /\ Go(p, <<"reply", Command(p)>>)
        /\ UNCHANGED <<config, secret, reaper, client>>
    BY <1>19 DEF Send
  <2>2. CASE p = "starter"
    <3>1. Step("starter")' = "reply" /\ Command("starter")' = Command("starter")
      BY <2>1, <2>2, Goes
    <3> QED BY <2>1, <2>2, <3>1 DEF Starting
  <2> QED BY <2>1, <2>2, StartingAway
<1>20. ASSUME NEW p \in Callers, ReadEvent(p)
      PROVE  Starting'
  BY <1>20 DEF ReadEvent, Step, Command, qmpVars, Starting
<1>21. ASSUME NEW p \in Callers, ReadReply(p)
      PROVE  Starting'
  <2>1. /\ Step(p) \in {"gate", "reply"} \cup AgentSteps
        /\ Go(p, After(p, Command(p), Head(out).ok))
        /\ UNCHANGED <<config, secret, reaper, client>>
    BY <1>21 DEF ReadReply
  <2>2. Head(out).ok \in BOOLEAN
    BY <1>21, ReadingReply
  <2> QED BY <2>1, <2>2, StartingEnds
<1>22. ASSUME NEW p \in Callers, GiveUp(p)
      PROVE  Starting'
  <2>1. /\ Step(p) \in {"gate", "reply"} \cup AgentSteps /\ Go(p, After(p, Command(p), FALSE))
        /\ UNCHANGED <<config, secret, reaper, client>>
    BY <1>22 DEF GiveUp, AgentSteps, qmpVars
  <2> QED BY <2>1, StartingEnds
<1>23. ASSUME NEW p \in Callers, LeaveAgentGate(p)
      PROVE  Starting'
  <2>1. /\ Step(p) \in {"gate", "reply"} \cup AgentSteps /\ Go(p, After(p, Command(p), FALSE))
        /\ UNCHANGED <<config, secret, reaper, client>>
    BY <1>23 DEF LeaveAgentGate, AgentSteps, qmpVars
  <2> QED BY <2>1, StartingEnds
<1>24. ASSUME NEW p \in Callers, EnterAgentGate(p)
      PROVE  Starting'
  <2>1. /\ Step(p) = "ga-gate" /\ Go(p, <<"ga-dial", Command(p)>>)
        /\ UNCHANGED <<config, secret, reaper, client>>
    BY <1>24 DEF EnterAgentGate, qmpVars
  <2>2. p # "starter"
    BY <2>1, AgentCaller DEF AgentSteps
  <2> QED BY <2>1, <2>2, StartingAway
<1>25. ASSUME NEW p \in Callers, Synchronize(p)
      PROVE  Starting'
  <2>1. /\ Step(p) = "ga-dial" /\ Go(p, <<"ga-sync", Command(p)>>)
        /\ UNCHANGED <<config, secret, reaper, client>>
    BY <1>25 DEF Synchronize, qmpVars
  <2>2. p # "starter"
    BY <2>1, AgentCaller DEF AgentSteps
  <2> QED BY <2>1, <2>2, StartingAway
<1>26. ASSUME NEW p \in Callers, Synchronized(p)
      PROVE  Starting'
  <2>1. /\ Step(p) = "ga-sync" /\ Go(p, <<"ga-answer", Command(p)>>)
        /\ UNCHANGED <<config, secret, reaper, client>>
    BY <1>26 DEF Synchronized, qmpVars
  <2>2. p # "starter"
    BY <2>1, AgentCaller DEF AgentSteps
  <2> QED BY <2>1, <2>2, StartingAway
<1>27. ASSUME NEW p \in Callers, Skip(p)
      PROVE  Starting'
  BY <1>27 DEF Skip, Step, Command, qmpVars, Starting
<1>28. ASSUME NEW p \in Callers, Answered(p)
      PROVE  Starting'
  <2>1. Head(inbox) \in [id : Ids, ok : BOOLEAN]
    BY <1>28, HeadTailProperties DEF Answered, OwnAnswer, Channel
  <2>2. /\ Step(p) \in {"gate", "reply"} \cup AgentSteps
        /\ \E ok \in BOOLEAN : Go(p, After(p, Command(p), ok))
        /\ UNCHANGED <<config, secret, reaper, client>>
    BY <1>28, <2>1 DEF Answered, EndSession, AgentSteps, qmpVars
  <2> QED BY <2>2, StartingEnds
<1>29. ASSUME NEW p \in Callers, SessionFails(p)
      PROVE  Starting'
  <2>1. /\ Step(p) \in {"gate", "reply"} \cup AgentSteps
        /\ \E ok \in BOOLEAN : Go(p, After(p, Command(p), ok))
        /\ UNCHANGED <<config, secret, reaper, client>>
    BY <1>29 DEF SessionFails, EndSession, AgentSteps, qmpVars
  <2> QED BY <2>1, StartingEnds
<1>30. ASSUME NEW p \in Callers, NoReply(p)
      PROVE  Starting'
  <2>1. /\ Step(p) \in {"gate", "reply"} \cup AgentSteps /\ Go(p, After(p, Command(p), TRUE))
        /\ UNCHANGED <<config, secret, reaper, client>>
    BY <1>30 DEF NoReply, EndSession, AgentSteps, qmpVars
  <2> QED BY <2>1, StartingEnds
<1>31. ASSUME NEW p \in Callers, ForceStop(p)
      PROVE  Starting'
  <2>1. /\ Step(p) = "force" /\ UNCHANGED <<config, secret, reaper, client>>
        /\ \/ reaper = "done" /\ Go(p, Forced(p))
           \/ Go(p, Idle("kill"))
           \/ client # "none" /\ Go(p, <<"gate", "quit">>)
    BY <1>31 DEF ForceStop, qmpVars
  <2>2. CASE p = "starter"
    <3>1. Forced(p) = Idle("clean")
      BY <2>2 DEF Forced
    <3>3. /\ Go(p, Idle("clean")) => Step(p)' = "clean" /\ Command(p)' = ""
          /\ Go(p, Idle("kill")) => Step(p)' = "kill" /\ Command(p)' = ""
          /\ Go(p, Idle("reaping")) => Step(p)' = "reaping" /\ Command(p)' = ""
          /\ Go(p, <<"gate", "quit">>) => Step(p)' = "gate" /\ Command(p)' = "quit"
      BY Goes
    <3>2. \/ reaper = "done" /\ Step(p)' = "clean" /\ Command(p)' = ""
          \/ Step(p)' = "kill" /\ Command(p)' = ""
          \/ client # "none" /\ Step(p)' = "gate" /\ Command(p)' = "quit"
      BY <2>1, <3>1, <3>3
    <3> QED BY <2>1, <2>2, <3>2 DEF Starting
  <2> QED BY <2>1, <2>2, StartingAway
<1>32. ASSUME NEW p \in Callers, GraceEnds(p)
      PROVE  Starting'
  <2>1. /\ Step(p) = "grace" /\ UNCHANGED <<config, secret, reaper, client>>
        /\ (reaper = "done" /\ Go(p, Forced(p))) \/ Go(p, Idle("kill"))
    BY <1>32 DEF GraceEnds, qmpVars
  <2>2. CASE p = "starter"
    <3>1. Forced(p) = Idle("clean")
      BY <2>2 DEF Forced
    <3>3. /\ Go(p, Idle("clean")) => Step(p)' = "clean" /\ Command(p)' = ""
          /\ Go(p, Idle("kill")) => Step(p)' = "kill" /\ Command(p)' = ""
          /\ Go(p, Idle("reaping")) => Step(p)' = "reaping" /\ Command(p)' = ""
          /\ Go(p, <<"gate", "quit">>) => Step(p)' = "gate" /\ Command(p)' = "quit"
      BY Goes
    <3>2. \/ reaper = "done" /\ Step(p)' = "clean" /\ Command(p)' = ""
          \/ Step(p)' = "kill" /\ Command(p)' = ""
      BY <2>1, <3>1, <3>3
    <3> QED BY <2>1, <2>2, <3>2 DEF Starting
  <2> QED BY <2>1, <2>2, StartingAway
<1>33. ASSUME NEW p \in Callers, Kill(p)
      PROVE  Starting'
  <2>1. /\ Step(p) = "kill" /\ UNCHANGED <<config, secret, reaper, client>>
        /\ Go(p, Idle("reaping"))
    BY <1>33 DEF Kill, qmpVars
  <2>2. CASE p = "starter"
    <3>1. Forced(p) = Idle("clean")
      BY <2>2 DEF Forced
    <3>3. /\ Go(p, Idle("clean")) => Step(p)' = "clean" /\ Command(p)' = ""
          /\ Go(p, Idle("kill")) => Step(p)' = "kill" /\ Command(p)' = ""
          /\ Go(p, Idle("reaping")) => Step(p)' = "reaping" /\ Command(p)' = ""
          /\ Go(p, <<"gate", "quit">>) => Step(p)' = "gate" /\ Command(p)' = "quit"
      BY Goes
    <3>2. Step(p)' = "reaping" /\ Command(p)' = ""
      BY <2>1, <3>1, <3>3
    <3> QED BY <2>1, <2>2, <3>2 DEF Starting
  <2> QED BY <2>1, <2>2, StartingAway
<1>34. ASSUME NEW p \in Callers, Reaped(p)
      PROVE  Starting'
  <2>1. /\ Step(p) = "reaping" /\ UNCHANGED <<config, secret, reaper, client>>
        /\ (reaper = "done" /\ Go(p, Forced(p)))
    BY <1>34 DEF Reaped, qmpVars
  <2>2. CASE p = "starter"
    <3>1. Forced(p) = Idle("clean")
      BY <2>2 DEF Forced
    <3>3. /\ Go(p, Idle("clean")) => Step(p)' = "clean" /\ Command(p)' = ""
          /\ Go(p, Idle("kill")) => Step(p)' = "kill" /\ Command(p)' = ""
          /\ Go(p, Idle("reaping")) => Step(p)' = "reaping" /\ Command(p)' = ""
          /\ Go(p, <<"gate", "quit">>) => Step(p)' = "gate" /\ Command(p)' = "quit"
      BY Goes
    <3>2. reaper = "done" /\ Step(p)' = "clean" /\ Command(p)' = ""
      BY <2>1, <3>1, <3>3
    <3> QED BY <2>1, <2>2, <3>2 DEF Starting
  <2> QED BY <2>1, <2>2, StartingAway
<1>35. ASSUME NEW p \in Callers, Call(p)
      PROVE  Starting'
  <2>1. /\ p # "starter" /\ UNCHANGED <<config, secret, reaper, client>>
        /\ \E step \in FirstStep(p) : Go(p, step)
    BY <1>35 DEF Call, qmpVars
  <2> QED BY <2>1, StartingAway
<1>36. ASSUME NEW p \in Callers, Expire(p)
      PROVE  Starting'
  BY <1>36 DEF Expire, Step, Command, qmpVars, Starting
<1>37. ASSUME NEW p \in Callers, Unreadable(p)
      PROVE  Starting'
  <2>1. /\ Step(p) \in {"gate", "reply"} \cup AgentSteps /\ Go(p, After(p, Command(p), FALSE))
        /\ UNCHANGED <<config, secret, reaper, client>>
    BY <1>37 DEF Unreadable, EndSession, AgentSteps, qmpVars
  <2> QED BY <2>1, StartingEnds
<1>38. CASE UNCHANGED vars
  BY <1>38 DEF vars, qmpVars, agentVars, Step, Command, Starting
<1> QED BY <1>0, <1>1, <1>2, <1>3, <1>4, <1>5, <1>6, <1>7, <1>8, <1>9, <1>10, <1>11,
     <1>12, <1>13, <1>14, <1>15, <1>16, <1>17, <1>18, <1>19, <1>20, <1>21, <1>22, <1>23,
     <1>24, <1>25, <1>26, <1>27, <1>28, <1>29, <1>30, <1>31, <1>32, <1>33, <1>34, <1>35,
     <1>36, <1>37, <1>38 DEF Next, StartStep, ForceStep, QMPStep, AgentStep, Reap

-----------------------------------------------------------------------------
(* The shutdown request. *)

\* A request that is where it was, and frames that were there before.
LEMMA AskingStays ==
  ASSUME Asking, delivered' = delivered, Step("shutdown")' = Step("shutdown"),
         \A i \in Asked' : \E j \in Asked : pending'[i].by = pending[j].by,
         \A i \in Replies' : \E j \in Replies : out'[i] = out[j]
  PROVE  Asking'
<1>1. ASSUME NEW i \in Asked', pending'[i].by = "shutdown" PROVE Unpressed'
  BY <1>1 DEF Asking, Unpressed
<1>2. ASSUME NEW i \in Replies', out'[i].by = "shutdown", out'[i].ok
      PROVE  Pressed'
  BY <1>2 DEF Asking, Pressed
<1> QED BY <1>1, <1>2 DEF Asking, Unpressed, Pressed

\* Somebody else goes somewhere.
LEMMA AskingAway ==
  ASSUME Course, Asking, NEW p \in Callers, p # "shutdown", NEW where, Go(p, where),
         delivered' = delivered, out' = out, pending' = pending \/ pending' = <<>>
  PROVE  Asking'
<1>1. Step("shutdown")' = Step("shutdown")
  BY Moves DEF Callers
<1>2. Replies' = Replies
  BY DEF Replies
<1>3. \A i \in Asked' : i \in Asked /\ pending'[i] = pending[i]
  BY DEF Asked
<1> QED BY <1>1, <1>2, <1>3, AskingStays

\* A request that has no frame on the connection goes on.
LEMMA AskingGoes ==
  ASSUME Course, Frames, NEW where, Go("shutdown", where), Step("shutdown") # "reply",
         UNCHANGED <<pending, out>>,
         where[1] \in {"ga-gate", "ga-dial", "ga-sync"} => delivered' = {},
         where[1] = "gate" => Unpressed',
         where[1] = "ga-answer" => delivered' = {"agent"},
         where[1] = "accepted" => delivered' = {"agent"} \/ Pressed'
  PROVE  Asking'
<1>1. Step("shutdown")' = where[1]
  BY Moves DEF Callers
<1>2. gate # "shutdown"
  BY DEF Frames, Callers
<1>3. Asked' = Asked /\ Replies' = Replies
  BY DEF Asked, Replies
<1>4. /\ \A i \in Asked : pending[i].by # "shutdown"
      /\ \A i \in Replies : out[i].by # "shutdown"
  BY <1>2 DEF Frames
<1> QED BY <1>1, <1>3, <1>4 DEF Asking

\* Where a request goes once its command ended.
LEMMA ShutdownEnds ==
  ASSUME NEW command \in {"guest-shutdown", "system_powerdown"}, NEW ok \in BOOLEAN
  PROVE  /\ ok => After("shutdown", command, ok) = Idle("accepted")
         /\ ~ok => \/ After("shutdown", command, ok) = Idle("refused")
                   \/ /\ After("shutdown", command, ok) = <<"gate", "system_powerdown">>
                      /\ command = "guest-shutdown" /\ late["shutdown"] # "all"
BY DEF After, ShutdownNext

\* The end of a session, successful or not.
LEMMA AskingEnds ==
  ASSUME Course, Frames, Asking, NEW p \in Callers, Step(p) \in AgentSteps,
         NEW ok \in BOOLEAN, Go(p, After(p, Command(p), ok)), UNCHANGED <<pending, out>>,
         p # "shutdown" => delivered' = delivered,
         p = "shutdown" /\ ok => delivered' = {"agent"},
         p = "shutdown" /\ ~ok => Unpressed' \/ late[p] = "all"
  PROVE  Asking'
<1>1. CASE p # "shutdown"
  BY <1>1, AskingAway
<1>2. CASE p = "shutdown"
  <2>1. Command(p) = "guest-shutdown" /\ Step(p) # "reply"
    BY <1>2, AgentCaller DEF AgentSteps
  <2>2. CASE ok
    <3>1. After(p, Command(p), ok) = Idle("accepted")
      BY <1>2, <2>1, <2>2, ShutdownEnds
    <3> QED BY <1>2, <2>1, <2>2, <3>1, First, AskingGoes
  <2>3. CASE ~ok
    <3>1. \/ After(p, Command(p), ok) = Idle("refused")
          \/ After(p, Command(p), ok) = <<"gate", "system_powerdown">> /\ late[p] # "all"
      BY <1>2, <2>1, <2>3, ShutdownEnds
    <3> QED BY <1>2, <2>1, <2>3, <3>1, First, AskingGoes
  <2> QED BY <2>2, <2>3
<1> QED BY <1>1, <1>2

\* The end of a command to QEMU.
LEMMA AskingReleased ==
  ASSUME Course, Asking, NEW p \in Callers, Step(p) \in {"gate", "reply"},
         NEW ok \in BOOLEAN, Go(p, After(p, Command(p), ok)), delivered' = delivered,
         p = "shutdown" /\ ok => Pressed,
         Asked' = {}, Replies' = {}
  PROVE  Asking'
<1>1. CASE p # "shutdown"
  <2>1. Step("shutdown")' = Step("shutdown")
    BY <1>1, Moves DEF Callers
  <2> QED BY <2>1, AskingStays
<1>2. CASE p = "shutdown"
  <2>1. Command(p) = "system_powerdown"
    BY <1>2, OwnCommand DEF Course, QMPCommands
  <2>2. CASE ok
    <3>1. Step(p)' = "accepted"
      BY <1>2, <2>1, <2>2, ShutdownEnds, Goes
    <3> QED BY <1>2, <2>2, <3>1 DEF Asking, Pressed
  <2>3. CASE ~ok
    <3>1. After(p, Command(p), ok) = Idle("refused")
      BY <1>2, <2>1, <2>3, ShutdownEnds
    <3>2. Step(p)' = "refused"
      BY <3>1, Goes
    <3> QED BY <1>2, <3>2 DEF Asking
  <2> QED BY <2>2, <2>3
<1> QED BY <1>1, <1>2

\* How far a request reached the guest stays known.
LEMMA NextAsking ==
  ASSUME Channel, Course, Frames, Asking, [Next]_vars
  PROVE  Asking'
<1>0. Next \/ UNCHANGED vars
  OBVIOUS
<1>1. CASE ConfigureVM
  <2>1. Step("shutdown")' = Step("shutdown") /\ UNCHANGED <<delivered, pending, out>>
    BY <1>1 DEF ConfigureVM, qmpVars, Step
  <2>2. Asked' = Asked /\ Replies' = Replies
    BY <2>1 DEF Asked, Replies
  <2> QED BY <2>1, <2>2, AskingStays
<1>2. CASE Start
  <2>1. /\ \E where : Go("starter", where)
        /\ UNCHANGED <<delivered, pending, out>>
    BY <1>2 DEF Start, qmpVars
  <2> QED BY <2>1, AskingAway DEF Callers
<1>3. CASE WriteSecret
  <2>1. /\ \E where : Go("starter", where)
        /\ UNCHANGED <<delivered, pending, out>>
    BY <1>3 DEF WriteSecret, qmpVars
  <2> QED BY <2>1, AskingAway DEF Callers
<1>4. CASE Fork
  <2>1. /\ \E where : Go("starter", where)
        /\ UNCHANGED <<delivered, pending, out>>
    BY <1>4 DEF Fork, qmpVars
  <2> QED BY <2>1, AskingAway DEF Callers
<1>5. CASE Connect
  <2>1. /\ \E where : Go("starter", where)
        /\ UNCHANGED <<delivered, pending, out>>
    BY <1>5 DEF Connect, qmpVars
  <2> QED BY <2>1, AskingAway DEF Callers
<1>6. CASE Adopt
  <2>1. /\ \E where : Go("starter", where)
        /\ UNCHANGED <<delivered, pending, out>>
    BY <1>6 DEF Adopt, qmpVars
  <2> QED BY <2>1, AskingAway DEF Callers
<1>7. CASE RemoveSecret
  <2>1. /\ \E where : Go("starter", where)
        /\ UNCHANGED <<delivered, pending, out>>
    BY <1>7 DEF RemoveSecret, qmpVars
  <2> QED BY <2>1, AskingAway DEF Callers
<1>8. CASE CleanSecret
  <2>1. /\ \E where : Go("starter", where)
        /\ UNCHANGED <<delivered, pending, out>>
    BY <1>8 DEF CleanSecret, qmpVars
  <2> QED BY <2>1, AskingAway DEF Callers
<1>9. CASE ReadCounters
  <2>1. /\ "collector" \in Callers /\ Go("collector", Idle("idle"))
        /\ UNCHANGED <<delivered, pending, out>>
    BY <1>9 DEF ReadCounters, qmpVars
  <2> QED BY <2>1, AskingAway
<1>10. CASE ReapWaits
  <2>1. Step("shutdown")' = Step("shutdown") /\ UNCHANGED <<delivered, pending, out>>
    BY <1>10 DEF ReapWaits, qmpVars, Step
  <2>2. Asked' = Asked /\ Replies' = Replies
    BY <2>1 DEF Asked, Replies
  <2> QED BY <2>1, <2>2, AskingStays
<1>11. CASE ReapCloses
  <2>1. Step("shutdown")' = Step("shutdown") /\ UNCHANGED <<delivered, pending, out>>
    BY <1>11 DEF ReapCloses, qmpVars, Step
  <2>2. Asked' = Asked /\ Replies' = Replies
    BY <2>1 DEF Asked, Replies
  <2> QED BY <2>1, <2>2, AskingStays
<1>12. CASE End
  <2>1. /\ at' = [p \in Callers |-> Idle("idle")] /\ pending' = <<>> /\ out' = <<>>
    BY <1>12 DEF End, Fresh
  <2>2. Step("shutdown")' = "idle" /\ Asked' = {} /\ Replies' = {}
    BY <2>1, First DEF Step, Callers, Asked, Replies
  <2> QED BY <2>2 DEF Asking
<1>13. CASE QEMUExecutes
  <2> DEFINE asked == [by |-> "shutdown", command |-> "system_powerdown"]
  <2>1. Step("shutdown")' = Step("shutdown")
    BY <1>13 DEF QEMUExecutes, Step
  <2>2. PICK ok \in BOOLEAN :
          /\ Put([by |-> Head(pending).by, ok |-> ok])
          /\ delivered' = IF Head(pending) = asked /\ ok THEN delivered \cup {"powerdown"}
                          ELSE delivered
    BY <1>13 DEF QEMUExecutes
  <2>3. /\ 1 \in DOMAIN pending /\ Head(pending) = pending[1]
        /\ \A i \in Asked' : i + 1 \in Asked /\ pending'[i] = pending[i + 1]
        /\ 1 \in Asked => Asked' = {}
        /\ Replies' # {} => /\ 1 \in Asked /\ Replies' = {Len(out) + 1}
                            /\ out'[Len(out) + 1].by = pending[1].by
    BY <1>13, Executing
  <2>4. CASE pending[1].by = "shutdown"
    <3>1. 1 \in Asked
      BY <2>3, <2>4 DEF Asked
    <3>2. Unpressed /\ Step("shutdown") = "reply" /\ pending[1].command = Command("shutdown")
      BY <2>4, <3>1 DEF Asking, Frames, Callers
    <3>3. Command("shutdown") = "system_powerdown"
      BY <3>2, OwnCommand DEF Course, QMPCommands, Callers
    <3>4. Head(pending) = asked
      BY <2>3, <2>4, <3>2, <3>3, FrameOf
    <3>5. ASSUME NEW i \in Replies', out'[i].ok PROVE Pressed'
      <4>1. i = Len(out) + 1
        BY <2>3, <3>5
      <4>2. i \in DOMAIN out'
        BY <3>5 DEF Replies
      <4>3. out \in Seq(Unseen) /\ [by |-> Head(pending).by, ok |-> ok] \in Unseen
        BY <2>3, <2>4 DEF Frames, Unseen, Callers
      <4>4. out' = Append(out, [by |-> Head(pending).by, ok |-> ok])
        <5>1. Len(out) + 1 \notin DOMAIN out
          BY <4>3, LenProperties
        <5> QED BY <2>2, <4>1, <4>2, <5>1 DEF Put
      <4>5. out'[i].ok = ok
        BY <4>1, <4>3, <4>4, AppendProperties
      <4>6. delivered' = delivered \cup {"powerdown"}
        BY <2>2, <3>4, <3>5, <4>5
      <4> QED BY <3>2, <4>6 DEF Unpressed, Pressed
    <3> QED BY <2>1, <2>3, <3>1, <3>2, <3>5 DEF Asking
  <2>5. CASE pending[1].by # "shutdown"
    <3>1. Head(pending) # asked
      BY <2>3, <2>5
    <3>2. delivered' = delivered
      BY <2>2, <3>1
    <3>3. \A i \in Replies' : out'[i].by # "shutdown"
      BY <2>3, <2>5
    <3>4. \A i \in Asked' : pending'[i].by = "shutdown" => Unpressed'
      BY <2>3, <3>2 DEF Asking, Unpressed
    <3> QED BY <2>1, <3>2, <3>3, <3>4 DEF Asking, Unpressed, Pressed
  <2> QED BY <2>4, <2>5
<1>14. CASE QEMUEmits
  <2>1. Step("shutdown")' = Step("shutdown") /\ delivered' = delivered
    BY <1>14 DEF QEMUEmits, Step
  <2> QED BY <1>14, <2>1, Emitting, AskingStays
<1>15. CASE QEMUExits
  <2>1. Step("shutdown")' = Step("shutdown") /\ UNCHANGED <<delivered, out>> /\ pending' = <<>>
    BY <1>15 DEF QEMUExits, Step
  <2>2. Asked' = {} /\ Replies' = Replies
    BY <2>1 DEF Asked, Replies
  <2> QED BY <2>1, <2>2, AskingStays
<1>16. CASE AgentAnswers
  <2>1. Step("shutdown")' = Step("shutdown") /\ UNCHANGED <<delivered, pending, out>>
    BY <1>16 DEF AgentAnswers, qmpVars, Step
  <2>2. Asked' = Asked /\ Replies' = Replies
    BY <2>1 DEF Asked, Replies
  <2> QED BY <2>1, <2>2, AskingStays
<1>17. ASSUME NEW p \in Callers, LeaveGate(p)
      PROVE  Asking'
  <2>1. /\ Step(p) = "gate" /\ Go(p, After(p, Command(p), FALSE))
        /\ UNCHANGED <<delivered, pending, out>>
    BY <1>17 DEF LeaveGate, qmpVars
  <2>2. CASE p = "shutdown"
    <3>1. Command(p) = "system_powerdown"
      BY <2>1, <2>2, OwnCommand DEF Course, QMPCommands
    <3>2. After(p, Command(p), FALSE) = Idle("refused")
      BY <2>2, <3>1, ShutdownEnds
    <3>3. Idle("refused")[1] = "refused"
      BY First
    <3> QED BY <2>1, <2>2, <3>2, <3>3, AskingGoes
  <2> QED BY <2>1, <2>2, AskingAway
<1>18. ASSUME NEW p \in Callers, SendFails(p)
      PROVE  Asking'
  <2>1. /\ Step(p) = "gate" /\ Go(p, After(p, Command(p), FALSE))
        /\ UNCHANGED <<delivered, pending, out>>
    BY <1>18 DEF SendFails, qmpVars
  <2>2. CASE p = "shutdown"
    <3>1. Command(p) = "system_powerdown"
      BY <2>1, <2>2, OwnCommand DEF Course, QMPCommands
    <3>2. After(p, Command(p), FALSE) = Idle("refused")
      BY <2>2, <3>1, ShutdownEnds
    <3>3. Idle("refused")[1] = "refused"
      BY First
    <3> QED BY <2>1, <2>2, <3>2, <3>3, AskingGoes
  <2> QED BY <2>1, <2>2, AskingAway
<1>19. ASSUME NEW p \in Callers, Send(p)
      PROVE  Asking'
  <2>1. /\ Step(p) = "gate" /\ Go(p, <<"reply", Command(p)>>) /\ delivered' = delivered
    BY <1>19 DEF Send
  <2>5. /\ \A i \in Asked' : pending'[i] = [by |-> p, command |-> Command(p)]
        /\ Replies' = {}
    BY <1>19, Sending
  <2>2. /\ \A i \in Asked' : pending'[i].by = p
        /\ Replies' = {}
    BY <2>5
  <2>3. CASE p = "shutdown"
    <3>1. Unpressed'
      BY <2>1, <2>3 DEF Asking, Unpressed
    <3>2. Step("shutdown")' = "reply"
      BY <2>1, <2>3, Goes
    <3> QED BY <2>1, <2>2, <3>1, <3>2 DEF Asking
  <2>4. CASE p # "shutdown"
    <3>1. Step("shutdown")' = Step("shutdown")
      BY <2>1, <2>4, Moves DEF Callers
    <3> QED BY <2>1, <2>2, <2>4, <3>1 DEF Asking, Unpressed, Pressed
  <2> QED BY <2>3, <2>4
<1>20. ASSUME NEW p \in Callers, ReadEvent(p)
      PROVE  Asking'
  <2>1. Step("shutdown")' = Step("shutdown") /\ delivered' = delivered
    BY <1>20 DEF ReadEvent, Step
  <2>2. /\ Asked' = Asked /\ pending' = pending
        /\ \A i \in Replies' : i + 1 \in Replies /\ out'[i] = out[i + 1]
    BY <1>20, ReadingEvent
  <2> QED BY <2>1, <2>2, AskingStays
<1>21. ASSUME NEW p \in Callers, ReadReply(p)
      PROVE  Asking'
  <2>1. /\ Step(p) = "reply" /\ Go(p, After(p, Command(p), Head(out).ok))
        /\ delivered' = delivered
    BY <1>21 DEF ReadReply
  <2>2. /\ 1 \in Replies /\ out[1].by = p /\ out[1] = Head(out) /\ out[1].ok \in BOOLEAN
        /\ Asked' = {} /\ Replies' = {}
    BY <1>21, ReadingReply
  <2>3. p = "shutdown" /\ Head(out).ok => Pressed
    BY <2>2 DEF Asking
  <2> QED BY <2>1, <2>2, <2>3, AskingReleased
<1>22. ASSUME NEW p \in Callers, GiveUp(p)
      PROVE  Asking'
  <2>1. /\ Step(p) = "reply" /\ Go(p, After(p, Command(p), FALSE)) /\ delivered' = delivered
    BY <1>22 DEF GiveUp
  <2> QED BY <1>22, <2>1, GivingUp, AskingReleased
<1>23. ASSUME NEW p \in Callers, LeaveAgentGate(p)
      PROVE  Asking'
  <2>1. /\ Step(p) = "ga-gate" /\ Go(p, After(p, Command(p), FALSE))
        /\ UNCHANGED <<delivered, pending, out>>
    BY <1>23 DEF LeaveAgentGate, qmpVars
  <2>2. p = "shutdown" => Unpressed'
    BY <2>1 DEF Asking, Unpressed
  <2> QED BY <2>1, <2>2, AskingEnds DEF AgentSteps
<1>24. ASSUME NEW p \in Callers, EnterAgentGate(p)
      PROVE  Asking'
  <2>1. /\ Step(p) = "ga-gate" /\ Go(p, <<"ga-dial", Command(p)>>)
        /\ UNCHANGED <<delivered, pending, out>>
    BY <1>24 DEF EnterAgentGate, qmpVars
  <2>2. p = "shutdown" => delivered' = {}
    BY <2>1 DEF Asking
  <2> QED BY <2>1, <2>2, First, AskingGoes, AskingAway
<1>25. ASSUME NEW p \in Callers, Synchronize(p)
      PROVE  Asking'
  <2>1. /\ Step(p) = "ga-dial" /\ Go(p, <<"ga-sync", Command(p)>>)
        /\ UNCHANGED <<delivered, pending, out>>
    BY <1>25 DEF Synchronize, qmpVars
  <2>2. p = "shutdown" => delivered' = {}
    BY <2>1 DEF Asking
  <2> QED BY <2>1, <2>2, First, AskingGoes, AskingAway
<1>26. ASSUME NEW p \in Callers, Synchronized(p)
      PROVE  Asking'
  <2>1. /\ Step(p) = "ga-sync" /\ Go(p, <<"ga-answer", Command(p)>>)
        /\ UNCHANGED <<pending, out>>
        /\ delivered' = IF Command(p) = "guest-shutdown" THEN delivered \cup {"agent"}
                        ELSE delivered
    BY <1>26 DEF Synchronized, qmpVars
  <2>2. CASE p = "shutdown"
    <3>1. Command(p) = "guest-shutdown"
      BY <2>1, <2>2, AgentCaller DEF AgentSteps
    <3>2. delivered = {}
      BY <2>1, <2>2 DEF Asking
    <3>3. delivered' = {"agent"}
      BY <2>1, <3>1, <3>2
    <3> QED BY <2>1, <2>2, <3>3, First, AskingGoes
  <2>3. CASE p # "shutdown"
    <3>1. Command(p) # "guest-shutdown"
      BY <2>1, <2>3, AgentCaller DEF AgentSteps, AgentCommands
    <3> QED BY <2>1, <2>3, <3>1, AskingAway
  <2> QED BY <2>2, <2>3
<1>27. ASSUME NEW p \in Callers, Skip(p)
      PROVE  Asking'
  <2>1. Step("shutdown")' = Step("shutdown") /\ UNCHANGED <<delivered, pending, out>>
    BY <1>27 DEF Skip, qmpVars, Step
  <2>2. Asked' = Asked /\ Replies' = Replies
    BY <2>1 DEF Asked, Replies
  <2> QED BY <2>1, <2>2, AskingStays
<1>28. ASSUME NEW p \in Callers, Answered(p)
      PROVE  Asking'
  <2>1. /\ Step(p) = "ga-answer" /\ Go(p, After(p, Command(p), Head(inbox).ok))
        /\ UNCHANGED <<pending, out>>
        /\ delivered' = IF Command(p) = "guest-shutdown" /\ ~Head(inbox).ok
                        THEN delivered \ {"agent"} ELSE delivered
    BY <1>28 DEF Answered, EndSession, qmpVars
  <2>2. Head(inbox) \in [id : Ids, ok : BOOLEAN]
    BY <1>28, HeadTailProperties DEF Answered, OwnAnswer, Channel
  <2>3. Head(inbox).ok \in BOOLEAN
    BY <2>2
  <2>4. p # "shutdown" => delivered' = delivered
    BY <2>1, AgentCaller DEF AgentSteps, AgentCommands
  <2>5. p = "shutdown" => delivered = {"agent"} /\ Command(p) = "guest-shutdown"
    BY <2>1, AgentCaller DEF AgentSteps, Asking
  <2>6. /\ p = "shutdown" /\ Head(inbox).ok => delivered' = {"agent"}
        /\ p = "shutdown" /\ ~Head(inbox).ok => Unpressed'
    BY <2>1, <2>5 DEF Unpressed
  <2>7. Step(p) \in AgentSteps
    BY <2>1 DEF AgentSteps
  <2> QED BY <2>1, <2>3, <2>4, <2>6, <2>7, AskingEnds
<1>29. ASSUME NEW p \in Callers, SessionFails(p)
      PROVE  Asking'
  <2>1. /\ Step(p) \in {"ga-dial", "ga-sync", "ga-answer"} /\ UNCHANGED <<delivered, pending, out>>
        /\ \E ok \in BOOLEAN : /\ Go(p, After(p, Command(p), ok))
                               /\ ok => NoReplyIsSuccess(p)
                               /\ ~ok => ~NoReplyIsSuccess(p) \/ late[p] = "all"
    BY <1>29 DEF SessionFails, EndSession, qmpVars
  <2>2. PICK ok \in BOOLEAN : /\ Go(p, After(p, Command(p), ok))
                              /\ ok => NoReplyIsSuccess(p)
                              /\ ~ok => ~NoReplyIsSuccess(p) \/ late[p] = "all"
    BY <2>1
  <2>3. Step(p) \in AgentSteps
    BY <2>1 DEF AgentSteps
  <2>4. p = "shutdown" => Command(p) = "guest-shutdown"
    BY <2>3, AgentCaller
  <2>5. p = "shutdown" /\ ok => delivered' = {"agent"}
    BY <2>1, <2>2 DEF NoReplyIsSuccess, Asking
  <2>6. p = "shutdown" /\ ~ok => Unpressed' \/ late[p] = "all"
    BY <2>1, <2>2, <2>4 DEF NoReplyIsSuccess, Asking, Unpressed
  <2> QED BY <2>1, <2>2, <2>3, <2>5, <2>6, AskingEnds
<1>30. ASSUME NEW p \in Callers, NoReply(p)
      PROVE  Asking'
  <2>1. /\ Step(p) = "ga-answer" /\ Go(p, After(p, Command(p), TRUE))
        /\ UNCHANGED <<delivered, pending, out>>
    BY <1>30 DEF NoReply, EndSession, qmpVars
  <2>2. Step(p) \in AgentSteps /\ (p = "shutdown" => delivered' = {"agent"})
    BY <2>1 DEF AgentSteps, Asking
  <2> QED BY <2>1, <2>2, AskingEnds
<1>31. ASSUME NEW p \in Callers, ForceStop(p)
      PROVE  Asking'
  <2>1. /\ Step(p) = "force" /\ \E where : Go(p, where)
        /\ UNCHANGED <<delivered, out>>
        /\ pending' = pending \/ pending' = <<>>
    BY <1>31 DEF ForceStop, qmpVars
  <2>2. p # "shutdown"
    BY <2>1, ForcePlaces DEF Course, ForceSteps
  <2> QED BY <2>1, <2>2, AskingAway
<1>32. ASSUME NEW p \in Callers, GraceEnds(p)
      PROVE  Asking'
  <2>1. /\ Step(p) = "grace" /\ \E where : Go(p, where)
        /\ UNCHANGED <<delivered, out>>
        /\ pending' = pending \/ pending' = <<>>
    BY <1>32 DEF GraceEnds, qmpVars
  <2>2. p # "shutdown"
    BY <2>1, ForcePlaces DEF Course, ForceSteps
  <2> QED BY <2>1, <2>2, AskingAway
<1>33. ASSUME NEW p \in Callers, Kill(p)
      PROVE  Asking'
  <2>1. /\ Step(p) = "kill" /\ \E where : Go(p, where)
        /\ UNCHANGED <<delivered, out>>
        /\ pending' = pending \/ pending' = <<>>
    BY <1>33 DEF Kill, qmpVars
  <2>2. p # "shutdown"
    BY <2>1, ForcePlaces DEF Course, ForceSteps
  <2> QED BY <2>1, <2>2, AskingAway
<1>34. ASSUME NEW p \in Callers, Reaped(p)
      PROVE  Asking'
  <2>1. /\ Step(p) = "reaping" /\ \E where : Go(p, where)
        /\ UNCHANGED <<delivered, out>>
        /\ pending' = pending \/ pending' = <<>>
    BY <1>34 DEF Reaped, qmpVars
  <2>2. p # "shutdown"
    BY <2>1, ForcePlaces DEF Course, ForceSteps
  <2> QED BY <2>1, <2>2, AskingAway
<1>35. ASSUME NEW p \in Callers, Call(p)
      PROVE  Asking'
  <2>1. /\ Step(p) \in {"idle", "refused"} /\ UNCHANGED <<pending, out>>
        /\ \E step \in FirstStep(p) : Go(p, step)
        /\ p # "starter" /\ delivered' = IF p = "shutdown" THEN {} ELSE delivered
    BY <1>35 DEF Call, qmpVars
  <2>2. PICK step \in FirstStep(p) : Go(p, step)
    BY <2>1
  <2>3. step[1] \in {"gate", "ga-gate", "force"}
    BY <2>1, FirstOnTrack
  <2>4. p = "shutdown" => Step("shutdown") # "reply" /\ delivered' = {} /\ Unpressed'
    BY <2>1 DEF Unpressed
  <2>5. CASE p = "shutdown"
    BY <2>1, <2>2, <2>3, <2>4, <2>5, AskingGoes
  <2>6. CASE p # "shutdown"
    BY <2>1, <2>2, <2>6, AskingAway
  <2> QED BY <2>5, <2>6
<1>36. ASSUME NEW p \in Callers, Expire(p)
      PROVE  Asking'
  <2>1. Step("shutdown")' = Step("shutdown") /\ UNCHANGED <<delivered, pending, out>>
    BY <1>36 DEF Expire, qmpVars, Step
  <2>2. Asked' = Asked /\ Replies' = Replies
    BY <2>1 DEF Asked, Replies
  <2> QED BY <2>1, <2>2, AskingStays
<1>37. ASSUME NEW p \in Callers, Unreadable(p)
      PROVE  Asking'
  <2>1. /\ Step(p) \in {"ga-sync", "ga-answer"} /\ Go(p, After(p, Command(p), FALSE))
        /\ UNCHANGED <<pending, out>>
        /\ delivered' = IF Command(p) = "guest-shutdown" /\ Step(p) = "ga-answer"
                        THEN {"unread"} ELSE delivered
    BY <1>37 DEF Unreadable, EndSession, qmpVars
  <2>2. Step(p) \in AgentSteps
    BY <2>1 DEF AgentSteps
  <2>3. p # "shutdown" => delivered' = delivered
    BY <2>1, <2>2, AgentCaller DEF AgentCommands
  <2>4. p = "shutdown" => Command(p) = "guest-shutdown"
    BY <2>2, AgentCaller
  <2>5. p = "shutdown" => Unpressed'
    BY <2>1, <2>4 DEF Asking, Unpressed
  <2> QED BY <2>1, <2>2, <2>3, <2>5, AskingEnds
<1>38. CASE UNCHANGED vars
  BY <1>38 DEF vars, qmpVars, agentVars, Step, Asked, Replies, Asking, Unpressed, Pressed
<1> QED BY <1>0, <1>1, <1>2, <1>3, <1>4, <1>5, <1>6, <1>7, <1>8, <1>9, <1>10, <1>11,
     <1>12, <1>13, <1>14, <1>15, <1>16, <1>17, <1>18, <1>19, <1>20, <1>21, <1>22, <1>23,
     <1>24, <1>25, <1>26, <1>27, <1>28, <1>29, <1>30, <1>31, <1>32, <1>33, <1>34, <1>35,
     <1>36, <1>37, <1>38 DEF Next, StartStep, ForceStep, QMPStep, AgentStep, Reap

-----------------------------------------------------------------------------
(* The event counters. *)

\* A collector that is where it was, and replies that were there before.
LEMMA CountingStays ==
  ASSUME Counting, owed' = owed,
         "collector" \in Callers =>
           Step("collector")' = Step("collector") /\ Command("collector")' = Command("collector"),
         \A i \in Replies' : i \in Replies /\ out'[i] = out[i]
  PROVE  Counting'
BY DEF Counting

\* Somebody else goes somewhere.
LEMMA CountingAway ==
  ASSUME Course, Counting, NEW p \in Callers, p # "collector", NEW where, Go(p, where),
         UNCHANGED <<owed, out>>
  PROVE  Counting'
<1>1. "collector" \in Callers =>
        Step("collector")' = Step("collector") /\ Command("collector")' = Command("collector")
  BY Moves
<1>2. Replies' = Replies
  BY DEF Replies
<1> QED BY <1>1, <1>2, CountingStays

\* A collector that has no reply on the connection.
LEMMA CountingGoes ==
  ASSUME owed' \in Nat, \A i \in Replies' : out'[i].by # "collector",
         Command("collector")' \in {"query-blockstats", "query-block"} => owed' = 0,
         Step("collector")' = "events" => owed' = 0
  PROVE  Counting'
BY DEF Counting

\* Where a collector goes once its command ended.
LEMMA CollectorEnds ==
  ASSUME NEW command, command \notin {"quit"}, NEW ok \in BOOLEAN
  PROVE  LET next == After("collector", command, ok) IN
         /\ \/ next \in {Idle("idle"), <<"ga-gate", "guest-get-time">>}
            \/ /\ next = <<"gate", "query-blockstats">> /\ command = "query-status" /\ ok
            \/ /\ next \in {<<"gate", "query-block">>, Idle("events")}
               /\ command \in {"query-blockstats", "query-block"}
BY DEF After, CollectorNext, BlocksNext

\* The end of a command, after which its caller has nothing on the connection.
LEMMA CountingEnds ==
  ASSUME Course, Counting, NEW p \in Callers, Step(p) \in {"gate", "reply"} \cup AgentSteps,
         NEW ok \in BOOLEAN, Go(p, After(p, Command(p), ok)), owed' = owed,
         p # "collector" => \A i \in Replies' : i \in Replies /\ out'[i] = out[i],
         p = "collector" => \A i \in Replies' : out'[i].by # "collector",
         p = "collector" /\ Command(p) = "query-status" /\ ok => owed = 0
  PROVE  Counting'
<1>1. CASE p # "collector"
  <2>1. "collector" \in Callers =>
          Step("collector")' = Step("collector") /\ Command("collector")' = Command("collector")
    BY <1>1, Moves
  <2> QED BY <1>1, <2>1, CountingStays
<1>2. CASE p = "collector"
  <2> DEFINE next == After(p, Command(p), ok)
  <2>1. Command(p) # "quit"
    BY <1>2, OwnCommand DEF Course, QMPCommands, AgentCommands
  <2>2. \/ next \in {Idle("idle"), <<"ga-gate", "guest-get-time">>}
        \/ /\ next \in {<<"gate", "query-blockstats">>, <<"gate", "query-block">>, Idle("events")}
           /\ \/ Command(p) = "query-status" /\ ok
              \/ Command(p) \in {"query-blockstats", "query-block"}
    BY <1>2, <2>1, CollectorEnds
  <2> HIDE DEF next
  <2>3. Step(p)' = next[1] /\ Command(p)' = next[2]
    BY Moves DEF next
  <2>4. CASE next \in {Idle("idle"), <<"ga-gate", "guest-get-time">>}
    <3>1. next[1] \in {"idle", "ga-gate"}
      BY <2>4, First
    <3>2. next[2] \in {"", "guest-get-time"}
      <4>1. Idle("idle")[2] = "" /\ <<"ga-gate", "guest-get-time">>[2] = "guest-get-time"
        BY Second
      <4> QED BY <2>4, <4>1
    <3> QED BY <1>2, <2>3, <3>1, <3>2, CountingGoes DEF Counting
  <2>5. ASSUME \/ Command(p) = "query-status" /\ ok
               \/ Command(p) \in {"query-blockstats", "query-block"}
        PROVE  owed = 0
    BY <1>2, <2>5 DEF Counting
  <2> QED BY <1>2, <2>2, <2>4, <2>5, CountingGoes DEF Counting
<1> QED BY <1>1, <1>2

\* A caller whose command has not been written has no reply on the connection.
LEMMA NoReplyYet ==
  ASSUME Frames, NEW p \in Callers, Step(p) # "reply"
  PROVE  \A i \in Replies : out[i].by # p
BY DEF Frames

\* What QEMU emitted is no more than what is on the connection.
LEMMA UnreadCounts ==
  ASSUME Frames
  PROVE  Unread \in Nat /\ Unread <= Len(out)
<1> DEFINE E == {i \in DOMAIN out : out[i].by = "event"}
<1>1. Len(out) \in Nat /\ DOMAIN out = 1..Len(out)
  BY LenProperties DEF Frames
<1>2. E \subseteq 1..Len(out)
  BY <1>1
<1> HIDE DEF E
<1>3. IsFiniteSet(1..Len(out)) /\ Cardinality(1..Len(out)) = Len(out)
  <2>1. Cardinality(1..Len(out)) = IF 1 > Len(out) THEN 0 ELSE Len(out) - 1 + 1
    BY <1>1, FS_Interval
  <2> QED BY <1>1, <2>1, FS_Interval
<1>4. IsFiniteSet(E) /\ Cardinality(E) <= Len(out)
  BY <1>2, <1>3, FS_Subset
<1>5. Cardinality(E) \in Nat
  BY <1>4, FS_CardinalityType
<1> QED BY <1>4, <1>5 DEF Unread, E

\* The end of a session.
LEMMA CountingSession ==
  ASSUME Course, Frames, Counting, NEW p \in Callers, Step(p) \in AgentSteps,
         NEW ok \in BOOLEAN, Go(p, After(p, Command(p), ok)), UNCHANGED <<owed, out>>
  PROVE  Counting'
<1>1. Replies' = Replies /\ Step(p) # "reply"
  BY DEF Replies, AgentSteps
<1>2. p = "collector" => \A i \in Replies' : out'[i].by # "collector"
  BY <1>1, NoReplyYet
<1>3. p = "collector" => Command(p) # "query-status"
  BY AgentCaller
<1> QED BY <1>1, <1>2, <1>3, CountingEnds

\* What is owed to the collector is counted in time.
LEMMA NextCounting ==
  ASSUME Channel, Course, Frames, Counting, [Next]_vars
  PROVE  Counting'
<1>0. Next \/ UNCHANGED vars
  OBVIOUS
<1>1. CASE ConfigureVM
  <2>1. UNCHANGED <<at, owed, out>>
    BY <1>1 DEF ConfigureVM, qmpVars
  <2> QED BY <2>1, CountingStays DEF Step, Command, Replies
<1>2. CASE Start
  <2>1. (\E where : Go("starter", where)) /\ UNCHANGED <<owed, out>>
    BY <1>2 DEF Start, qmpVars
  <2> QED BY <2>1, CountingAway DEF Callers
<1>3. CASE WriteSecret
  <2>1. (\E where : Go("starter", where)) /\ UNCHANGED <<owed, out>>
    BY <1>3 DEF WriteSecret, qmpVars
  <2> QED BY <2>1, CountingAway DEF Callers
<1>4. CASE Fork
  <2>1. (\E where : Go("starter", where)) /\ UNCHANGED <<owed, out>>
    BY <1>4 DEF Fork, qmpVars
  <2> QED BY <2>1, CountingAway DEF Callers
<1>5. CASE Connect
  <2>1. (\E where : Go("starter", where)) /\ UNCHANGED <<owed, out>>
    BY <1>5 DEF Connect, qmpVars
  <2> QED BY <2>1, CountingAway DEF Callers
<1>6. CASE Adopt
  <2>1. (\E where : Go("starter", where)) /\ UNCHANGED <<owed, out>>
    BY <1>6 DEF Adopt, qmpVars
  <2> QED BY <2>1, CountingAway DEF Callers
<1>7. CASE RemoveSecret
  <2>1. (\E where : Go("starter", where)) /\ UNCHANGED <<owed, out>>
    BY <1>7 DEF RemoveSecret, qmpVars
  <2> QED BY <2>1, CountingAway DEF Callers
<1>8. CASE CleanSecret
  <2>1. (\E where : Go("starter", where)) /\ UNCHANGED <<owed, out>>
    BY <1>8 DEF CleanSecret, qmpVars
  <2> QED BY <2>1, CountingAway DEF Callers
<1>9. CASE ReadCounters
  <2>1. /\ "collector" \in Callers /\ Step("collector") = "events"
        /\ Go("collector", Idle("idle")) /\ UNCHANGED <<owed, out>>
    BY <1>9 DEF ReadCounters, qmpVars
  <2>2. \A i \in Replies' : out'[i].by # "collector"
    BY <2>1, NoReplyYet DEF Replies
  <2>3. Step("collector")' = "idle" /\ Command("collector")' = ""
    BY <2>1, Goes
  <2> QED BY <2>1, <2>2, <2>3, CountingGoes DEF Counting
<1>10. CASE ReapWaits
  <2>1. UNCHANGED <<at, owed, out>>
    BY <1>10 DEF ReapWaits, qmpVars
  <2> QED BY <2>1, CountingStays DEF Step, Command, Replies
<1>11. CASE ReapCloses
  <2>1. UNCHANGED <<at, owed, out>>
    BY <1>11 DEF ReapCloses, qmpVars
  <2> QED BY <2>1, CountingStays DEF Step, Command, Replies
<1>12. CASE End
  <2>1. at' = [p \in Callers |-> Idle("idle")] /\ out' = <<>> /\ owed' = 0
    BY <1>12 DEF End, Fresh
  <2>2. Replies' = {}
    BY <2>1 DEF Replies
  <2> QED BY <2>1, <2>2 DEF Counting
<1>13. CASE QEMUExecutes
  <2> DEFINE status == [by |-> "collector", command |-> "query-status"]
  <2>1. at' = at /\ owed' = IF Head(pending) = status THEN Unread ELSE owed
    BY <1>13 DEF QEMUExecutes
  <2>2. Step("collector")' = Step("collector") /\ Command("collector")' = Command("collector")
    BY <2>1 DEF Step, Command
  <2>3. /\ 1 \in DOMAIN pending /\ Head(pending) = pending[1]
        /\ Replies' # {} => /\ 1 \in Asked /\ Replies' = {Len(out) + 1}
                            /\ out'[Len(out) + 1].by = pending[1].by
    BY <1>13, Executing
  <2>4. owed \in Nat /\ Unread \in Nat /\ Unread < Len(out) + 1
    BY UnreadCounts, LenProperties DEF Counting, Frames
  <2>5. ASSUME pending[1].by = "collector", "collector" \in Callers
        PROVE  Step("collector") = "reply" /\ pending[1].command = Command("collector")
    <3>1. 1 \in Asked
      BY <2>3, <2>5 DEF Asked
    <3> QED BY <2>5, <3>1 DEF Frames
  <2>6. CASE Head(pending) = status
    <3>1. pending[1].by = "collector" /\ pending[1].command = "query-status"
      BY <2>3, <2>6
    <3>2. "collector" \in Callers =>
            Step("collector") = "reply" /\ Command("collector") = "query-status"
      BY <2>5, <3>1
    <3>3. \A i \in Replies' : owed' < i
      BY <2>1, <2>3, <2>4, <2>6
    <3> QED BY <2>1, <2>2, <2>4, <2>6, <3>2, <3>3 DEF Counting
  <2>7. CASE Head(pending) # status
    <3>1. owed' = owed
      BY <2>1, <2>7
    <3>2. ASSUME "collector" \in Callers, Command("collector") = "query-status",
                 NEW i \in Replies', out'[i].by = "collector"
          PROVE  FALSE
      <4>1. pending[1].by = "collector"
        BY <2>3, <3>2
      <4>2. pending[1].command = "query-status"
        BY <2>5, <3>2, <4>1
      <4> QED BY <2>3, <2>7, <4>1, <4>2, FrameOf
    <3> QED BY <2>2, <2>4, <3>1, <3>2 DEF Counting
  <2> QED BY <2>6, <2>7
<1>14. CASE QEMUEmits
  <2>1. at' = at /\ owed' = owed
    BY <1>14 DEF QEMUEmits
  <2> QED BY <1>14, <2>1, Emitting, CountingStays DEF Step, Command
<1>15. CASE QEMUExits
  <2>1. UNCHANGED <<at, owed, out>>
    BY <1>15 DEF QEMUExits
  <2> QED BY <2>1, CountingStays DEF Step, Command, Replies
<1>16. CASE AgentAnswers
  <2>1. UNCHANGED <<at, owed, out>>
    BY <1>16 DEF AgentAnswers, qmpVars
  <2> QED BY <2>1, CountingStays DEF Step, Command, Replies
<1>17. ASSUME NEW p \in Callers, LeaveGate(p)
      PROVE  Counting'
  <2>1. /\ Step(p) = "gate" /\ Go(p, After(p, Command(p), FALSE))
        /\ UNCHANGED <<owed, out>>
    BY <1>17 DEF LeaveGate, qmpVars
  <2>2. Replies' = Replies /\ Step(p) \in {"gate", "reply"} \cup AgentSteps /\ Step(p) # "reply"
    BY <2>1 DEF Replies, AgentSteps
  <2>3. p = "collector" => \A i \in Replies' : out'[i].by # "collector"
    BY <2>1, <2>2, NoReplyYet
  <2> QED BY <2>1, <2>2, <2>3, CountingEnds
<1>18. ASSUME NEW p \in Callers, SendFails(p)
      PROVE  Counting'
  <2>1. /\ Step(p) = "gate" /\ Go(p, After(p, Command(p), FALSE))
        /\ UNCHANGED <<owed, out>>
    BY <1>18 DEF SendFails, qmpVars
  <2>2. Replies' = Replies /\ Step(p) \in {"gate", "reply"} \cup AgentSteps /\ Step(p) # "reply"
    BY <2>1 DEF Replies, AgentSteps
  <2>3. p = "collector" => \A i \in Replies' : out'[i].by # "collector"
    BY <2>1, <2>2, NoReplyYet
  <2> QED BY <2>1, <2>2, <2>3, CountingEnds
<1>19. ASSUME NEW p \in Callers, Send(p)
      PROVE  Counting'
  <2>1. Step(p) = "gate" /\ Go(p, <<"reply", Command(p)>>) /\ owed' = owed
    BY <1>19 DEF Send
  <2>2. Replies' = {}
    BY <1>19, Sending
  <2>3. CASE p = "collector"
    <3>1. Step(p)' = "reply" /\ Command(p)' = Command(p)
      BY <2>1, Goes
    <3> QED BY <2>1, <2>2, <2>3, <3>1 DEF Counting
  <2>4. CASE p # "collector"
    <3>1. "collector" \in Callers =>
            Step("collector")' = Step("collector") /\ Command("collector")' = Command("collector")
      BY <2>1, <2>4, Moves
    <3> QED BY <2>1, <2>2, <3>1, CountingStays
  <2> QED BY <2>3, <2>4
<1>20. ASSUME NEW p \in Callers, ReadEvent(p)
      PROVE  Counting'
  <2>1. owed' = Counted(owed) /\ at' = at
    BY <1>20 DEF ReadEvent
  <2>2. /\ Replies \subseteq Nat \ {0, 1}
        /\ \A i \in Replies' : i \in Nat /\ i + 1 \in Replies /\ out'[i] = out[i + 1]
    BY <1>20, ReadingEvent
  <2>3. owed \in Nat /\ owed' \in Nat /\ (owed = 0 => owed' = 0)
    BY <2>1 DEF Counting, Counted
  <2>4. \A j \in Nat \ {0} : owed < j + 1 => owed' < j
    BY <2>1, <2>3 DEF Counted
  <2>5. \A i \in Replies' : i # 0
    BY <2>2
  <2>6. ASSUME "collector" \in Callers, Command("collector") = "query-status",
               NEW i \in Replies', out'[i].by = "collector"
        PROVE  owed' < i
    <3>1. owed < i + 1
      BY <2>2, <2>6 DEF Counting
    <3> QED BY <2>2, <2>4, <2>5, <3>1
  <2> QED BY <2>1, <2>3, <2>6 DEF Counting, Step, Command
<1>21. ASSUME NEW p \in Callers, ReadReply(p)
      PROVE  Counting'
  <2>1. /\ Step(p) = "reply" /\ Go(p, After(p, Command(p), Head(out).ok)) /\ owed' = owed
    BY <1>21 DEF ReadReply
  <2>2. /\ 1 \in Replies /\ out[1].by = p /\ out[1] = Head(out) /\ out[1].ok \in BOOLEAN
        /\ Replies' = {}
    BY <1>21, ReadingReply
  <2>3. p = "collector" /\ Command(p) = "query-status" => owed = 0
    BY <2>2 DEF Counting
  <2> QED BY <2>1, <2>2, <2>3, CountingEnds
<1>22. ASSUME NEW p \in Callers, GiveUp(p)
      PROVE  Counting'
  <2>1. Step(p) = "reply" /\ Go(p, After(p, Command(p), FALSE)) /\ owed' = owed
    BY <1>22 DEF GiveUp
  <2> QED BY <1>22, <2>1, GivingUp, CountingEnds
<1>23. ASSUME NEW p \in Callers, LeaveAgentGate(p)
      PROVE  Counting'
  <2>1. /\ Step(p) = "ga-gate" /\ Go(p, After(p, Command(p), FALSE))
        /\ UNCHANGED <<owed, out>>
    BY <1>23 DEF LeaveAgentGate, qmpVars
  <2>2. Replies' = Replies /\ Step(p) \in {"gate", "reply"} \cup AgentSteps /\ Step(p) # "reply"
    BY <2>1 DEF Replies, AgentSteps
  <2>3. p = "collector" => \A i \in Replies' : out'[i].by # "collector"
    BY <2>1, <2>2, NoReplyYet
  <2> QED BY <2>1, <2>2, <2>3, CountingEnds
<1>24. ASSUME NEW p \in Callers, EnterAgentGate(p)
      PROVE  Counting'
  <2>1. Step(p) = "ga-gate" /\ Go(p, <<"ga-dial", Command(p)>>) /\ UNCHANGED <<owed, out>>
    BY <1>24 DEF EnterAgentGate, qmpVars
  <2>2. CASE p = "collector"
    <3>1. Step(p)' = "ga-dial" /\ Command(p)' = Command(p)
      BY <2>1, Goes
    <3>2. Command(p) \in {"guest-info", "guest-get-time"}
      BY <2>1, <2>2, AgentCaller DEF AgentSteps
    <3>3. \A i \in Replies' : out'[i].by # "collector"
      BY <2>1, <2>2, NoReplyYet DEF Replies
    <3> QED BY <2>1, <2>2, <3>1, <3>2, <3>3, CountingGoes DEF Counting
  <2> QED BY <2>1, <2>2, CountingAway
<1>25. ASSUME NEW p \in Callers, Synchronize(p)
      PROVE  Counting'
  <2>1. Step(p) = "ga-dial" /\ Go(p, <<"ga-sync", Command(p)>>) /\ UNCHANGED <<owed, out>>
    BY <1>25 DEF Synchronize, qmpVars
  <2>2. CASE p = "collector"
    <3>1. Step(p)' = "ga-sync" /\ Command(p)' = Command(p)
      BY <2>1, Goes
    <3>2. Command(p) \in {"guest-info", "guest-get-time"}
      BY <2>1, <2>2, AgentCaller DEF AgentSteps
    <3>3. \A i \in Replies' : out'[i].by # "collector"
      BY <2>1, <2>2, NoReplyYet DEF Replies
    <3> QED BY <2>1, <2>2, <3>1, <3>2, <3>3, CountingGoes DEF Counting
  <2> QED BY <2>1, <2>2, CountingAway
<1>26. ASSUME NEW p \in Callers, Synchronized(p)
      PROVE  Counting'
  <2>1. Step(p) = "ga-sync" /\ Go(p, <<"ga-answer", Command(p)>>) /\ UNCHANGED <<owed, out>>
    BY <1>26 DEF Synchronized, qmpVars
  <2>2. CASE p = "collector"
    <3>1. Step(p)' = "ga-answer" /\ Command(p)' = Command(p)
      BY <2>1, Goes
    <3>2. Command(p) \in {"guest-info", "guest-get-time"}
      BY <2>1, <2>2, AgentCaller DEF AgentSteps
    <3>3. \A i \in Replies' : out'[i].by # "collector"
      BY <2>1, <2>2, NoReplyYet DEF Replies
    <3> QED BY <2>1, <2>2, <3>1, <3>2, <3>3, CountingGoes DEF Counting
  <2> QED BY <2>1, <2>2, CountingAway
<1>27. ASSUME NEW p \in Callers, Skip(p)
      PROVE  Counting'
  <2>1. UNCHANGED <<at, owed, out>>
    BY <1>27 DEF Skip, qmpVars
  <2> QED BY <2>1, CountingStays DEF Step, Command, Replies
<1>28. ASSUME NEW p \in Callers, Answered(p)
      PROVE  Counting'
  <2>1. Head(inbox) \in [id : Ids, ok : BOOLEAN]
    BY <1>28, HeadTailProperties DEF Answered, OwnAnswer, Channel
  <2>2. /\ Step(p) \in AgentSteps /\ UNCHANGED <<owed, out>>
        /\ \E ok \in BOOLEAN : Go(p, After(p, Command(p), ok))
    BY <1>28, <2>1 DEF Answered, EndSession, AgentSteps, qmpVars
  <2> QED BY <2>2, CountingSession
<1>29. ASSUME NEW p \in Callers, SessionFails(p)
      PROVE  Counting'
  <2>1. /\ Step(p) \in AgentSteps /\ UNCHANGED <<owed, out>>
        /\ \E ok \in BOOLEAN : Go(p, After(p, Command(p), ok))
    BY <1>29 DEF SessionFails, EndSession, AgentSteps, qmpVars
  <2> QED BY <2>1, CountingSession
<1>30. ASSUME NEW p \in Callers, NoReply(p)
      PROVE  Counting'
  <2>1. Step(p) = "ga-answer" /\ Go(p, After(p, Command(p), TRUE)) /\ UNCHANGED <<owed, out>>
    BY <1>30 DEF NoReply, EndSession, qmpVars
  <2> QED BY <2>1, CountingSession DEF AgentSteps
<1>31. ASSUME NEW p \in Callers, ForceStop(p)
      PROVE  Counting'
  <2>1. /\ Step(p) = "force" /\ UNCHANGED <<owed, out>>
        /\ \E where : Go(p, where)
    BY <1>31 DEF ForceStop, qmpVars
  <2>2. p # "collector"
    BY <2>1, ForcePlaces DEF Course, ForceSteps
  <2> QED BY <2>1, <2>2, CountingAway
<1>32. ASSUME NEW p \in Callers, GraceEnds(p)
      PROVE  Counting'
  <2>1. /\ Step(p) = "grace" /\ UNCHANGED <<owed, out>>
        /\ \E where : Go(p, where)
    BY <1>32 DEF GraceEnds, qmpVars
  <2>2. p # "collector"
    BY <2>1, ForcePlaces DEF Course, ForceSteps
  <2> QED BY <2>1, <2>2, CountingAway
<1>33. ASSUME NEW p \in Callers, Kill(p)
      PROVE  Counting'
  <2>1. /\ Step(p) = "kill" /\ UNCHANGED <<owed, out>>
        /\ \E where : Go(p, where)
    BY <1>33 DEF Kill, qmpVars
  <2>2. p # "collector"
    BY <2>1, ForcePlaces DEF Course, ForceSteps
  <2> QED BY <2>1, <2>2, CountingAway
<1>34. ASSUME NEW p \in Callers, Reaped(p)
      PROVE  Counting'
  <2>1. /\ Step(p) = "reaping" /\ UNCHANGED <<owed, out>>
        /\ \E where : Go(p, where)
    BY <1>34 DEF Reaped, qmpVars
  <2>2. p # "collector"
    BY <2>1, ForcePlaces DEF Course, ForceSteps
  <2> QED BY <2>1, <2>2, CountingAway
<1>35. ASSUME NEW p \in Callers, Call(p)
      PROVE  Counting'
  <2>1. /\ Step(p) \in {"idle", "refused"} /\ UNCHANGED <<owed, out>>
        /\ \E step \in FirstStep(p) : Go(p, step)
    BY <1>35 DEF Call, qmpVars
  <2>2. CASE p = "collector"
    <3>1. PICK step \in FirstStep(p) : Go(p, step)
      BY <2>1
    <3>2. step \in {<<"gate", "query-status">>, <<"ga-gate", "guest-info">>}
      BY <2>2 DEF FirstStep
    <3>3. step[1] \in {"gate", "ga-gate"} /\ step[2] \in {"query-status", "guest-info"}
      BY <3>2
    <3>4. Step(p)' \in {"gate", "ga-gate"} /\ Command(p)' \in {"query-status", "guest-info"}
      BY <3>1, <3>3, Moves
    <3>5. \A i \in Replies' : out'[i].by # "collector"
      BY <2>1, <2>2, NoReplyYet DEF Replies
    <3> QED BY <2>1, <2>2, <3>4, <3>5, CountingGoes DEF Counting
  <2> QED BY <2>1, <2>2, CountingAway
<1>36. ASSUME NEW p \in Callers, Expire(p)
      PROVE  Counting'
  <2>1. UNCHANGED <<at, owed, out>>
    BY <1>36 DEF Expire, qmpVars
  <2> QED BY <2>1, CountingStays DEF Step, Command, Replies
<1>37. ASSUME NEW p \in Callers, Unreadable(p)
      PROVE  Counting'
  <2>1. /\ Step(p) \in AgentSteps /\ UNCHANGED <<owed, out>>
        /\ Go(p, After(p, Command(p), FALSE))
    BY <1>37 DEF Unreadable, EndSession, AgentSteps, qmpVars
  <2> QED BY <2>1, CountingSession
<1>38. CASE UNCHANGED vars
  BY <1>38, CountingStays DEF vars, qmpVars, Step, Command, Replies
<1> QED BY <1>0, <1>1, <1>2, <1>3, <1>4, <1>5, <1>6, <1>7, <1>8, <1>9, <1>10, <1>11,
     <1>12, <1>13, <1>14, <1>15, <1>16, <1>17, <1>18, <1>19, <1>20, <1>21, <1>22, <1>23,
     <1>24, <1>25, <1>26, <1>27, <1>28, <1>29, <1>30, <1>31, <1>32, <1>33, <1>34, <1>35,
     <1>36, <1>37, <1>38 DEF Next, StartStep, ForceStep, QMPStep, AgentStep, Reap

-----------------------------------------------------------------------------
(* The sessions with the guest agent. *)

\* Who can be connected to the guest agent.
LEMMA AgentTrack ==
  ASSUME NEW p, NEW where \in Track(p), where[1] \in {"ga-dial", "ga-sync", "ga-answer"}
  PROVE  p \in {"shutdown", "collector", "ping"}
<1>1. where[1] \notin OwnSteps(p) \cup {"gate", "reply"}
  BY DEF OwnSteps, ForceSteps
<1>2. where \in AgentSteps \X AgentCommands(p)
  BY <1>1 DEF Track
<1> QED BY <1>2 DEF AgentCommands

\* No command ends inside a session.
LEMMA AfterAway ==
  ASSUME NEW p, NEW command, NEW ok \in BOOLEAN
  PROVE  After(p, command, ok)[1] \notin {"ga-dial", "ga-sync", "ga-answer"}
<1> DEFINE next  == After(p, command, ok)
           Steps == {"up", "unsecret", "force", "grace", "kill", "accepted", "refused", "idle",
                     "events"}
<1>1. \/ \E s \in Steps : next = Idle(s)
      \/ \E s \in {"gate", "ga-gate"} : \E c : next = <<s, c>>
  BY DEF After, StarterNext, ShutdownNext, CollectorNext, BlocksNext
<1> HIDE DEF next
<1>2. next[1] \in Steps \cup {"gate", "ga-gate"}
  BY <1>1, First
<1> QED BY <1>2 DEF next

\* A step that moves nobody into a session or out of one, and leaves the channel alone or
\* clears what the agent was asked.
LEMMA SessionStays ==
  ASSUME Session, UNCHANGED <<qgaGate, mine, inbox>>, requests' = requests \/ requests' = <<>>,
         \A q \in Callers : Step(q)' = Step(q) \/ (~Connected(q) /\ ~Connected(q)')
  PROVE  Session'
<1>1. \A q \in Callers, s \in {"ga-dial", "ga-sync", "ga-answer"} :
        Step(q)' = s <=> Step(q) = s
  BY DEF Connected
<1>2. \A i \in DOMAIN requests' : i \in DOMAIN requests /\ requests' = requests
  OBVIOUS
<1>3. InOrder => InOrder'
  BY <1>2 DEF InOrder
<1>4. SyncDiscardsStale'
  BY <1>1, <1>2 DEF Session, SyncDiscardsStale
<1>5. \A q \in Callers : Connected(q)' => qgaGate' = q
  BY <1>1 DEF Session, Connected
<1>6. (\A q \in Callers : Step(q)' \notin {"ga-sync", "ga-answer"}) =>
        /\ mine' = None /\ inbox' = <<>>
        /\ \A i \in DOMAIN requests' : requests'[i].session = "earlier"
  BY <1>1, <1>2 DEF Session
<1>7. \A q \in Callers : Step(q)' = "ga-sync" => mine' = NewId("sync") /\ InOrder'
  BY <1>1, <1>3 DEF Session, NewId
<1> QED BY <1>4, <1>5, <1>6, <1>7 DEF Session, NewId

\* A caller that is in no session goes to where it is in none.
LEMMA SessionAway ==
  ASSUME Course, Session, NEW p \in Callers, ~Connected(p), NEW where, Go(p, where),
         where[1] \notin {"ga-dial", "ga-sync", "ga-answer"},
         UNCHANGED <<qgaGate, mine, inbox>>, requests' = requests \/ requests' = <<>>
  PROVE  Session'
<1>1. Step(p)' = where[1] /\ \A q \in Callers \ {p} : Step(q)' = Step(q)
  BY Moves
<1>2. ~Connected(p)'
  BY <1>1 DEF Connected
<1> QED BY <1>1, <1>2, SessionStays

\* The starter, or a ForceStop, goes on.
LEMMA SessionOther ==
  ASSUME Course, Course', Session, NEW p \in Callers, p \in {"starter", "force"},
         \E where : Go(p, where),
         UNCHANGED <<qgaGate, mine, inbox>>, requests' = requests \/ requests' = <<>>
  PROVE  Session'
<1>1. PICK where : Go(p, where)
  OBVIOUS
<1>2. at[p] \in Track(p) /\ at'[p] \in Track(p) /\ at'[p] = where
  BY <1>1 DEF Course, Go
<1>3. ~Connected(p)
  BY <1>2, AgentTrack DEF Connected, Step
<1>4. where[1] \notin {"ga-dial", "ga-sync", "ga-answer"}
  BY <1>2, AgentTrack
<1> QED BY <1>1, <1>3, <1>4, SessionAway

\* Only the caller that is connected is.
LEMMA Alone ==
  ASSUME Session, NEW p \in Callers, Connected(p)
  PROVE  \A q \in Callers \ {p} : ~Connected(q)
BY DEF Session

\* The end of a session.
LEMMA SessionEnds ==
  ASSUME Channel, Course, Session, NEW p \in Callers, Connected(p), NEW ok \in BOOLEAN,
         EndSession(p, ok)
  PROVE  Session'
<1>1. /\ mine' = None /\ inbox' = <<>>
      /\ requests' = [i \in DOMAIN requests |-> [requests[i] EXCEPT !.session = "earlier"]]
      /\ Go(p, After(p, Command(p), ok))
  BY DEF EndSession
<1>2. Step(p)' \notin {"ga-dial", "ga-sync", "ga-answer"}
      /\ \A q \in Callers \ {p} : Step(q)' = Step(q)
  BY <1>1, AfterAway, Moves
<1>3. \A q \in Callers : Step(q)' \notin {"ga-dial", "ga-sync", "ga-answer"}
  BY <1>2, Alone DEF Connected
<1>4. \A i \in DOMAIN requests' : requests'[i].session = "earlier"
  <2>1. \A i \in DOMAIN requests : requests[i] \in Ids
    BY ElementOfSeq, LenProperties DEF Channel
  <2> QED BY <1>1, <2>1 DEF Ids
<1> QED BY <1>1, <1>3, <1>4 DEF Session, SyncDiscardsStale, Connected

\* Reading or answering what is first on the channel.
LEMMA TailOf ==
  ASSUME NEW S, NEW queue \in Seq(S), queue # <<>>
  PROVE  /\ Len(queue) \in Nat \ {0} /\ Head(queue) = queue[1] /\ 1 \in DOMAIN queue
         /\ Tail(queue) \in Seq(S) /\ Len(Tail(queue)) = Len(queue) - 1
         /\ \A i \in DOMAIN Tail(queue) :
              i \in Nat \ {0} /\ i + 1 \in DOMAIN queue /\ Tail(queue)[i] = queue[i + 1]
         /\ Len(queue) = 1 => Tail(queue) = <<>>
<1>1. Len(queue) \in Nat /\ DOMAIN queue = 1..Len(queue) /\ Len(queue) # 0
  BY LenProperties, EmptySeq
<1>2. Tail(queue) \in Seq(S) /\ Len(Tail(queue)) = Len(queue) - 1 /\ Head(queue) = queue[1]
  BY HeadTailProperties
<1>3. DOMAIN Tail(queue) = 1..(Len(queue) - 1)
  BY <1>2, LenProperties
<1>4. \A i \in 1..(Len(queue) - 1) : Tail(queue)[i] = queue[i + 1]
  BY HeadTailProperties
<1>5. Len(queue) = 1 => Tail(queue) = <<>>
  <2>1. \A seq \in Seq(S) : seq # <<>> => Len(seq) \in Nat \ {0}
    BY EmptySeq
  <2>2. Tail(queue) # <<>> => Len(queue) - 1 \in Nat \ {0}
    BY <2>1, <1>2
  <2> QED BY <2>2
<1> QED BY <1>1, <1>2, <1>3, <1>4, <1>5

\* The answers that a session skips.
LEMMA Skipping ==
  ASSUME Channel, Session, NEW p \in Callers, Skip(p)
  PROVE  Session'
<1>1. /\ Step(p) \in {"ga-sync", "ga-answer"} /\ inbox # <<>> /\ inbox' = Tail(inbox)
      /\ UNCHANGED <<at, qgaGate, mine, requests>>
  BY DEF Skip
<1>2. \A q \in Callers : Step(q)' = Step(q)
  BY <1>1 DEF Step
<1>3. /\ Len(inbox') = Len(inbox) - 1 /\ Len(inbox) \in Nat
      /\ \A i \in DOMAIN inbox' : i \in Nat /\ i + 1 \in DOMAIN inbox /\ inbox'[i] = inbox[i + 1]
  <2>1. inbox \in Seq([id : Ids, ok : BOOLEAN])
    BY DEF Channel
  <2> QED BY <1>1, <2>1, TailOf
<1>4. InOrder => InOrder'
  <2>1. ASSUME InOrder, NEW i \in DOMAIN inbox', inbox'[i].id = mine
        PROVE  i = Len(inbox') /\ requests = <<>>
    <3>1. i + 1 = Len(inbox) /\ requests = <<>>
      BY <1>3, <2>1 DEF InOrder
    <3> QED BY <1>3, <3>1
  <2> QED BY <1>1, <2>1 DEF InOrder
<1>5. SyncDiscardsStale'
  BY <1>1, <1>2, <1>3 DEF Session, SyncDiscardsStale
<1>6. \A q \in Callers : Connected(q)' => qgaGate' = q
  BY <1>1, <1>2 DEF Session, Connected
<1> QED BY <1>1, <1>2, <1>4, <1>5, <1>6 DEF Session, NewId

\* The agent answers what it was asked first.
LEMMA Answering ==
  ASSUME Channel, Session, AgentAnswers
  PROVE  Session'
<1>1. /\ requests # <<>> /\ requests' = Tail(requests)
      /\ UNCHANGED <<at, qgaGate, mine>>
      /\ \/ /\ mine # None
            /\ \E ok \in BOOLEAN : inbox' = Append(inbox, [id |-> Head(requests), ok |-> ok])
         \/ inbox' = inbox
  BY DEF AgentAnswers
<1>2. \A q \in Callers : Step(q)' = Step(q)
  BY <1>1 DEF Step
<1>3. /\ Len(requests) \in Nat \ {0} /\ Head(requests) = requests[1] /\ 1 \in DOMAIN requests
      /\ Len(requests') = Len(requests) - 1
      /\ \A i \in DOMAIN requests' :
           i \in Nat \ {0} /\ i + 1 \in DOMAIN requests /\ requests'[i] = requests[i + 1]
      /\ Len(requests) = 1 => requests' = <<>>
  <2>1. requests \in Seq(Ids)
    BY DEF Channel
  <2> QED BY <1>1, <2>1, TailOf
<1>4. CASE inbox' = inbox
  <2>1. ASSUME InOrder PROVE InOrder'
    <3>1. ASSUME NEW i \in DOMAIN requests', requests'[i] = mine PROVE i = Len(requests')
      <4>1. i + 1 = Len(requests)
        BY <1>3, <2>1, <3>1 DEF InOrder
      <4> QED BY <1>3, <4>1
    <3>2. \A i \in DOMAIN inbox : inbox[i].id # mine
      BY <1>1, <2>1 DEF InOrder
    <3> QED BY <1>1, <1>4, <3>1, <3>2 DEF InOrder
  <2>2. SyncDiscardsStale'
    BY <1>1, <1>2, <1>3, <1>4 DEF Session, SyncDiscardsStale
  <2>3. \A q \in Callers : Connected(q)' => qgaGate' = q
    BY <1>1, <1>2 DEF Session, Connected
  <2>4. (\A q \in Callers : Step(q)' \notin {"ga-sync", "ga-answer"}) =>
          /\ mine' = None /\ inbox' = <<>>
          /\ \A i \in DOMAIN requests' : requests'[i].session = "earlier"
    BY <1>1, <1>2, <1>3, <1>4 DEF Session
  <2> QED BY <1>1, <1>2, <2>1, <2>2, <2>3, <2>4 DEF Session, NewId
<1>5. CASE mine # None /\ inbox' # inbox
  <2>1. PICK ok \in BOOLEAN : inbox' = Append(inbox, [id |-> Head(requests), ok |-> ok])
    BY <1>1, <1>5
  <2> DEFINE answer == [id |-> Head(requests), ok |-> ok]
  <2>2. /\ Len(inbox) \in Nat /\ Len(inbox') = Len(inbox) + 1
        /\ inbox'[Len(inbox) + 1].id = requests[1]
        /\ \A i \in DOMAIN inbox' :
             i = Len(inbox) + 1 \/ (i \in DOMAIN inbox /\ inbox'[i] = inbox[i])
    <3>1. inbox \in Seq([id : Ids, ok : BOOLEAN]) /\ requests \in Seq(Ids)
      BY DEF Channel
    <3>2. requests[1] \in Ids
      BY <1>3, <3>1, ElementOfSeq, LenProperties
    <3>3. answer \in [id : Ids, ok : BOOLEAN] /\ answer.id = requests[1]
      BY <1>3, <3>2
    <3> HIDE DEF answer
    <3>4. inbox' = Append(inbox, answer)
      BY <2>1 DEF answer
    <3>5. /\ Len(inbox') = Len(inbox) + 1 /\ inbox'[Len(inbox) + 1] = answer
          /\ \A i \in 1..Len(inbox) : inbox'[i] = inbox[i]
          /\ inbox' \in Seq([id : Ids, ok : BOOLEAN])
      BY <3>1, <3>3, <3>4, AppendProperties
    <3>6. Len(inbox) \in Nat /\ DOMAIN inbox = 1..Len(inbox) /\ DOMAIN inbox' = 1..Len(inbox')
      BY <3>1, <3>5, LenProperties
    <3> QED BY <3>3, <3>5, <3>6
  <2> HIDE DEF answer
  <2>3. ~(\A q \in Callers : Step(q) \notin {"ga-sync", "ga-answer"})
    BY <1>5 DEF Session
  <2>4. ASSUME InOrder PROVE InOrder'
    <3>1. ASSUME NEW i \in DOMAIN requests', requests'[i] = mine PROVE i = Len(requests')
      <4>1. i + 1 = Len(requests)
        BY <1>3, <2>4, <3>1 DEF InOrder
      <4> QED BY <1>3, <4>1
    <3>2. ASSUME NEW i \in DOMAIN inbox', inbox'[i].id = mine
          PROVE  i = Len(inbox') /\ requests' = <<>>
      <4>1. i = Len(inbox) + 1
        BY <1>1, <2>2, <2>4, <3>2 DEF InOrder
      <4>2. requests[1] = mine
        BY <2>2, <3>2, <4>1
      <4>3. Len(requests) = 1
        BY <1>3, <2>4, <4>2 DEF InOrder
      <4> QED BY <1>3, <2>2, <4>1, <4>3
    <3> QED BY <1>1, <3>1, <3>2 DEF InOrder
  <2>5. SyncDiscardsStale'
    <3>1. ASSUME NEW q \in Callers, Step(q)' = "ga-answer"
          PROVE  /\ \A i \in DOMAIN requests' : requests'[i] = mine
                 /\ \A i \in DOMAIN inbox' : inbox'[i].id = mine
      <4>1. /\ \A i \in DOMAIN requests : requests[i] = mine
            /\ \A i \in DOMAIN inbox : inbox[i].id = mine
        BY <1>2, <3>1 DEF Session, SyncDiscardsStale
      <4> QED BY <1>3, <2>2, <4>1
    <3> QED BY <1>1, <3>1 DEF SyncDiscardsStale
  <2>6. \A q \in Callers : Connected(q)' => qgaGate' = q
    BY <1>1, <1>2 DEF Session, Connected
  <2> QED BY <1>1, <1>2, <2>3, <2>4, <2>5, <2>6 DEF Session, NewId
<1> QED BY <1>1, <1>4, <1>5

\* A session begins.
LEMMA Synchronizing ==
  ASSUME Channel, Course, Session, NEW p \in Callers, Synchronize(p)
  PROVE  Session'
<1>1. /\ Step(p) = "ga-dial" /\ Go(p, <<"ga-sync", Command(p)>>)
      /\ mine' = NewId("sync") /\ requests' = Append(requests, mine')
      /\ UNCHANGED <<qgaGate, inbox>>
  BY DEF Synchronize
<1>2. Step(p)' = "ga-sync" /\ \A q \in Callers \ {p} : Step(q)' = Step(q) /\ ~Connected(q)
  BY <1>1, Goes, Moves, Alone DEF Connected
<1>3. inbox = <<>> /\ \A i \in DOMAIN requests : requests[i].session = "earlier"
  BY <1>1, <1>2 DEF Session, Connected
<1>4. InOrder'
  <2>1. requests \in Seq(Ids) /\ mine' \in Ids /\ mine'.session = "this"
    BY <1>1 DEF Channel, NewId, Ids
  <2>2. /\ Len(requests') = Len(requests) + 1 /\ requests' \in Seq(Ids)
        /\ \A i \in 1..Len(requests) : requests'[i] = requests[i]
    BY <1>1, <2>1, AppendProperties
  <2>3. /\ Len(requests) \in Nat /\ DOMAIN requests = 1..Len(requests)
        /\ DOMAIN requests' = 1..Len(requests')
    BY <2>1, <2>2, LenProperties
  <2>4. ASSUME NEW i \in DOMAIN requests', requests'[i] = mine' PROVE i = Len(requests')
    BY <1>3, <2>1, <2>2, <2>3, <2>4
  <2> QED BY <1>1, <1>3, <2>4 DEF InOrder
<1>5. \A q \in Callers : Step(q)' # "ga-answer"
  BY <1>2 DEF Connected
<1>6. \A q \in Callers : Connected(q)' => qgaGate' = q
  BY <1>1, <1>2 DEF Session, Connected
<1> QED BY <1>1, <1>2, <1>4, <1>5, <1>6 DEF Session, SyncDiscardsStale, NewId

\* The command is sent once nothing else is on the channel.
LEMMA CommandSent ==
  ASSUME Channel, Course, Session, NEW p \in Callers, Synchronized(p)
  PROVE  Session'
<1>1. /\ Step(p) = "ga-sync" /\ inbox # <<>> /\ Head(inbox).id = mine
      /\ requests' = Append(requests, mine') /\ inbox' = Tail(inbox)
      /\ Go(p, <<"ga-answer", Command(p)>>) /\ UNCHANGED qgaGate
  BY DEF Synchronized, OwnAnswer, Matches
<1>2. Step(p)' = "ga-answer" /\ \A q \in Callers \ {p} : Step(q)' = Step(q) /\ ~Connected(q)
  BY <1>1, Goes, Moves, Alone DEF Connected
<1>3. inbox' = <<>> /\ requests = <<>>
  <2>1. inbox \in Seq([id : Ids, ok : BOOLEAN])
    BY DEF Channel
  <2>2. Head(inbox) = inbox[1] /\ 1 \in DOMAIN inbox /\ (Len(inbox) = 1 => Tail(inbox) = <<>>)
    BY <1>1, <2>1, TailOf
  <2>3. InOrder
    BY <1>1 DEF Session
  <2> QED BY <1>1, <2>2, <2>3 DEF InOrder
<1>4. \A i \in DOMAIN requests' : requests'[i] = mine'
  BY <1>1, <1>3
<1>5. SyncDiscardsStale'
  BY <1>3, <1>4 DEF SyncDiscardsStale
<1>6. \A q \in Callers : Connected(q)' => qgaGate' = q
  BY <1>1, <1>2 DEF Session, Connected
<1>7. \A q \in Callers : Step(q)' # "ga-sync"
  BY <1>2 DEF Connected
<1> QED BY <1>2, <1>5, <1>6, <1>7 DEF Session

\* What is on the guest agent's channel belongs where it is.
LEMMA NextSession ==
  ASSUME Channel, Course, Course', Frames, Session, [Next]_vars
  PROVE  Session'
<1>0. Next \/ UNCHANGED vars
  OBVIOUS
<1>1. CASE ConfigureVM
  <2>1. UNCHANGED <<at, qgaGate, mine, inbox, requests>>
    BY <1>1 DEF ConfigureVM, agentVars
  <2> QED BY <2>1, SessionStays DEF Step
<1>2. CASE Start
  <2>1. (\E where : Go("starter", where)) /\ UNCHANGED agentVars
    BY <1>2 DEF Start
  <2> QED BY <2>1, SessionOther DEF agentVars, Callers
<1>3. CASE WriteSecret
  <2>1. (\E where : Go("starter", where)) /\ UNCHANGED agentVars
    BY <1>3 DEF WriteSecret
  <2> QED BY <2>1, SessionOther DEF agentVars, Callers
<1>4. CASE Fork
  <2>1. (\E where : Go("starter", where)) /\ UNCHANGED agentVars
    BY <1>4 DEF Fork
  <2> QED BY <2>1, SessionOther DEF agentVars, Callers
<1>5. CASE Connect
  <2>1. (\E where : Go("starter", where)) /\ UNCHANGED agentVars
    BY <1>5 DEF Connect
  <2> QED BY <2>1, SessionOther DEF agentVars, Callers
<1>6. CASE Adopt
  <2>1. (\E where : Go("starter", where)) /\ UNCHANGED agentVars
    BY <1>6 DEF Adopt
  <2> QED BY <2>1, SessionOther DEF agentVars, Callers
<1>7. CASE RemoveSecret
  <2>1. (\E where : Go("starter", where)) /\ UNCHANGED agentVars
    BY <1>7 DEF RemoveSecret
  <2> QED BY <2>1, SessionOther DEF agentVars, Callers
<1>8. CASE CleanSecret
  <2>1. (\E where : Go("starter", where)) /\ UNCHANGED agentVars
    BY <1>8 DEF CleanSecret
  <2> QED BY <2>1, SessionOther DEF agentVars, Callers
<1>9. CASE ReadCounters
  <2>1. /\ "collector" \in Callers /\ Step("collector") = "events"
        /\ Go("collector", Idle("idle")) /\ UNCHANGED agentVars
    BY <1>9 DEF ReadCounters
  <2>2. Idle("idle")[1] = "idle" /\ ~Connected("collector")
    BY <2>1, First DEF Connected
  <2> QED BY <2>1, <2>2, SessionAway DEF agentVars
<1>10. CASE ReapWaits
  <2>1. UNCHANGED <<at, qgaGate, mine, inbox, requests>>
    BY <1>10 DEF ReapWaits, agentVars
  <2> QED BY <2>1, SessionStays DEF Step
<1>11. CASE ReapCloses
  <2>1. UNCHANGED <<at, qgaGate, mine, inbox, requests>>
    BY <1>11 DEF ReapCloses, agentVars
  <2> QED BY <2>1, SessionStays DEF Step
<1>12. CASE End
  <2>1. /\ at' = [p \in Callers |-> Idle("idle")]
        /\ mine' = None /\ inbox' = <<>> /\ requests' = <<>>
    BY <1>12 DEF End, Fresh
  <2>2. \A p \in Callers : Step(p)' = "idle"
    BY <2>1, First DEF Step
  <2> QED BY <2>1, <2>2 DEF Session, SyncDiscardsStale, Connected
<1>13. CASE QEMUExecutes
  <2>1. UNCHANGED <<at, qgaGate, mine, inbox, requests>>
    BY <1>13 DEF QEMUExecutes, agentVars
  <2> QED BY <2>1, SessionStays DEF Step
<1>14. CASE QEMUEmits
  <2>1. UNCHANGED <<at, qgaGate, mine, inbox, requests>>
    BY <1>14 DEF QEMUEmits, agentVars
  <2> QED BY <2>1, SessionStays DEF Step
<1>15. CASE QEMUExits
  <2>1. UNCHANGED <<at, qgaGate, mine, inbox>> /\ requests' = <<>>
    BY <1>15 DEF QEMUExits
  <2> QED BY <2>1, SessionStays DEF Step
<1>16. CASE AgentAnswers
  BY <1>16, Answering
<1>17. ASSUME NEW p \in Callers, LeaveGate(p)
      PROVE  Session'
  <2>1. Step(p) = "gate" /\ Go(p, After(p, Command(p), FALSE)) /\ UNCHANGED agentVars
    BY <1>17 DEF LeaveGate
  <2>2. ~Connected(p)
    BY <2>1 DEF Connected
  <2> QED BY <2>1, <2>2, AfterAway, SessionAway DEF agentVars
<1>18. ASSUME NEW p \in Callers, SendFails(p)
      PROVE  Session'
  <2>1. Step(p) = "gate" /\ Go(p, After(p, Command(p), FALSE)) /\ UNCHANGED agentVars
    BY <1>18 DEF SendFails
  <2>2. ~Connected(p)
    BY <2>1 DEF Connected
  <2> QED BY <2>1, <2>2, AfterAway, SessionAway DEF agentVars
<1>19. ASSUME NEW p \in Callers, Send(p)
      PROVE  Session'
  <2>1. Step(p) = "gate" /\ Go(p, <<"reply", Command(p)>>) /\ UNCHANGED agentVars
    BY <1>19 DEF Send
  <2>2. ~Connected(p)
    BY <2>1 DEF Connected
  <2> QED BY <2>1, <2>2, SessionAway DEF agentVars
<1>20. ASSUME NEW p \in Callers, ReadEvent(p)
      PROVE  Session'
  <2>1. UNCHANGED <<at, qgaGate, mine, inbox, requests>>
    BY <1>20 DEF ReadEvent, agentVars
  <2> QED BY <2>1, SessionStays DEF Step
<1>21. ASSUME NEW p \in Callers, ReadReply(p)
      PROVE  Session'
  <2>1. Step(p) = "reply" /\ Go(p, After(p, Command(p), Head(out).ok)) /\ UNCHANGED agentVars
    BY <1>21 DEF ReadReply
  <2>2. ~Connected(p)
    BY <2>1 DEF Connected
  <2>3. Head(out).ok \in BOOLEAN
    BY <1>21, ReadingReply
  <2> QED BY <2>1, <2>2, <2>3, AfterAway, SessionAway DEF agentVars
<1>22. ASSUME NEW p \in Callers, GiveUp(p)
      PROVE  Session'
  <2>1. Step(p) = "reply" /\ Go(p, After(p, Command(p), FALSE)) /\ UNCHANGED agentVars
    BY <1>22 DEF GiveUp
  <2>2. ~Connected(p)
    BY <2>1 DEF Connected
  <2> QED BY <2>1, <2>2, AfterAway, SessionAway DEF agentVars
<1>23. ASSUME NEW p \in Callers, LeaveAgentGate(p)
      PROVE  Session'
  <2>1. Step(p) = "ga-gate" /\ Go(p, After(p, Command(p), FALSE)) /\ UNCHANGED agentVars
    BY <1>23 DEF LeaveAgentGate
  <2>2. ~Connected(p)
    BY <2>1 DEF Connected
  <2> QED BY <2>1, <2>2, AfterAway, SessionAway DEF agentVars
<1>24. ASSUME NEW p \in Callers, EnterAgentGate(p)
      PROVE  Session'
  <2>1. /\ Step(p) = "ga-gate" /\ qgaGate = None /\ qgaGate' = p
        /\ Go(p, <<"ga-dial", Command(p)>>) /\ UNCHANGED <<mine, requests, inbox>>
    BY <1>24 DEF EnterAgentGate
  <2>2. \A q \in Callers : ~Connected(q)
    BY <2>1, Names DEF Session
  <2>3. Step(p)' = "ga-dial" /\ \A q \in Callers \ {p} : Step(q)' = Step(q)
    BY <2>1, Goes, Moves
  <2>4. /\ \A q \in Callers : Connected(q)' => q = p
        /\ \A q \in Callers : Step(q)' \notin {"ga-sync", "ga-answer"}
    BY <2>2, <2>3 DEF Connected
  <2>5. /\ mine = None /\ inbox = <<>>
        /\ \A i \in DOMAIN requests : requests[i].session = "earlier"
    BY <2>2 DEF Session, Connected
  <2> QED BY <2>1, <2>4, <2>5 DEF Session, SyncDiscardsStale
<1>25. ASSUME NEW p \in Callers, Synchronize(p)
      PROVE  Session'
  BY <1>25, Synchronizing
<1>26. ASSUME NEW p \in Callers, Synchronized(p)
      PROVE  Session'
  BY <1>26, CommandSent
<1>27. ASSUME NEW p \in Callers, Skip(p)
      PROVE  Session'
  BY <1>27, Skipping
<1>28. ASSUME NEW p \in Callers, Answered(p)
      PROVE  Session'
  <2>1. Head(inbox) \in [id : Ids, ok : BOOLEAN]
    BY <1>28, HeadTailProperties DEF Answered, OwnAnswer, Channel
  <2>2. Connected(p) /\ \E ok \in BOOLEAN : EndSession(p, ok)
    BY <1>28, <2>1 DEF Answered, Connected
  <2> QED BY <2>2, SessionEnds
<1>29. ASSUME NEW p \in Callers, SessionFails(p)
      PROVE  Session'
  <2>1. Connected(p) /\ \E ok \in BOOLEAN : EndSession(p, ok)
    BY <1>29 DEF SessionFails, Connected
  <2> QED BY <2>1, SessionEnds
<1>30. ASSUME NEW p \in Callers, NoReply(p)
      PROVE  Session'
  <2>1. Connected(p) /\ EndSession(p, TRUE)
    BY <1>30 DEF NoReply, Connected
  <2> QED BY <2>1, SessionEnds
<1>31. ASSUME NEW p \in Callers, ForceStop(p)
      PROVE  Session'
  <2>1. /\ Step(p) = "force" /\ \E where : Go(p, where)
        /\ UNCHANGED <<qgaGate, mine, inbox>> /\ (requests' = requests \/ requests' = <<>>)
    BY <1>31 DEF ForceStop, agentVars
  <2>2. p \in {"starter", "force"}
    BY <2>1, ForcePlaces DEF Course, ForceSteps
  <2> QED BY <2>1, <2>2, SessionOther
<1>32. ASSUME NEW p \in Callers, GraceEnds(p)
      PROVE  Session'
  <2>1. /\ Step(p) = "grace" /\ \E where : Go(p, where)
        /\ UNCHANGED <<qgaGate, mine, inbox>> /\ (requests' = requests \/ requests' = <<>>)
    BY <1>32 DEF GraceEnds, agentVars
  <2>2. p \in {"starter", "force"}
    BY <2>1, ForcePlaces DEF Course, ForceSteps
  <2> QED BY <2>1, <2>2, SessionOther
<1>33. ASSUME NEW p \in Callers, Kill(p)
      PROVE  Session'
  <2>1. /\ Step(p) = "kill" /\ \E where : Go(p, where)
        /\ UNCHANGED <<qgaGate, mine, inbox>> /\ (requests' = requests \/ requests' = <<>>)
    BY <1>33 DEF Kill, agentVars
  <2>2. p \in {"starter", "force"}
    BY <2>1, ForcePlaces DEF Course, ForceSteps
  <2> QED BY <2>1, <2>2, SessionOther
<1>34. ASSUME NEW p \in Callers, Reaped(p)
      PROVE  Session'
  <2>1. /\ Step(p) = "reaping" /\ \E where : Go(p, where)
        /\ UNCHANGED <<qgaGate, mine, inbox>> /\ (requests' = requests \/ requests' = <<>>)
    BY <1>34 DEF Reaped, agentVars
  <2>2. p \in {"starter", "force"}
    BY <2>1, ForcePlaces DEF Course, ForceSteps
  <2> QED BY <2>1, <2>2, SessionOther
<1>35. ASSUME NEW p \in Callers, Call(p)
      PROVE  Session'
  <2>1. /\ Step(p) \in {"idle", "refused"} /\ p # "starter" /\ UNCHANGED agentVars
        /\ \E step \in FirstStep(p) : Go(p, step)
    BY <1>35 DEF Call
  <2>2. PICK step \in FirstStep(p) : Go(p, step)
    BY <2>1
  <2>3. step[1] \in {"gate", "ga-gate", "force"}
    BY <2>1, FirstOnTrack
  <2>4. ~Connected(p)
    BY <2>1 DEF Connected
  <2> QED BY <2>1, <2>2, <2>3, <2>4, SessionAway DEF agentVars
<1>36. ASSUME NEW p \in Callers, Expire(p)
      PROVE  Session'
  <2>1. UNCHANGED <<at, qgaGate, mine, inbox, requests>>
    BY <1>36 DEF Expire, agentVars
  <2> QED BY <2>1, SessionStays DEF Step
<1>37. ASSUME NEW p \in Callers, Unreadable(p)
      PROVE  Session'
  <2>1. Connected(p) /\ EndSession(p, FALSE)
    BY <1>37 DEF Unreadable, Connected
  <2> QED BY <2>1, SessionEnds
<1>38. CASE UNCHANGED vars
  BY <1>38, SessionStays DEF vars, agentVars, Step
<1> QED BY <1>0, <1>1, <1>2, <1>3, <1>4, <1>5, <1>6, <1>7, <1>8, <1>9, <1>10, <1>11,
     <1>12, <1>13, <1>14, <1>15, <1>16, <1>17, <1>18, <1>19, <1>20, <1>21, <1>22, <1>23,
     <1>24, <1>25, <1>26, <1>27, <1>28, <1>29, <1>30, <1>31, <1>32, <1>33, <1>34, <1>35,
     <1>36, <1>37, <1>38 DEF Next, StartStep, ForceStep, QMPStep, AgentStep, Reap

-----------------------------------------------------------------------------
(* The invariant and what it gives. *)

LEMMA InitIInv ==
  ASSUME Init
  PROVE  IInv
<1>1. Channel
  BY DEF Init, Channel
<1>2. Course
  BY RestsOnTrack DEF Init, Course
<1>3. Configured
  BY DEF Init, ConfigInit, Configured
<1>4. \A p \in Callers : Step(p) = "idle" /\ Command(p) = ""
  BY First, Second DEF Init, Step, Command
<1>5. Asked = {} /\ Replies = {}
  BY DEF Init, Asked, Replies
<1>6. Frames
  <2>1. pending = <<>> /\ out = <<>> /\ decoder = "good" /\ gate = None
    BY DEF Init
  <2>2. <<>> \in Seq(Written) /\ <<>> \in Seq(Unseen)
    OBVIOUS
  <2>3. \A p \in Callers : Step(p) # "reply" /\ gate # p
    BY <1>4, <2>1, Names
  <2> QED BY <1>5, <2>1, <2>2, <2>3 DEF Frames
<1>7. Starting
  BY <1>4 DEF Init, Starting, Callers
<1>8. Asking
  BY <1>4, <1>5 DEF Asking, Callers
<1>9. Counting
  BY <1>4, <1>5 DEF Init, Counting
<1>10. Session
  <2>1. mine = None /\ requests = <<>> /\ inbox = <<>> /\ qgaGate = None
    BY DEF Init
  <2>2. \A p \in Callers : Step(p) # "ga-sync" /\ Step(p) # "ga-answer"
    BY <1>4
  <2>3. \A p \in Callers : ~Connected(p)
    BY <1>4 DEF Connected
  <2>4. SyncDiscardsStale
    BY <2>2 DEF SyncDiscardsStale
  <2>5. \A i \in DOMAIN requests : FALSE
    BY <2>1
  <2> QED BY <2>1, <2>2, <2>3, <2>4, <2>5 DEF Session
<1> QED BY <1>1, <1>2, <1>3, <1>6, <1>7, <1>8, <1>9, <1>10 DEF IInv

LEMMA NextIInv ==
  ASSUME IInv, [Next]_vars
  PROVE  IInv'
BY NextChannel, NextCourse, NextConfigured, NextFrames, NextStarting, NextAsking, NextCounting,
   NextSession DEF IInv

\* Callers stay on their tracks, and the connections carry what their holders asked for.
THEOREM InvAlways == Spec => []IInv
<1>1. Init => IInv
  BY InitIInv
<1>2. IInv /\ [Next]_vars => IInv'
  BY NextIInv
<1> QED BY <1>1, <1>2, PTL DEF Spec

\* Whatever commands created and changed it, a configuration that is saved renders to a
\* command line whose parts fit together: Validate (config.go) rules out every conflict of
\* devices, boot places, USB ports, options and listeners but those of ranged displays and
\* of UDP forwards at overlapping addresses, which it overlooks.
THEOREM StoredConfigIsGood == Spec => []StoredConfigFits
<1>1. IInv => StoredConfigFits
  BY ValidFits DEF IInv, Configured, StoredConfigFits
<1> QED BY <1>1, InvAlways, PTL

\* A start that returns an instance has removed the password file, and one that fails has
\* reaped what it forked and left no password behind, from whichever of its early returns
\* (instance.go Start).
THEOREM StartIsClean == Spec => []StartLeavesNothing
<1>1. IInv => StartLeavesNothing
  BY DEF IInv, Starting, StartLeavesNothing
<1> QED BY <1>1, InvAlways, PTL

\* A shutdown request that reports success has reached the guest, by its agent or by the
\* power button, and by both only when the agent was sent the request and its answer could
\* not be read, whoever shared the connections with it.
THEOREM AcceptanceIsEarned == Spec => []AcceptedMeansAsked
<1>1. IInv => AcceptedMeansAsked
  BY DEF IInv, Asking, Pressed, AcceptedMeansAsked
<1> QED BY <1>1, InvAlways, PTL

\* Once a session with the guest agent synchronised, nothing of an earlier one is on the
\* channel, neither unanswered nor unread, however many gave up on the agent before.
THEOREM SyncIsClean == Spec => []SyncDiscardsStale
<1>1. IInv => SyncDiscardsStale
  BY DEF IInv, Session
<1> QED BY <1>1, InvAlways, PTL

\* When the collector reads the event counters, all events that QEMU emitted before it
\* answered the status have been counted, also those that other callers' commands read.
THEOREM CountersAreCurrent == Spec => []CountersCoverStatus
<1>1. IInv => CountersCoverStatus
  BY DEF IInv, Counting, CountersCoverStatus
<1> QED BY <1>1, InvAlways, PTL

===============================================================================
