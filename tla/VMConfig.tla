------------------------------- MODULE VMConfig -------------------------------
(***************************************************************************)
(* The configuration of one VM: what `create`, `set` and `config apply`    *)
(* make of their arguments (internal/cli/create.go, config.go), what       *)
(* Validate accepts (internal/model/config.go), and what Render asks of    *)
(* QEMU when the VM starts (internal/qemu/command.go).                     *)
(*                                                                         *)
(* A field that no rule relates to another one (name, UUID, MAC, paths,    *)
(* machine, clock, keyboard) is left out.  A text that is parsed into a    *)
(* value is that value; one that does not parse ends its command.  Of the  *)
(* extra arguments of QEMU, `extra` is the set of the options they name.   *)
(* How a configuration reaches the disk is StoreFiles.                     *)
(***************************************************************************)
EXTENDS Naturals, Sequences, FiniteSets, Functions

CONSTANTS CreateFlags,     \* the command lines of `create` that are tried
          SetFlags,        \* those of `set`; a flag that is None is not given
          Replacements,    \* the files given to `config apply`
          None

VARIABLE stored            \* the saved configuration, or None

Selectors == [vendor : Nat, product : Nat, bus : Nat, address : Nat]

\* A list of USB devices is a list, on a command line as in a file.
ASSUME ConfigAssumption ==
  /\ \A f \in CreateFlags : f.usb \in Seq(Selectors)
  /\ \A r \in Replacements : "usb" \in DOMAIN r /\ r.usb \in Seq(Selectors)

AnyAddress   == "0.0.0.0"
Loopback     == "127.0.0.1"
VNCPortMin   == 5900
DefaultVNC   == [bind |-> Loopback, port |-> 5900, portTo |-> 5999, password |-> ""]
DefaultIface == "shared"

Optional(present, seq) == IF present THEN seq ELSE <<>>
Given(flag, otherwise) == IF flag = None THEN otherwise ELSE flag

-----------------------------------------------------------------------------
(* Validate. *)

\* A selector names a device in one of two ways, in full, with no field of the other.
WellFormedUSB(usb) ==
  \/ /\ usb.vendor \in 1..65535 /\ usb.product \in 1..65535
     /\ usb.bus = 0 /\ usb.address = 0
  \/ /\ usb.bus \in 1..255 /\ usb.address \in 1..127
     /\ usb.vendor = 0 /\ usb.product = 0

\* Mutant: the keyboard and the tablet of a VNC display are not counted.
USBLimitFlat(vnc) == 4

\* The controller has four ports; a VNC display's keyboard and tablet take two.
USBLimit(vnc) == IF vnc # None THEN 2 ELSE 4

ValidUSB(c) ==
  /\ Len(c.usb) <= USBLimit(c.vnc)
  /\ \A i \in DOMAIN c.usb : WellFormedUSB(c.usb[i])
  /\ IsInjective(c.usb)

BootIndexes(c) ==
  Optional(c.installer # None, <<c.installer>>) \o [i \in DOMAIN c.disks |-> c.disks[i].boot]

ValidStorage(c) ==
  /\ IsInjective(BootIndexes(c))
  /\ IsInjective([i \in DOMAIN c.disks |-> c.disks[i].serial])

\* A forward is of TCP or of UDP, and its ports are ports.
WellFormedForward(forward) ==
  forward.protocol \in {"tcp", "udp"} /\ 0 \notin {forward.hostPort, forward.guestPort}

\* A network mode has its own fields and no other's.
ValidNetwork(c) ==
  /\ \/ c.mode = "user" /\ c.bridge = None
     \/ c.mode = "socket_vmnet" /\ c.bridge \notin {None, ""} /\ c.forwards = <<>> /\ ~c.smb
  /\ \A i \in DOMAIN c.forwards : WellFormedForward(c.forwards[i])
  /\ IsInjective([i \in DOMAIN c.forwards |->
                   <<c.forwards[i].protocol, c.forwards[i].address, c.forwards[i].hostPort>>])

ValidVNC(c) ==
  c.vnc # None =>
    c.vnc.port >= VNCPortMin /\ c.vnc.portTo >= c.vnc.port /\ c.vnc.password # ""

Overlap(a, b) == a = b \/ AnyAddress \in {a, b}

TCPForwards(c) == {i \in DOMAIN c.forwards : c.forwards[i].protocol = "tcp"}

\* A VNC display with a range of ports is left to find a free one by itself.
FixedVNC(c) == c.vnc # None /\ c.vnc.port = c.vnc.portTo

\* A forward takes the port at the address.
Takes(forward, address, port) ==
  forward.hostPort = port /\ Overlap(address, forward.address)

NoPortConflicts(c) ==
  LET forwards == {c.forwards[i] : i \in TCPForwards(c)} IN
  /\ \A i, j \in TCPForwards(c) :
       i # j => ~Takes(c.forwards[i], c.forwards[j].address, c.forwards[j].hostPort)
  /\ c.metrics # 0 => \A f \in forwards : ~Takes(f, Loopback, c.metrics)
  /\ FixedVNC(c) =>
       /\ c.metrics = c.vnc.port => ~Overlap(Loopback, c.vnc.bind)
       /\ \A f \in forwards : ~Takes(f, c.vnc.bind, c.vnc.port)

MetricsPorts == 1024..65535

\* Options of QEMU that are the manager's, whatever a configuration says.
ManagerOwned ==
  {"qmp", "monitor", "mon", "chardev", "serial", "daemonize", "pidfile", "run-with", "accel",
   "machine", "M", "cpu", "smp", "m", "drive", "blockdev", "device", "hda", "hdb", "hdc", "hdd",
   "fda", "fdb", "cdrom", "netdev", "nic", "net", "display", "nographic", "vga", "nodefaults",
   "name", "uuid", "boot", "bios", "readconfig", "writeconfig", "set", "global", "incoming",
   "snapshot", "S", "preconfig", "no-shutdown", "action", "vnc", "object", "k", "rtc"}

Valid(c) ==
  /\ c.cpus \in 1..64 /\ c.memory >= 256 /\ c.timeout \in 1..3600
  /\ c.metrics = 0 \/ c.metrics \in MetricsPorts
  /\ c.extra \cap ManagerOwned = {}
  /\ ValidStorage(c) /\ ValidNetwork(c) /\ ValidVNC(c) /\ NoPortConflicts(c) /\ ValidUSB(c)

-----------------------------------------------------------------------------
(* create. *)

VNCDetails(f) == \E flag \in {"password", "bind", "port", "portTo"} : f[flag] # None

\* Combinations of flags that are refused before a configuration is built.
CreateRefuses(f) ==
  \/ ~f.vnc /\ VNCDetails(f)
  \/ f.vnc /\ f.password \in {None, ""}
  \/ f.network = "user" /\ f.iface \notin {None, ""}
  \/ f.network = "socket_vmnet" /\ (f.forwards # <<>> \/ f.share \/ ~f.vmnet)
  \/ Len(f.usb) > USBLimit(IF f.vnc THEN DefaultVNC ELSE None)

\* A display keeps what the flags do not say.
WithDetails(vnc, f) ==
  [bind |-> Given(f.bind, vnc.bind), port |-> Given(f.port, vnc.port),
   portTo |-> Given(f.portTo, vnc.portTo), password |-> Given(f.password, vnc.password)]

Drive(i, first) == [serial |-> <<"drive", i>>, boot |-> first + i]

\* The primary disk boots first, or after the installer; then the drives and the seed.
CreateDisks(f) ==
  LET first == IF f.iso THEN 1 ELSE 0 IN
  <<[serial |-> <<"disk", 0>>, boot |-> first]>>
    \o [i \in 1..f.drives |-> Drive(i, first)]
    \o Optional(f.cloudInit, <<[serial |-> <<"cloud-init", 0>>, boot |-> first + f.drives + 1]>>)

Create(f) ==
  /\ stored = None
  /\ LET c == [cpus |-> f.cpus, memory |-> f.memory, timeout |-> f.timeout,
               agent |-> f.agent, metrics |-> f.metrics, usb |-> f.usb, extra |-> {},
               vnc |-> IF f.vnc THEN WithDetails(DefaultVNC, f) ELSE None,
               installer |-> IF f.iso THEN 0 ELSE None,
               disks |-> CreateDisks(f), mode |-> f.network,
               forwards |-> f.forwards, smb |-> f.share,
               bridge |-> IF f.network = "user" THEN None
                          ELSE IF f.iface \in {None, ""} THEN DefaultIface ELSE f.iface]
     IN ~CreateRefuses(f) /\ Valid(c) /\ stored' = c

-----------------------------------------------------------------------------
(* set. *)

SetRefusesVNC(c, f) ==
  \/ f.vnc = "off" /\ VNCDetails(f)
  \/ c.vnc = None /\ f.vnc = None /\ VNCDetails(f)
  \/ c.vnc = None /\ f.vnc = "on" /\ f.password \in {None, ""}

SetVNC(c, f) ==
  IF f.vnc = "off" THEN None
  ELSE IF c.vnc # None THEN WithDetails(c.vnc, f)
  ELSE IF f.vnc = "on" THEN WithDetails(DefaultVNC, f) ELSE None

SetMode(c, f) == Given(f.network, c.mode)

\* socket_vmnet is on this host, as f.vmnet says, and its interface has a name.
ResolvesSocketVMNet(f) == f.vmnet /\ f.iface # ""

SetRefusesNetwork(c, f) ==
  \/ SetMode(c, f) = "user" /\ f.iface # None
  \/ SetMode(c, f) = "socket_vmnet" /\ f.forwards # <<>>
  \/ f.network = "socket_vmnet" /\ ~ResolvesSocketVMNet(f)

\* New forwards come after the old ones; those of the other mode, or cleared ones, go.
SetForwards(c, f) ==
  IF SetMode(c, f) = "socket_vmnet" THEN <<>>
  ELSE IF c.mode = "socket_vmnet" \/ f.clear THEN f.forwards
  ELSE c.forwards \o f.forwards

SetBridge(c, f) ==
  IF SetMode(c, f) = "user" THEN None
  ELSE Given(f.iface, Given(c.bridge, DefaultIface))

Updated(c, f) ==
  [c EXCEPT !.cpus     = Given(f.cpus, @),
            !.memory   = Given(f.memory, @),
            !.timeout  = Given(f.timeout, @),
            !.agent    = Given(f.agent, @),
            !.metrics  = Given(f.metrics, @),
            !.vnc      = SetVNC(c, f),
            !.mode     = SetMode(c, f),
            !.forwards = SetForwards(c, f),
            !.bridge   = SetBridge(c, f)]

Set(f) ==
  /\ stored # None
  /\ ~SetRefusesVNC(stored, f) /\ ~SetRefusesNetwork(stored, f)
  /\ Valid(Updated(stored, f))
  /\ stored' = Updated(stored, f)

\* config apply.  The identity and the autostart scope it keeps are in StoreFiles and
\* Autostart.
Apply(replacement) ==
  /\ stored # None /\ Valid(replacement)
  /\ stored' = replacement

-----------------------------------------------------------------------------
(* Render: the devices a command line defines and refers to, the order they boot in, the *)
(* ports of the USB controller, what the VM and its supervisor listen on, and the options *)
(* it gives, its own and the extra ones. *)

USBController(c) == IF c.vnc # None \/ c.usb # <<>> THEN {"usb"} ELSE {}

Defines(c) ==
  {"console0", "qmpcommand0", "monitor0", "net0"} \cup USBController(c)
    \cup (IF c.installer # None THEN {"scsi0"} ELSE {})
    \cup (IF c.vnc # None THEN {"vnc-password"} ELSE {})
    \cup (IF c.agent THEN {"qga0"} ELSE {})

RefersTo(c) ==
  {"console0", "qmpcommand0", "monitor0", "net0"} \cup {"usb" : i \in DOMAIN c.usb}
    \cup (IF c.installer # None THEN {"scsi0"} ELSE {})
    \cup (IF c.vnc # None THEN {"usb", "vnc-password"} ELSE {})
    \cup (IF c.agent THEN {"qga0"} ELSE {})

USBPorts(c) == Len(c.usb) + (IF c.vnc # None THEN 2 ELSE 0)

\* What validateSocketVMNet, which does not trust Validate, refuses to render.
Unrenderable(c) == c.mode = "socket_vmnet" /\ (c.forwards # <<>> \/ c.bridge \in {None, ""})

\* What listens on the host: at an address, on one port or on the first free one of a range.
Listener(owner, protocol, address, first, last) ==
  [owner |-> owner, protocol |-> protocol, address |-> address, first |-> first, last |-> last]

Listeners(c) ==
  {Listener(<<"forward", i>>, c.forwards[i].protocol, c.forwards[i].address,
            c.forwards[i].hostPort, c.forwards[i].hostPort) : i \in DOMAIN c.forwards}
    \cup (IF c.vnc = None THEN {}
          ELSE {Listener(<<"vnc", 0>>, "tcp", c.vnc.bind, c.vnc.port, c.vnc.portTo)})
    \cup (IF c.metrics = 0 THEN {}
          ELSE {Listener(<<"metrics", 0>>, "tcp", Loopback, c.metrics, c.metrics)})

\* The options a command line may give by itself.
Options(c) ==
  {"nodefaults", "display", "machine", "accel", "cpu", "smp", "m", "name", "uuid", "run-with",
   "rtc", "boot", "drive", "device", "chardev", "serial", "qmp", "mon", "netdev"}
    \cup (IF c.vnc # None THEN {"object", "vnc", "k"} ELSE {})

\* The command line, or none.  socket_vmnet_client opens descriptor 3, which net0 is, and
\* becomes QEMU.
Render(c) ==
  IF Unrenderable(c) THEN {}
  ELSE {[path |-> IF c.mode = "socket_vmnet" THEN "socket_vmnet_client" ELSE "qemu",
         defines |-> Defines(c), refers |-> RefersTo(c), boot |-> BootIndexes(c),
         usbPorts |-> USBPorts(c), listeners |-> Listeners(c), options |-> Options(c),
         extra |-> c.extra]}

-----------------------------------------------------------------------------

ConfigInit == stored = None

Delete == stored # None /\ stored' = None

Configure ==
  \/ \E f \in CreateFlags : Create(f)
  \/ \E f \in SetFlags : Set(f)
  \/ \E r \in Replacements : Apply(r)
  \/ Delete

-----------------------------------------------------------------------------
(* Properties. *)

Ranged(listener) == listener.first # listener.last

PortsOf(listener) ==
  IF Ranged(listener) THEN listener.first..listener.last ELSE {listener.first}

\* Two listeners that may want the same port.
Collide(k, l) ==
  /\ k.protocol = l.protocol /\ Overlap(k.address, l.address)
  /\ PortsOf(k) \cap PortsOf(l) # {}

\* Collisions that Validate lets through: it leaves a display with a range of ports alone,
\* and compares UDP forwards by address and port only.
Overlooked(k, l) ==
  Ranged(k) \/ Ranged(l) \/ (k.protocol = "udp" /\ k.address # l.address)

\* The devices a command line refers to are there, no two drives claim one place in the boot
\* order, the USB devices fit the four ports, the extra arguments repeat no option of the
\* manager's, and every two listeners that collide are among the overlooked ones.
Fits(command) ==
  /\ command.refers \subseteq command.defines
  /\ IsInjective(command.boot)
  /\ command.usbPorts <= 4
  /\ command.extra \cap command.options = {}
  /\ \A k, l \in command.listeners : k = l \/ Overlooked(k, l) \/ ~Collide(k, l)

\* Whatever sequence of create, set and config apply saved a configuration, Render accepts
\* it and the parts of the command line fit together, although Validate checks the fields
\* and Render combines them, each with rules of its own for USB, the boot order, the
\* network and the ports, where a wildcard address overlaps every other one.  That QEMU
\* starts is not said: the collisions that Validate overlooks, and what the extra arguments
\* ask of QEMU, may still stop it.
StoredConfigFits == stored # None => \E command \in Render(stored) : Fits(command)
=============================================================================
