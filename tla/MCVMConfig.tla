------------------------------ MODULE MCVMConfig ------------------------------
(* A small instance of VMConfig: few values of each flag, chosen so that ports,   *)
(* addresses, boot places and USB devices can collide.                            *)
EXTENDS VMConfig

Forward(protocol, address, port) ==
  [protocol |-> protocol, address |-> address, hostPort |-> port, guestPort |-> 22]

MCForwards ==
  {<<>>, <<Forward("tcp", Loopback, 5900)>>, <<Forward("udp", Loopback, 5900)>>,
   <<Forward("udp", "0.0.0.0", 5900)>>,
   <<Forward("tcp", "0.0.0.0", 5901)>>, <<Forward("tcp", "0.0.0.0", 5900)>>}

USBDevice(i) == [vendor |-> i, product |-> 1, bus |-> 0, address |-> 0]
HostPort(i)  == [vendor |-> 0, product |-> 0, bus |-> 1, address |-> i]

MCUSB == {<<>>, <<USBDevice(1), HostPort(1)>>, <<USBDevice(1), USBDevice(1)>>,
          <<USBDevice(1), USBDevice(2), HostPort(1), HostPort(2)>>}

Plain == [cpus |-> 2, memory |-> 2048, timeout |-> 180, agent |-> FALSE, metrics |-> 0,
          usb |-> <<>>, vnc |-> FALSE, password |-> None, bind |-> None, port |-> None,
          portTo |-> None, iso |-> FALSE, drives |-> 0, cloudInit |-> FALSE,
          network |-> "user", forwards |-> <<>>, share |-> FALSE, iface |-> None,
          vmnet |-> TRUE]

MCCreateFlags ==
  {[Plain EXCEPT !.vnc = vnc, !.password = IF vnc THEN "pw" ELSE None, !.usb = usb,
                 !.iso = iso, !.drives = IF iso THEN 1 ELSE 0, !.cloudInit = iso,
                 !.network = network, !.forwards = forwards, !.share = iso] :
     vnc \in BOOLEAN, usb \in MCUSB, iso \in BOOLEAN,
     network \in {"user", "socket_vmnet"}, forwards \in MCForwards}

Unchanged == [cpus |-> None, memory |-> None, timeout |-> None, agent |-> None,
              metrics |-> None, vnc |-> None, password |-> None, bind |-> None,
              port |-> None, portTo |-> None, network |-> None, forwards |-> <<>>,
              clear |-> FALSE, iface |-> None, vmnet |-> TRUE]

MCSetFlags ==
  {[Unchanged EXCEPT !.vnc = vnc, !.password = password, !.portTo = portTo] :
     vnc \in {None, "on", "off"}, password \in {None, "", "pw"}, portTo \in {None, 5900, 5901}}
  \cup {[Unchanged EXCEPT !.metrics = m] : m \in {0, 5900, 5901}}
  \cup {[Unchanged EXCEPT !.network = n, !.iface = i] :
          n \in {None, "user", "socket_vmnet"}, i \in {None, "", "en0"}}
  \cup {[Unchanged EXCEPT !.network = n, !.forwards = fs, !.clear = clear] :
          n \in {None, "user", "socket_vmnet"}, fs \in MCForwards, clear \in BOOLEAN}

\* Files written by hand: duplicated places and serials, extra arguments, and some that are
\* right.
MCReplacements ==
  {[cpus |-> 2, memory |-> 2048, timeout |-> 180, agent |-> TRUE, metrics |-> 0,
    usb |-> <<>>, vnc |-> None, extra |-> extra, installer |-> installer,
    disks |-> <<[serial |-> <<"disk", 0>>, boot |-> 0], [serial |-> serial, boot |-> boot]>>,
    mode |-> "user", forwards |-> <<>>, smb |-> FALSE, bridge |-> None] :
     installer \in {None, 1}, serial \in {<<"disk", 0>>, <<"drive", 1>>}, boot \in 0..2,
     extra \in {{}, {"audio"}, {"device"}}}
=============================================================================
