------------------------------- MODULE SerialLog -------------------------------
(***************************************************************************)
(* The serial log sink (internal/supervisor/serial_log.go and              *)
(* serial_log_unix.go): QEMU writes what the guest prints to a FIFO, a     *)
(* goroutine of the supervisor copies it to a log of bounded size, whose   *)
(* older parts are numbered backups.                                       *)
(*                                                                         *)
(* Slot 0 is the active file, slot i the backup path.(i-1); the last slot  *)
(* is the backup one too old, which only another version leaves.  Bytes    *)
(* are numbered as the guest prints them; 0 is a byte from before.         *)
(***************************************************************************)
EXTENDS Integers, Sequences, Functions

CONSTANTS MaxSize, MaxBackups,   \* serialLogMaxSize, serialLogMaxBackups
          BufferSize,            \* serialLogBufferSize
          PipeSize,              \* what the FIFO holds
          None

ASSUME SerialAssumption ==
  /\ MaxSize \in Nat \ {0} /\ MaxBackups \in Nat \ {0}
  /\ BufferSize \in Nat \ {0} /\ PipeSize \in Nat \ {0}
  /\ None \notin Seq(Nat)

VARIABLES
  slots,      \* the files, each a sequence of bytes or None; they outlive the supervisor
  fifo,       \* written by QEMU and not yet read
  writers,    \* who has the FIFO open for writing: "dummy", "qemu"
  reader,     \* the sink's end: "none", "open", "closed"
  output,     \* the log as the copy loop has it: "none", "open", "disabled"
  copier,     \* the step of the sink, and the slot it is at
  chunk,      \* read and not yet written
  produced,   \* how many bytes the guest printed
  whole       \* so far no byte was lost to an error, an abort or a crash

logVars == <<slots, fifo, writers, reader, output, copier, chunk, produced, whole>>

Stale == MaxBackups + 1
Slots == 0..Stale

At(step)  == <<step, 0>>
Smaller(m, n) == IF m < n THEN m ELSE n

\* Earlier versions may have left files of any of the lengths given.
LogInit(leftovers) ==
  /\ slots \in [Slots -> {None} \cup {[i \in 1..n |-> 0] : n \in leftovers}]
  /\ fifo = <<>> /\ writers = {} /\ reader = "none" /\ output = "none"
  /\ copier = At("none") /\ chunk = <<>> /\ produced = 0 /\ whole = TRUE

-----------------------------------------------------------------------------
(* startSerialLogSink, in the goroutine that starts the VM. *)

BeginSink == copier' = <<"open", 1>>

\* openRotatingSerialLog: what is left of each file.
Tidied(i) ==
  IF i # Stale /\ slots[i] # None /\ Len(slots[i]) <= MaxSize THEN slots[i]
  ELSE IF i = 0 THEN <<>> ELSE None

\* The backups, the stale one, the active file; one that cannot be used ends it.
OpenFile ==
  /\ copier[1] = "open"
  /\ LET i == copier[2] IN
     \/ /\ slots' = [slots EXCEPT ![i] = Tidied(i)]
        /\ copier' = IF i = 0 THEN At("pipe") ELSE <<"open", IF i = Stale THEN 0 ELSE i + 1>>
     \/ copier' = At("failed") /\ UNCHANGED slots
  /\ UNCHANGED <<fifo, writers, reader, output, chunk, produced, whole>>

\* openSerialLogPipe: a reader, and a writer that keeps it from seeing an end too early;
\* what was made is closed and removed again when a step fails.
OpenPipe ==
  /\ copier = At("pipe")
  /\ \/ /\ reader' = "open" /\ writers' = {"dummy"} /\ fifo' = <<>>
        /\ output' = "open" /\ copier' = At("read")
     \/ copier' = At("failed") /\ UNCHANGED <<fifo, writers, reader, output>>
  /\ UNCHANGED <<slots, chunk, produced, whole>>

-----------------------------------------------------------------------------
(* QEMU (external). *)

Attach == writers' = writers \cup {"qemu"}
Detach == writers' = writers \ {"qemu"}

\* QEMU blocks while the FIFO is full.
Produce ==
  /\ "qemu" \in writers /\ Len(fifo) < PipeSize
  /\ fifo' = Append(fifo, produced + 1)
  /\ produced' = produced + 1
  /\ UNCHANGED <<slots, writers, reader, output, copier, chunk, whole>>

-----------------------------------------------------------------------------
(* copySerialLog and rotatingSerialLog. *)

\* A log that was disabled is drained and no longer written.
Read ==
  /\ copier = At("read") /\ reader = "open" /\ fifo # <<>>
  /\ LET n == Smaller(BufferSize, Len(fifo)) IN
     /\ fifo' = SubSeq(fifo, n + 1, Len(fifo))
     /\ chunk' = IF output = "open" THEN SubSeq(fifo, 1, n) ELSE <<>>
  /\ copier' = IF output = "open" THEN At("write") ELSE At("read")
  /\ UNCHANGED <<slots, writers, reader, output, produced, whole>>

\* The first error of the log is the last: it is closed, and the pending bytes go.
Disable ==
  /\ output' = "disabled" /\ whole' = FALSE
  /\ copier' = At("read") /\ chunk' = <<>>

Put(n) == [slots EXCEPT ![0] = @ \o SubSeq(chunk, 1, n)]

\* One turn of Write's loop, when there is room: as much as fits.
Write ==
  /\ copier = At("write") /\ Len(slots[0]) < MaxSize
  /\ LET room == Smaller(MaxSize - Len(slots[0]), Len(chunk)) IN
     \/ /\ slots' = Put(room)
        /\ chunk' = SubSeq(chunk, room + 1, Len(chunk))
        /\ copier' = IF room = Len(chunk) THEN At("read") ELSE At("write")
        /\ UNCHANGED <<output, whole>>
     \/ /\ \E n \in 0..room : slots' = Put(n)
        /\ Disable
  /\ UNCHANGED <<fifo, writers, reader, produced>>

\* When there is none, the files are rotated first.
BeginRotation ==
  /\ copier = At("write") /\ Len(slots[0]) = MaxSize
  /\ \/ copier' = <<"rotate", MaxBackups>> /\ UNCHANGED <<output, chunk, whole>>
     \/ Disable
  /\ UNCHANGED <<slots, fifo, writers, reader, produced>>

Renamed(i) ==
  IF slots[i] = None THEN slots ELSE [slots EXCEPT ![i + 1] = slots[i], ![i] = None]

\* Mutant: the active file is renamed before the backups have moved.
ShiftedFirst(k) ==
  IF k = MaxBackups THEN [slots EXCEPT ![k] = None] ELSE Renamed(MaxBackups - 1 - k)

\* The oldest backup goes; the others move up, the oldest first, the active file last.
Shifted(k) == IF k = MaxBackups THEN [slots EXCEPT ![k] = None] ELSE Renamed(k)

Rotate ==
  /\ copier[1] = "rotate"
  /\ LET k == copier[2] IN
     \/ /\ slots' = Shifted(k)
        /\ copier' = IF k = 0 THEN At("reopen") ELSE <<"rotate", k - 1>>
        /\ UNCHANGED <<output, chunk, whole>>
     \/ Disable /\ UNCHANGED slots
  /\ UNCHANGED <<fifo, writers, reader, produced>>

Reopen ==
  /\ copier = At("reopen")
  /\ \/ /\ slots' = [slots EXCEPT ![0] = <<>>]
        /\ copier' = At("write") /\ UNCHANGED <<output, chunk, whole>>
     \/ Disable /\ UNCHANGED slots
  /\ UNCHANGED <<fifo, writers, reader, produced>>

\* No writer is left and all was read: the end.  A reader that was closed ends it earlier,
\* but does not wake a read that waits for a writer.
CopyEnds ==
  /\ copier = At("read")
  /\ \/ reader = "open" /\ fifo = <<>> /\ writers = {}
     \/ reader = "closed" /\ (writers = {} \/ fifo # <<>>)
  /\ whole' = (whole /\ fifo = <<>>)
  /\ fifo' = <<>>
  /\ copier' = At("ended") /\ reader' = "closed" /\ output' = "none"
  /\ UNCHANGED <<slots, writers, chunk, produced>>

CopyStep == Read \/ Write \/ BeginRotation \/ Rotate \/ Reopen \/ CopyEnds

-----------------------------------------------------------------------------
(* The end of a sink, in the goroutine that runs the VM. *)

\* Mutant: finish waits for the end of a FIFO it still keeps open.
FinishWaits == UNCHANGED <<slots, fifo, writers, reader, output, copier, chunk, produced, whole>>

\* finish, and then wait for the copy loop.
Finish ==
  /\ writers' = writers \ {"dummy"}
  /\ UNCHANGED <<slots, fifo, reader, output, copier, chunk, produced, whole>>

Abort ==
  /\ writers' = writers \ {"dummy"} /\ reader' = "closed"
  /\ UNCHANGED <<slots, fifo, output, copier, chunk, produced, whole>>

\* The supervisor ends, or is killed: the files stay.
SinkGone ==
  /\ whole' = (whole /\ fifo = <<>> /\ chunk = <<>>)
  /\ fifo' = <<>> /\ writers' = {} /\ reader' = "none" /\ output' = "none"
  /\ copier' = At("none") /\ chunk' = <<>>
  /\ UNCHANGED <<slots, produced>>

-----------------------------------------------------------------------------
(* Properties. *)

\* All there is of the log, the newest piece first: what is on its way, then the files in
\* the order of their numbers.
Pieces == 0..(Stale + 2)
Piece(k) ==
  IF k = 0 THEN fifo ELSE IF k = 1 THEN chunk
  ELSE IF slots[k - 2] = None THEN <<>> ELSE slots[k - 2]

Bytes == UNION {Range(Piece(k)) : k \in Pieces}

\* Printed one before the other, or both from before.
Before(a, b) == a < b \/ (a = 0 /\ b = 0)

\* The files in the order of their numbers hold what the guest printed in the order it
\* was printed, nothing twice, whatever step of a rotation failed or was cut short by a
\* crash; none grows over its limit once the sink has it; and as long as nothing failed
\* the newest output is all there, as much as the backups are meant to hold: in the
\* middle of a rotation, over several runs and after files of an earlier version.
LogKeepsNewest ==
  /\ \A k \in Pieces : \A i, j \in DOMAIN Piece(k) : i < j => Before(Piece(k)[i], Piece(k)[j])
  /\ \A k, l \in Pieces :
       l < k => \A a \in Range(Piece(k)), b \in Range(Piece(l)) : Before(a, b)
  /\ output # "none" => \A i \in Slots : slots[i] # None => Len(slots[i]) <= MaxSize
  /\ whole => \E lost \in 0..produced :
                /\ Bytes \ {0} = (lost + 1)..produced
                /\ produced - lost >= Smaller(produced, MaxBackups * MaxSize)
=============================================================================
