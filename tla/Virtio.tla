------------------------------- MODULE Virtio -------------------------------
(***************************************************************************)
(* oci-vmm: a virtio block or network device on PCI.  The guest's driver   *)
(* configures it through its registers, hands it buffers in shared rings   *)
(* and is told of completions by MSI-X interrupts; the event loop of the   *)
(* VMM serves the rings, the disk and the stream of passt.                 *)
(*                                                                         *)
(* The guest, the kernel's eventfds and irqfds, and passt are not part of  *)
(* the repository: they are modelled from what the code relies on.  The    *)
(* rings are read and written by both sides at every step; of a slot only  *)
(* what the other side has still to read is kept.  Indices wrap at         *)
(* Modulus, which stands for 2^16.                                         *)
(***************************************************************************)
EXTENDS Integers, FiniteSets, Sequences, SequencesExt

CONSTANTS
    Devices,        \* the devices considered: "block", "net"
    Chains,         \* the block requests the driver builds, by their head
    Sizes,          \* the queue sizes the driver of a device may write
    Parts,          \* the parts of a device's queues, each with its address
    MaxSize,        \* the size the queues of a device start with
    Modulus,        \* where ring indices wrap
    NumSectors,     \* the size of the disk
    ReadOnly,       \* whether the disk is opened for reading only
    Frames,         \* how many frames are sent and interrupts masked together
    Big,            \* the frames from passt that are longer than a buffer
    Room,           \* how much of a frame the socket to passt holds
    MaxMasks,       \* how often the running guest masks interrupts
    Resets          \* the devices that a running guest resets

PowersOfTwo == {2^k : k \in 0..15}      \* the u16 that are one

BlockRequests ==
    [type : {"in", "out", "id", "flush", "unsupported"}, sector : Nat,
     descs : Seq([write : BOOLEAN, len : Nat]), inTable : BOOLEAN]

ASSUME VirtioAssumption ==
    /\ Devices \subseteq {"block", "net"} /\ Frames \in Nat /\ Room \in Nat \ {0}
    /\ Modulus \in Nat /\ \A d \in Devices : MaxSize[d] \in Nat \ {0} /\ 2 * MaxSize[d] <= Modulus
    /\ \A d \in Devices : Sizes[d] \subseteq Nat
    /\ \A d \in Devices, n \in PowersOfTwo : n <= MaxSize[d] => Modulus % n = 0
    /\ \A h \in DOMAIN Chains : Chains[h] \subseteq BlockRequests

VARIABLES
    dev,        \* which device this is
    cc,         \* the status register and what depends on it
    queues,     \* what the device keeps of each queue
    ring,       \* the rings, in memory shared with the guest
    drv,        \* the guest's driver
    kick,       \* the eventfds the guest's notifications are written to
    loop,       \* where the event loop is
    msix, irq,  \* the MSI-X table; the interrupts the guest has not taken
    net         \* the stream of passt, or the disk
vars == <<dev, cc, queues, ring, drv, kick, loop, msix, irq, net>>

RX == 0
TX == 1
Queues == IF dev = "block" THEN {0} ELSE {RX, TX}
Vectors == 0..Cardinality(Queues)       \* vector 0 is the configuration's
NoVector == -1

(* Arithmetic of Wrapping<u16>.                                            *)
Plus(a, b) == (a + b) % Modulus
Minus(a, b) == (a - b + Modulus) % Modulus

(***************************************************************************)
(* The queue: what the device keeps (queues) and what it shares (ring).    *)
(***************************************************************************)
NewQueue ==
    [size |-> MaxSize[dev], ready |-> FALSE,
     addr |-> [p \in Parts[dev] |-> "zero"], ptr |-> [p \in Parts[dev] |-> "zero"],
     nextAvail |-> 0, nextUsed |-> 0, added |-> 0, suppress |-> FALSE]

Blank == -1
Unused == [id |-> Blank, status |-> "none", len |-> 0]

NewRing ==
    [avail |-> [i \in 0..(MaxSize[dev] - 1) |-> Blank], availIdx |-> 0, usedEvent |-> 0,
     used |-> [i \in 0..(MaxSize[dev] - 1) |-> Unused], usedIdx |-> 0, availEvent |-> 0,
     chain |-> [i \in 0..(MaxSize[dev] - 1) |-> <<>>]]

(* initialize: ready, a good size, and every part aligned and in memory,   *)
(* as it is at address zero, where the driver left what it did not place.  *)
Initializes(q) ==
    /\ q.ready /\ q.size \in 1..MaxSize[dev] \cap PowersOfTwo
    /\ \A p \in Parts[dev] : q.addr[p] # "bad"

Available(q) == Minus(ring[q].availIdx, queues[q].nextAvail)

HeadOf(q) == ring[q].avail[queues[q].nextAvail % queues[q].size]

(* checked_new: a head whose descriptor leads out of the table is not to   *)
(* be had, and as it is not passed over either, the queue stops at it.     *)
Stray(q) == dev = "block" /\ ~ring[q].chain[HeadOf(q)].inTable
Stalled(q) == Available(q) # 0 /\ Stray(q)

(* A head is taken and answered: pop_unchecked, then add_used.             *)
Taken(q) ==
    [queues EXCEPT ![q].nextAvail = Plus(@, 1), ![q].nextUsed = Plus(@, 1),
                   ![q].added = Plus(@, 1)]
Answered(q, status, len) ==
    [ring EXCEPT ![q].used[queues[q].nextUsed % queues[q].size] =
                    [id |-> HeadOf(q), status |-> status, len |-> len],
                 ![q].avail[queues[q].nextAvail % queues[q].size] = Blank,
                 ![q].chain[HeadOf(q)] = <<>>]

(* Mutant: the comparison with the event index is off by one.              *)
PrepareKickLate(q) ==
    \/ ~queues[q].suppress
    \/ Minus(queues[q].nextUsed, ring[q].usedEvent) < queues[q].added

(* prepare_kick: has used_event been passed since the last one?            *)
PrepareKick(q) ==
    \/ ~queues[q].suppress
    \/ Minus(Minus(queues[q].nextUsed, ring[q].usedEvent), 1) < queues[q].added

(***************************************************************************)
(* Interrupts.  A vector is masked by its table entry, by the function, or *)
(* has no irqfd; what cannot be delivered waits in the pending bit or in   *)
(* the eventfd.                                                            *)
(***************************************************************************)
NewMsix ==
    [enabled |-> FALSE, masked |-> TRUE,
     entry |-> [v \in Vectors |-> TRUE],        \* masked
     pba |-> [v \in Vectors |-> FALSE],
     irqfd |-> [v \in Vectors |-> FALSE],
     eventfd |-> [v \in Vectors |-> FALSE],
     config |-> NoVector, queue |-> [q \in Queues |-> NoVector]]

Inject(s, V) ==
    [m |-> [s.m EXCEPT !.eventfd = [v \in Vectors |-> @[v] \/ (v \in V /\ ~s.m.irqfd[v])]],
     irq |-> [v \in Vectors |-> s.irq[v] \/ (v \in V /\ s.m.irqfd[v])]]

(* trigger of VirtioInterruptMsix.                                         *)
Trigger(s, v) ==
    IF v = NoVector THEN s
    ELSE IF s.m.masked \/ s.m.entry[v] THEN [s EXCEPT !.m.pba[v] = TRUE]
    ELSE Inject(s, {v})

(* MsixVector::enable: a registered eventfd that is readable fires.        *)
Register(s, V) ==
    [m |-> [s.m EXCEPT !.irqfd = [v \in Vectors |-> @[v] \/ v \in V],
                       !.eventfd = [v \in Vectors |-> @[v] /\ v \notin V]],
     irq |-> [v \in Vectors |-> s.irq[v] \/ (v \in V /\ s.m.eventfd[v])]]

Unregister(s, V) == [s EXCEPT !.m.irqfd = [v \in Vectors |-> @[v] /\ v \notin V]]

InjectAndClear(s, V) ==
    LET r == Inject(s, V) IN [r EXCEPT !.m.pba = [v \in Vectors |-> @[v] /\ v \notin V]]

(* set_msg_ctl.                                                            *)
SetMsgCtl(s, enabled, masked) ==
    LET old == s.m
        on == {v \in Vectors : ~old.entry[v]}
        new == [s EXCEPT !.m.enabled = enabled, !.m.masked = masked]
        routed == IF old.masked = masked /\ old.enabled = enabled THEN new
                  ELSE IF enabled /\ ~masked THEN Unregister(Register(new, on), Vectors \ on)
                  ELSE IF old.enabled \/ ~old.masked THEN Unregister(new, Vectors)
                  ELSE new
    IN IF old.masked /\ ~masked
       THEN InjectAndClear(routed, {v \in on : old.pba[v]}) ELSE routed

(* write_table, of the control word of an entry.                           *)
WriteTable(s, v, masked) ==
    LET new == [s EXCEPT !.m.entry[v] = masked]
        live == s.m.enabled /\ ~s.m.masked /\ ~masked
        routed == IF s.m.entry[v] # masked /\ live THEN Register(new, {v}) ELSE new
    IN IF live /\ s.m.entry[v] /\ s.m.pba[v] THEN InjectAndClear(routed, {v}) ELSE routed

Interrupts == [m |-> msix, irq |-> irq]
SetInterrupts(s) == msix' = s.m /\ irq' = s.irq

(***************************************************************************)
(* Registers.  The status is the last step of the initialisation that was  *)
(* taken (0..4) and the bits FAILED and DEVICE_NEEDS_RESET.                *)
(***************************************************************************)
NewConfig == [step |-> 0, failed |-> FALSE, needsReset |-> FALSE, active |-> FALSE,
              eventIdx |-> FALSE]

At(c, n) == c.step = n /\ ~c.failed /\ ~c.needsReset

(* Mutant: a device that was not reset may be initialised again.           *)
SetDeviceStatusAgain(c, n) ==
    CASE n = 0 -> [c EXCEPT !.step = 0, !.failed = FALSE, !.needsReset = FALSE]
      [] n > 0 /\ At(c, n - 1) -> [c EXCEPT !.step = n]
      [] OTHER -> c

(* set_device_status: one step forward, or back to the beginning.          *)
SetDeviceStatus(c, n) ==
    CASE n = 0 -> [c EXCEPT !.step = 0, !.failed = FALSE, !.needsReset = FALSE]
      [] n > 0 /\ At(c, n - 1) /\ ~c.active -> [c EXCEPT !.step = n]
      [] OTHER -> c

(* The end of write_bar: the device is activated once its driver is ready. *)
(* Neither device implements reset, so an active one stays active.         *)
NeedsActivation(c) == ~c.active /\ At(c, 4)

ActivateOk ==
    /\ cc' = [SetDeviceStatus(cc, 4) EXCEPT !.active = TRUE]
    /\ queues' = [q \in Queues |-> [queues[q] EXCEPT !.ptr = queues[q].addr,
                                                     !.suppress = cc.eventIdx]]
    /\ UNCHANGED <<msix, irq>>

ActivateFails ==
    /\ cc' = [SetDeviceStatus(cc, 4) EXCEPT !.needsReset = TRUE]
    /\ SetInterrupts(Trigger(Interrupts, msix.config))
    /\ UNCHANGED queues

WriteStatus(n) ==
    /\ LET c == SetDeviceStatus(cc, n)
       IN CASE ~NeedsActivation(c) -> cc' = c /\ UNCHANGED <<queues, msix, irq>>
            [] NeedsActivation(c) /\ (\A q \in Queues : Initializes(queues[q])) -> ActivateOk
            [] OTHER -> ActivateFails
    /\ UNCHANGED <<dev, ring, drv, kick, loop, net>>

WriteFailed ==
    /\ cc' = [cc EXCEPT !.failed = TRUE]
    /\ UNCHANGED <<dev, queues, ring, drv, kick, loop, msix, irq, net>>

(* DRIVER_FEATURE, of the one feature a device acts on.                    *)
WriteFeatures ==
    /\ cc' = [cc EXCEPT !.eventIdx = @ \/ At(cc, 2)]
    /\ UNCHANGED <<dev, queues, ring, drv, kick, loop, msix, irq, net>>

(* update_queue_field: only between FEATURES_OK and DRIVER_OK.             *)
UpdateQueueField(q, new) ==
    /\ queues' = IF At(cc, 3) THEN [queues EXCEPT ![q] = new] ELSE queues
    /\ UNCHANGED <<dev, cc, ring, drv, kick, loop, msix, irq, net>>

WriteQueueSize(q, n) == UpdateQueueField(q, [queues[q] EXCEPT !.size = n])
WriteQueueAddress(q, p, a) == UpdateQueueField(q, [queues[q] EXCEPT !.addr[p] = a])
WriteQueueEnable(q) == UpdateQueueField(q, [queues[q] EXCEPT !.ready = TRUE])

WriteVector(q, v) ==
    /\ msix' = [msix EXCEPT !.queue[q] = IF v \in Vectors THEN v ELSE NoVector]
    /\ UNCHANGED <<dev, cc, queues, ring, drv, kick, loop, irq, net>>

WriteConfigVector(v) ==
    /\ msix' = [msix EXCEPT !.config = IF v \in Vectors THEN v ELSE NoVector]
    /\ UNCHANGED <<dev, cc, queues, ring, drv, kick, loop, irq, net>>

WriteMsgCtl(enabled, masked) ==
    /\ SetInterrupts(SetMsgCtl(Interrupts, enabled, masked))
    /\ UNCHANGED <<dev, cc, queues, ring, kick, loop, net>>

WriteEntry(v, masked) ==
    /\ SetInterrupts(WriteTable(Interrupts, v, masked))
    /\ UNCHANGED <<dev, cc, queues, ring, kick, loop, net>>

(***************************************************************************)
(* Block requests.  A chain is the request's type and sector, and its      *)
(* descriptors: the header, the data if any, and the status byte; of a     *)
(* longer one the third is taken for the status.                           *)
(***************************************************************************)
SectorSize == 2
IdBytes == 1

Data(c) == c.descs[2].len

(* Request::parse.                                                         *)
Parses(c) ==
    LET data == Len(c.descs) > 2
        status == c.descs[IF data THEN 3 ELSE 2]
    IN /\ ~c.descs[1].write
       /\ Len(c.descs) >= 2
       /\ data \/ c.type = "flush"
       /\ data => /\ c.type = "out" => ~c.descs[2].write
                  /\ c.type \in {"in", "id"} => c.descs[2].write
       /\ c.type \in {"in", "out"} => /\ Data(c) % SectorSize = 0
                                     /\ c.sector + Data(c) \div SectorSize <= NumSectors
       /\ c.type = "id" => Data(c) >= IdBytes
       /\ status.write /\ status.len >= 1

(* The file engine: what a transfer moves; failing is -1.                  *)
Transfers(c) ==
    CASE c.type = "in" -> {Data(c), -1}
      [] c.type = "out" -> IF ReadOnly THEN {-1} ELSE {Data(c), -1}
      [] c.type = "id" -> {IdBytes}
      [] c.type = "flush" -> {0, -1}
      [] OTHER -> {0}

(* PendingRequest::finish: the status byte counts as written.              *)
Finished(c, moved) ==
    LET filled == IF c.type \in {"in", "id"} THEN moved ELSE 0
    IN CASE c.type = "unsupported" -> [status |-> "unsupported", len |-> 1]
         [] c.type # "unsupported" /\ moved = -1 -> [status |-> "ioerr", len |-> 1]
         [] c.type \in {"in", "out", "id"} /\ moved \notin {-1, Data(c)} ->
                [status |-> "ioerr", len |-> filled + 1]
         [] OTHER -> [status |-> "ok", len |-> filled + 1]

(* What may become of a request: one that does not parse has no status.    *)
Outcomes(c) ==
    IF Parses(c) THEN {Finished(c, moved) : moved \in Transfers(c)}
    ELSE {[status |-> "none", len |-> 0]}

(***************************************************************************)
(* The stream of passt.  A frame n is sent as its length, -n, and its      *)
(* bytes, n.  Room is what the socket holds towards passt.                 *)
(***************************************************************************)
NewNet == [inbox |-> <<>>, rx |-> 0, begun |-> 0, sent |-> 0,
           pending |-> <<>>, outbox |-> <<>>, seen |-> <<>>, open |-> TRUE]

(* send_from: as much as the socket takes.  The rest is kept for later, in *)
(* the place of what is kept already, which stays if there is no rest.     *)
SendFrom(buf, kept) ==
    LET k == IF Len(buf) < Room - Len(net.outbox) THEN Len(buf) ELSE Room - Len(net.outbox)
    IN [net EXCEPT !.outbox = @ \o SubSeq(buf, 1, k),
                   !.pending = IF k = Len(buf) THEN kept ELSE SubSeq(buf, k + 1, Len(buf))]

(* write_frame, finish_pending_write; nothing is written once passt left.  *)
WriteFrame(n) == IF net.open THEN SendFrom(<<-n, n>>, net.pending) ELSE net
FinishPendingWrite ==
    IF net.open THEN SendFrom(net.pending, <<>>) ELSE [net EXCEPT !.pending = <<>>]

(***************************************************************************)
(* The event loop.  It wakes for a notification or for passt, serves what  *)
(* there is, publishes what it served and interrupts the guest.            *)
(***************************************************************************)
NewLoop == [pc |-> "wait", on |-> FALSE, q |-> 0, any |-> FALSE, frame |-> 0]

ProcessActivateEvent ==
    /\ loop.pc = "wait" /\ cc.active /\ ~loop.on
    /\ loop' = [loop EXCEPT !.on = TRUE]
    /\ UNCHANGED <<dev, cc, queues, ring, drv, kick, msix, irq, net>>

ProcessQueueEvent(q) ==
    /\ loop.pc = "wait" /\ loop.on /\ kick[q]
    /\ kick' = [kick EXCEPT ![q] = FALSE]
    /\ loop' = [loop EXCEPT !.q = q, !.any = FALSE,
                            !.pc = IF dev = "block" \/ q = TX THEN "pop" ELSE "read"]
    /\ net' = IF dev = "net" /\ q = TX THEN FinishPendingWrite ELSE net
    /\ UNCHANGED <<dev, cc, queues, ring, drv, msix, irq>>

(* A closed socket is readable too.                                        *)
ProcessPasst ==
    /\ loop.pc = "wait" /\ loop.on /\ dev = "net"
    /\ net.inbox # <<>> \/ ~net.open
    /\ loop' = [loop EXCEPT !.q = RX, !.any = FALSE, !.pc = "read"]
    /\ UNCHANGED <<dev, cc, queues, ring, drv, kick, msix, irq, net>>

(* process_rx: the deferred frame first, then try_read_frame.              *)
TakeDeferred ==
    /\ loop.pc = "read" /\ loop.frame # 0
    /\ loop' = [loop EXCEPT !.pc = "pop"]
    /\ UNCHANGED <<dev, cc, queues, ring, drv, kick, msix, irq, net>>

ReadHeader ==
    /\ loop.pc = "read" /\ loop.frame = 0 /\ net.inbox # <<>> /\ net.rx = 0
    /\ net' = [net EXCEPT !.inbox = Tail(@), !.rx = Head(net.inbox)]
    /\ UNCHANGED <<dev, cc, queues, ring, drv, kick, loop, msix, irq>>

ReadBody ==
    /\ loop.pc = "read" /\ loop.frame = 0 /\ net.inbox # <<>> /\ net.rx # 0
    /\ net' = [net EXCEPT !.inbox = Tail(@), !.rx = 0]
    /\ loop' = [loop EXCEPT !.pc = "pop", !.frame = Head(net.inbox)]
    /\ UNCHANGED <<dev, cc, queues, ring, drv, kick, msix, irq>>

(* Mutant: what was read of a frame is forgotten when more is missing.     *)
ReadNothingForgets ==
    /\ loop.pc = "read" /\ loop.frame = 0 /\ net.inbox = <<>>
    /\ loop' = [loop EXCEPT !.pc = "publish"]
    /\ net' = [net EXCEPT !.rx = 0]
    /\ UNCHANGED <<dev, cc, queues, ring, drv, kick, msix, irq>>

(* No more to read now, or ever: what was read of a frame is kept.         *)
ReadNothing ==
    /\ loop.pc = "read" /\ loop.frame = 0 /\ net.inbox = <<>>
    /\ loop' = [loop EXCEPT !.pc = "publish"]
    /\ UNCHANGED <<dev, cc, queues, ring, drv, kick, msix, irq, net>>

(* One chain is taken from the queue, worked on and answered.              *)
ServeBlock ==
    /\ \E r \in Outcomes(ring[0].chain[HeadOf(0)]) : ring' = Answered(0, r.status, r.len)
    /\ loop' = [loop EXCEPT !.pc = "pop", !.any = TRUE]
    /\ UNCHANGED net

(* write_frame_to_rx_queue: a frame that does not fit is dropped.          *)
ServeRx ==
    /\ ring' = Answered(RX, "frame", IF loop.frame \in Big THEN 0 ELSE loop.frame)
    /\ loop' = [loop EXCEPT !.pc = "read", !.frame = 0]
    /\ UNCHANGED net

ServeTx ==
    /\ net' = WriteFrame(ring[TX].chain[HeadOf(TX)])
    /\ ring' = Answered(TX, "none", 0)
    /\ loop' = [loop EXCEPT !.pc = "pop", !.any = TRUE]

Serve ==
    /\ \/ dev = "block" /\ ServeBlock
       \/ dev = "net" /\ loop.q = RX /\ ServeRx
       \/ dev = "net" /\ loop.q = TX /\ ServeTx
    /\ queues' = Taken(loop.q)
    /\ UNCHANGED <<dev, cc, drv, kick, msix, irq>>

(* pop_or_enable_notification.                                             *)
Pop == loop.pc = "pop" /\ Available(loop.q) # 0 /\ ~Stray(loop.q) /\ Serve

PopNothing ==
    /\ loop.pc = "pop" /\ Available(loop.q) = 0 /\ ~queues[loop.q].suppress
    /\ loop' = [loop EXCEPT !.pc = "publish"]
    /\ UNCHANGED <<dev, cc, queues, ring, drv, kick, msix, irq, net>>

EnableNotification ==
    /\ loop.pc = "pop" /\ Available(loop.q) = 0 /\ queues[loop.q].suppress
    /\ ring' = [ring EXCEPT ![loop.q].availEvent = queues[loop.q].nextAvail]
    /\ loop' = [loop EXCEPT !.pc = "again"]
    /\ UNCHANGED <<dev, cc, queues, drv, kick, msix, irq, net>>

(* The index is read again: a chain that came in between is served.        *)
PopAgain == loop.pc = "again" /\ Available(loop.q) # 0 /\ ~Stray(loop.q) /\ Serve

(* pop_unchecked, of a head that is not to be had.                         *)
PopStray ==
    /\ loop.pc \in {"pop", "again"} /\ Stalled(loop.q)
    /\ loop' = [loop EXCEPT !.pc = "publish"]
    /\ UNCHANGED <<dev, cc, queues, ring, drv, kick, msix, irq, net>>

StillNothing ==
    /\ loop.pc = "again" /\ Available(loop.q) = 0
    /\ loop' = [loop EXCEPT !.pc = "publish"]
    /\ UNCHANGED <<dev, cc, queues, ring, drv, kick, msix, irq, net>>

(* advance_used_ring_idx, then prepare_kick and the interrupt.             *)
AdvanceUsed ==
    /\ loop.pc = "publish"
    /\ ring' = [ring EXCEPT ![loop.q].usedIdx = queues[loop.q].nextUsed]
    /\ loop' = [loop EXCEPT !.pc = "notify"]
    /\ UNCHANGED <<dev, cc, queues, drv, kick, msix, irq, net>>

Notify ==
    /\ loop.pc = "notify"
    /\ LET asks == loop.any \/ (dev = "net" /\ loop.q = RX)
       IN /\ SetInterrupts(IF asks /\ PrepareKick(loop.q)
                           THEN Trigger(Interrupts, msix.queue[loop.q]) ELSE Interrupts)
          /\ queues' = IF asks /\ queues[loop.q].suppress
                       THEN [queues EXCEPT ![loop.q].added = 0] ELSE queues
    /\ loop' = [loop EXCEPT !.pc = "wait", !.any = FALSE]
    /\ UNCHANGED <<dev, cc, ring, drv, kick, net>>

Working ==
    \/ TakeDeferred \/ ReadHeader \/ ReadBody \/ ReadNothing
    \/ Pop \/ PopNothing \/ EnableNotification \/ PopAgain \/ StillNothing \/ PopStray
    \/ AdvanceUsed \/ Notify

(***************************************************************************)
(* The guest, as the specification of virtio asks of it.  Until its driver *)
(* is live it writes registers in any order; those it has no business      *)
(* writing are ignored by the device.                                      *)
(***************************************************************************)
NewDriver ==
    [phase |-> "probe", out |-> [q \in {RX, TX} |-> {}], last |-> [q \in {RX, TX} |-> 0],
     told |-> [q \in {RX, TX} |-> 0], poll |-> [q \in {RX, TX} |-> "idle"],
     masks |-> 0, sent |-> 0, got |-> <<>>]

Events == drv.sent + net.begun + drv.masks

Probing == drv.phase = "probe" /\ cc.step < 4
Live == drv.phase = "live"

ProbeStatus == Probing /\ \E n \in 0..3 : WriteStatus(n)

(* The driver declares itself ready when it can be interrupted and has     *)
(* placed all of its queues, or left all of them at zero.                  *)
ProbeReady ==
    /\ LET placed(q, p) == queues[q].addr[p] # "zero"
       IN \A q, r \in Queues, p, s \in Parts[dev] : placed(q, p) <=> placed(r, s)
    /\ Probing /\ msix.enabled /\ ~msix.masked /\ msix.config # NoVector
    /\ \A q \in Queues : msix.queue[q] # NoVector
    /\ \A v \in Vectors : ~msix.entry[v]
    /\ WriteStatus(4)

ProbeFeatures == Probing /\ WriteFeatures

ProbeQueue ==
    /\ Probing
    /\ \E q \in Queues :
        \/ \E n \in Sizes[dev] : WriteQueueSize(q, n)
        \/ \E p \in Parts[dev], a \in {"good", "bad"} :
                queues[q].addr[p] # "good" /\ WriteQueueAddress(q, p, a)
        \/ WriteQueueEnable(q)

(* Queues may share a vector; one that does not exist leaves no vector.    *)
ProbeVectors ==
    /\ Probing /\ At(cc, 3)
    /\ \/ \E q \in Queues, v \in {1, 2, 9} :
            queues[q].ready /\ msix.queue[q] = NoVector /\ v \in {1, q + 1, 9} /\ WriteVector(q, v)
       \/ WriteConfigVector(0)

ProbeMsix ==
    /\ Probing /\ At(cc, 3)
    /\ \/ \E masked \in BOOLEAN : WriteMsgCtl(TRUE, masked)
       \/ WriteMsgCtl(FALSE, FALSE)
       \/ \E v \in Vectors : msix.enabled /\ WriteEntry(v, FALSE)
    /\ UNCHANGED drv

(* The driver sees the device ready, or needing a reset: it gives up, and  *)
(* may begin again.                                                        *)
ProbeEnds ==
    /\ drv.phase = "probe" /\ cc.active
    /\ drv' = [drv EXCEPT !.phase = "live"]
    /\ UNCHANGED <<dev, cc, queues, ring, kick, loop, msix, irq, net>>

ProbeFails == drv.phase = "probe" /\ cc.needsReset /\ ~cc.failed /\ WriteFailed
ProbeAgain == drv.phase = "probe" /\ cc.failed /\ WriteStatus(0)

(* A running guest masks an interrupt for a while.                         *)
Mask ==
    /\ Live /\ drv.masks < MaxMasks[dev] /\ Events < Frames
    /\ \/ \E v \in Vectors \ {0} : ~msix.entry[v] /\ WriteEntry(v, TRUE)
       \/ ~msix.masked /\ WriteMsgCtl(TRUE, TRUE)
    /\ drv' = [drv EXCEPT !.masks = @ + 1]

UnmaskEntry(v) == Live /\ v \in Vectors /\ msix.entry[v] /\ WriteEntry(v, FALSE) /\ UNCHANGED drv
UnmaskAll == Live /\ msix.masked /\ WriteMsgCtl(TRUE, FALSE) /\ UNCHANGED drv

(* The driver resets the device and would set it up again.                 *)
Reset ==
    /\ Live /\ dev \in Resets
    /\ cc' = SetDeviceStatus(cc, 0)
    /\ drv' = [NewDriver EXCEPT !.phase = "reset"]
    /\ UNCHANGED <<dev, queues, ring, kick, loop, msix, irq, net>>

SetUpAgain ==
    /\ drv.phase = "reset"
    /\ \/ \E n \in 1..4 : WriteStatus(n)
       \/ \E q \in Queues, p \in Parts[dev] : WriteQueueAddress(q, p, "other")

(* A chain is made available; the notification may wait for more, but not  *)
(* until the index has come round.                                         *)
Publish(q, h, c) ==
    /\ Live /\ Minus(ring[q].availIdx, drv.told[q]) < Modulus - 1
    /\ h \in 0..(queues[q].size - 1) \ drv.out[q]
    /\ ring' = [ring EXCEPT ![q].chain[h] = c,
                            ![q].avail[ring[q].availIdx % queues[q].size] = h,
                            ![q].availIdx = Plus(@, 1)]
    /\ drv' = [drv EXCEPT !.out[q] = @ \cup {h},
                          !.sent = IF dev = "net" /\ q = TX THEN c ELSE @]
    /\ UNCHANGED <<dev, cc, queues, kick, loop, msix, irq, net>>

Request == dev = "block" /\ \E h \in DOMAIN Chains : \E c \in Chains[h] : Publish(0, h, c)
OfferBuffer == dev = "net" /\ \E h \in 0..(MaxSize[dev] - 1) : Publish(RX, h, 0)
SendFrame == dev = "net" /\ Events < Frames
             /\ \E h \in 0..(MaxSize[dev] - 1) : Publish(TX, h, drv.sent + 1)

(* The driver notifies unless the device's event index says it need not.   *)
Kick(q) ==
    /\ Live /\ q \in Queues /\ drv.told[q] # ring[q].availIdx
    /\ LET new == ring[q].availIdx
           asked == \/ ~cc.eventIdx
                    \/ Minus(Minus(new, ring[q].availEvent), 1) < Minus(new, drv.told[q])
       IN /\ kick' = [kick EXCEPT ![q] = @ \/ asked]
          /\ drv' = [drv EXCEPT !.told[q] = new]
    /\ UNCHANGED <<dev, cc, queues, ring, loop, msix, irq, net>>

TakeInterrupt(v) ==
    /\ Live /\ v \in Vectors /\ irq[v]
    /\ irq' = [irq EXCEPT ![v] = FALSE]
    /\ drv' = [drv EXCEPT !.poll = [q \in {RX, TX} |->
                    IF q \in Queues /\ msix.queue[q] = v THEN "poll" ELSE @[q]]]
    /\ UNCHANGED <<dev, cc, queues, ring, kick, loop, msix, net>>

(* Collect what is used, ask for the next interrupt, and look once more.   *)
Collect(q) ==
    /\ Live /\ q \in Queues /\ drv.poll[q] # "idle" /\ drv.last[q] # ring[q].usedIdx
    /\ LET used == ring[q].used[drv.last[q] % queues[q].size]
       IN /\ drv' = [drv EXCEPT !.out[q] = @ \ {used.id}, !.last[q] = Plus(@, 1),
                                !.poll[q] = "poll",
                                !.got = IF used.status = "frame" /\ used.len # 0
                                        THEN Append(@, used.len) ELSE @]
          /\ ring' = [ring EXCEPT ![q].used[drv.last[q] % queues[q].size] = Unused]
    /\ UNCHANGED <<dev, cc, queues, kick, loop, msix, irq, net>>

Arm(q) ==
    /\ Live /\ q \in Queues /\ drv.poll[q] = "poll" /\ drv.last[q] = ring[q].usedIdx
    /\ ring' = [ring EXCEPT ![q].usedEvent = drv.last[q]]
    /\ drv' = [drv EXCEPT !.poll[q] = "armed"]
    /\ UNCHANGED <<dev, cc, queues, kick, loop, msix, irq, net>>

Rest(q) ==
    /\ Live /\ q \in Queues /\ drv.poll[q] = "armed" /\ drv.last[q] = ring[q].usedIdx
    /\ drv' = [drv EXCEPT !.poll[q] = "idle"]
    /\ UNCHANGED <<dev, cc, queues, ring, kick, loop, msix, irq, net>>

(***************************************************************************)
(* passt sends frames, takes what was sent to it, and may go away.         *)
(***************************************************************************)
PasstSends ==
    /\ dev = "net" /\ net.open /\ cc.active
    /\ \/ Events < Frames /\ net.begun = net.sent
          /\ net' = [net EXCEPT !.begun = @ + 1, !.inbox = Append(@, -(net.begun + 1))]
       \/ net.begun # net.sent
          /\ net' = [net EXCEPT !.sent = @ + 1, !.inbox = Append(@, net.begun)]
    /\ UNCHANGED <<dev, cc, queues, ring, drv, kick, loop, msix, irq>>

PasstTakes ==
    /\ dev = "net" /\ net.open /\ net.outbox # <<>>
    /\ net' = [net EXCEPT !.outbox = Tail(@), !.seen = Append(@, Head(net.outbox))]
    /\ UNCHANGED <<dev, cc, queues, ring, drv, kick, loop, msix, irq>>

PasstExits ==
    /\ dev = "net" /\ net.open /\ cc.active
    /\ net' = [net EXCEPT !.open = FALSE, !.outbox = <<>>]
    /\ UNCHANGED <<dev, cc, queues, ring, drv, kick, loop, msix, irq>>

(***************************************************************************)
(* The specification.                                                      *)
(***************************************************************************)
Init ==
    /\ dev \in Devices
    /\ cc = NewConfig
    /\ queues = [q \in Queues |-> NewQueue]
    /\ ring = [q \in Queues |-> NewRing]
    /\ drv = NewDriver
    /\ kick = [q \in Queues |-> FALSE]
    /\ loop = NewLoop
    /\ msix = NewMsix
    /\ irq = [v \in Vectors |-> FALSE]
    /\ net = NewNet

Probe ==
    \/ ProbeStatus \/ ProbeReady \/ ProbeFeatures \/ ProbeQueue \/ ProbeVectors
    \/ ProbeMsix \/ ProbeEnds \/ ProbeFails \/ ProbeAgain

Driver ==
    \/ Mask \/ UnmaskAll \/ Request \/ OfferBuffer \/ SendFrame \/ Reset \/ SetUpAgain
    \/ \E v \in 0..2 : UnmaskEntry(v) \/ TakeInterrupt(v)
    \/ \E q \in {RX, TX} : Kick(q) \/ Collect(q) \/ Arm(q) \/ Rest(q)

Device ==
    \/ ProcessActivateEvent \/ ProcessPasst \/ Working
    \/ \E q \in Queues : ProcessQueueEvent(q)

Passt == PasstSends \/ PasstTakes \/ PasstExits

Next == Probe \/ Driver \/ Device \/ Passt

Spec == Init /\ [][Next]_vars

(***************************************************************************)
(* Properties.                                                             *)
(***************************************************************************)
(* What the device has answered and the driver has not collected are heads *)
(* the driver gave, none of them twice, and never more are available than  *)
(* the queue holds.  (add_used, advance_used_ring_idx and pop.)            *)
HeadsFaithful ==
    \A q \in Queues :
        LET k == Minus(queues[q].nextUsed, drv.last[q])
            slot(i) == ring[q].used[Plus(drv.last[q], i) % queues[q].size].id
        IN Live => /\ Available(q) <= queues[q].size
                   /\ \A i \in 0..(k - 1) : slot(i) \in drv.out[q]
                   /\ \A i, j \in 0..(k - 1) : i # j => slot(i) # slot(j)

(* The frames the guest received are those passt sent that fit a buffer,   *)
(* whole, in their order and without a gap.  (try_read_frame, which reads  *)
(* a frame in pieces, and write_frame_to_rx_queue.)                        *)
FramesFaithful ==
    LET got == drv.got
    IN /\ \A i \in DOMAIN got : got[i] \in 1..net.sent \ Big
       /\ \A i, j \in DOMAIN got : i < j => got[i] < got[j]
       /\ \A i \in DOMAIN got, n \in 1..net.sent : n < got[i] => n \in Big \/ n \in Range(got)

(* What crosses the rings is what was put in: heads and frames.            *)
Faithful == HeadsFaithful /\ FramesFaithful

(* A device that is active works on the rings its driver configured: they  *)
(* are resolved once, and no later write moves the addresses under them,   *)
(* even though a reset does not stop the device.  (set_device_status and   *)
(* update_queue_field against initialize.)                                 *)
RingsMatch == cc.active => \A q \in Queues : queues[q].ptr = queues[q].addr

(* Nobody has a reason to move: the event loop sleeps with no event to     *)
(* wake it, the driver has no interrupt to handle, nothing to say, and     *)
(* every vector unmasked.                                                  *)
Quiet ==
    /\ Live /\ loop.pc = "wait" /\ loop.on /\ net.inbox = <<>>
    /\ ~msix.masked
    /\ \A v \in Vectors : ~irq[v] /\ ~msix.entry[v]
    /\ \A q \in Queues :
        /\ ~kick[q] /\ drv.told[q] = ring[q].availIdx /\ drv.poll[q] = "idle"
        /\ (dev = "net" /\ q = RX) => drv.out[q] = 0..(queues[q].size - 1)

(* When both sides sleep there is nothing left to do: the driver has taken *)
(* every answer back, and every chain it handed over was answered, be it a *)
(* request that does not parse, unless the queue has stopped at a head     *)
(* that leads out of the descriptor table; every frame passt sent whole    *)
(* that fits in a buffer was received.  Neither a notification nor an      *)
(* interrupt is lost between two sides that stop each other's events, mask *)
(* vectors and batch.  (pop_unchecked, try_enable_notification,            *)
(* prepare_kick, trigger, write_table, set_msg_ctl, rx_deferred_frame.)    *)
NoLostWakeup ==
    Quiet => /\ \A q \in Queues :
                    /\ Minus(queues[q].nextUsed, drv.last[q]) = 0
                    /\ (dev = "net" /\ q = RX) \/ Stalled(q) \/ drv.out[q] = {}
             /\ loop.frame = 0
             /\ \A n \in 1..net.sent : n \in Big \/ n \in Range(drv.got)

(* What passt is sent is frame after frame, each one whole: the pending    *)
(* rest of a frame is written before the next one.  (write_frame asserts   *)
(* that no rest is pending.)                                               *)
TxFramed == \A i \in DOMAIN net.seen :
                net.seen[i] = IF i % 2 = 1 THEN -((i + 1) \div 2) ELSE i \div 2
=============================================================================
