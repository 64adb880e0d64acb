---------------------------- MODULE Virtio_proofs ----------------------------
(***************************************************************************)
(* The rings of Virtio, and what wakes the two sides of them, for queues   *)
(* of any size, any modulus the sizes divide, any chains, frames and room  *)
(* in the socket.                                                          *)
(***************************************************************************)
EXTENDS Virtio, FiniteSetTheorems, SequenceTheorems, TLAPS

Indices == 0..(Modulus - 1)
Addresses == {"zero", "good", "bad", "other"}
ConfigType == [step : 0..4, failed : BOOLEAN, needsReset : BOOLEAN, active : BOOLEAN,
               eventIdx : BOOLEAN]
QueueType == [size : Nat, ready : BOOLEAN,
              addr : [Parts[dev] -> Addresses], ptr : [Parts[dev] -> Addresses],
              nextAvail : Indices, nextUsed : Indices, added : Indices, suppress : BOOLEAN]

(* A size that initialize accepts.                                         *)
GoodSize(n) == n \in 1..MaxSize[dev] /\ n \in Nat \ {0} /\ n < Modulus /\ Modulus % n = 0

(* An active device left the states in which its queues can be written,    *)
(* and a reset does not lead back to them.                                 *)
RegisterInv ==
    /\ dev \in Devices /\ cc \in ConfigType /\ queues \in [Queues -> QueueType]
    /\ cc.active => /\ cc.step \in {0, 4}
                    /\ \A q \in Queues : queues[q].ptr = queues[q].addr /\ GoodSize(queues[q].size)

Slots == 0..(MaxSize[dev] - 1)
Statuses == {"none", "ok", "ioerr", "unsupported", "frame"}
ChainValues == BlockRequests \cup Nat \cup {<<>>}
RingType ==
    [avail : [Slots -> Slots \cup {Blank}], availIdx : Indices, usedEvent : Indices,
     used : [Slots -> [id : Slots \cup {Blank}, status : Statuses, len : Int]],
     usedIdx : Indices, availEvent : Indices, chain : [Slots -> ChainValues]]
DriverType ==
    [phase : {"probe", "live", "reset"}, out : [{RX, TX} -> SUBSET Slots],
     last : [{RX, TX} -> Indices], told : [{RX, TX} -> Indices],
     poll : [{RX, TX} -> {"idle", "poll", "armed"}], masks : Nat, sent : Nat, got : Seq(Int)]
LoopType ==
    [pc : {"wait", "read", "pop", "again", "publish", "notify"}, on : BOOLEAN, q : Queues,
     any : BOOLEAN, frame : Int]
NetType ==
    [inbox : Seq(Int), rx : Int, begun : Nat, sent : Nat, pending : Seq(Int),
     outbox : Seq(Int), seen : Seq(Int), open : BOOLEAN]

(* The types of what the guest, the event loop and passt work on.          *)
SharedType ==
    /\ ring \in [Queues -> RingType] /\ drv \in DriverType /\ loop \in LoopType
    /\ net \in NetType /\ Len(net.outbox) <= Room

(* Before the device is active the rings are blank and nobody uses them.   *)
ProbeInv ==
    /\ drv.phase = "live" => cc.active
    /\ ~cc.active => /\ loop.pc = "wait" /\ ~loop.on
                     /\ \A q \in Queues :
                         /\ ring[q].availIdx = 0 /\ ring[q].usedIdx = 0
                         /\ queues[q].nextAvail = 0 /\ queues[q].nextUsed = 0
                         /\ drv.out[q] = {} /\ drv.last[q] = 0

(* The heads in the queue and those answered, from the oldest on.          *)
Waiting(q) == Minus(ring[q].availIdx, queues[q].nextAvail)
Given(q) == Minus(queues[q].nextUsed, drv.last[q])
AvailHead(q, i) == ring[q].avail[Plus(queues[q].nextAvail, i) % queues[q].size]
Entry(q, i) == ring[q].used[Plus(drv.last[q], i) % queues[q].size]
Id(q, i) == Entry(q, i).id
ChainOf(q) == IF dev = "block" THEN BlockRequests ELSE Nat

(* Every head the driver gave out is in one of the two windows, once, and  *)
(* the chain of one that waits is there.                                   *)
Windows(q) ==
    /\ drv.out[q] \subseteq 0..(queues[q].size - 1)
    /\ Cardinality(drv.out[q]) = Waiting(q) + Given(q)
    /\ \A i \in 0..(Waiting(q) - 1) : /\ AvailHead(q, i) \in drv.out[q]
                                      /\ ring[q].chain[AvailHead(q, i)] \in ChainOf(q)
    /\ \A i \in 0..(Given(q) - 1) : Id(q, i) \in drv.out[q]
    /\ \A i, j \in 0..(Waiting(q) - 1) : i # j => AvailHead(q, i) # AvailHead(q, j)
    /\ \A i, j \in 0..(Given(q) - 1) : i # j => Id(q, i) # Id(q, j)
    /\ \A i \in 0..(Waiting(q) - 1), j \in 0..(Given(q) - 1) : AvailHead(q, i) # Id(q, j)
    /\ Minus(ring[q].usedIdx, drv.last[q]) <= Given(q)

(* After a reset the driver no longer knows what it gave out.              *)
RingInv ==
    drv.phase # "reset" => /\ SharedType /\ ProbeInv
                           /\ cc.active => \A q \in Queues : Windows(q)

(* The stream from passt: word k of it, how many the device has read, and  *)
(* the last frame it has put in a buffer or dropped.                       *)
Word(k) == IF k % 2 = 1 THEN -((k + 1) \div 2) ELSE k \div 2
Read == (net.begun + net.sent) - Len(net.inbox)
Delivered == IF loop.frame = 0 THEN Read \div 2 ELSE Read \div 2 - 1

StreamInv ==
    /\ net.begun \in {net.sent, net.sent + 1} /\ Read \in Nat /\ (dev # "net" => net.begun = 0)
    /\ \A i \in 1..Len(net.inbox) : net.inbox[i] = Word(Read + i)
    /\ net.rx = 0 <=> Read % 2 = 0
    /\ loop.frame # 0 => loop.frame = Read \div 2 /\ loop.frame > 0

(* A frame that was delivered is received or waits in the used ring,       *)
(* behind those that came before it.                                       *)
IsRx(q) == dev = "net" /\ q = RX
EntryInv(q, i) ==
    LET e == Entry(q, i)
    IN IF IsRx(q)
       THEN /\ e.status = "frame" /\ e.len \in Nat
            /\ e.len # 0 => /\ e.len <= Delivered /\ e.len \notin Big
                            /\ \A j \in DOMAIN drv.got : drv.got[j] < e.len
                            /\ \A j \in 0..(i - 1) : Entry(q, j).len < e.len
       ELSE e.status # "frame"
GotInv ==
    /\ \A i \in DOMAIN drv.got : drv.got[i] \in 1..Delivered \ Big
    /\ \A i, j \in DOMAIN drv.got : i < j => drv.got[i] < drv.got[j]
PipeInv ==
    /\ \A q \in Queues : \A i \in 0..(Given(q) - 1) : EntryInv(q, i)
    /\ dev = "net" => \A n \in 1..Delivered \ Big :
                        n \in Range(drv.got) \/ \E i \in 0..(Given(RX) - 1) : Entry(RX, i).len = n

FrameInv ==
    IF drv.phase = "reset" THEN drv.got = <<>>
    ELSE /\ StreamInv /\ GotInv /\ (cc.active => PipeInv)
         /\ ~cc.active => net.begun = 0 /\ net.inbox = <<>> /\ loop.frame = 0 /\ drv.got = <<>>

IInv == RegisterInv /\ RingInv /\ FrameInv

(* Modulus is positive, and large for every queue.                         *)
LEMMA ModulusFact ==
  /\ Modulus \in Nat /\ \A d \in Devices : Modulus > 1 /\ MaxSize[d] \in Nat \ {0} /\ MaxSize[d] < Modulus
BY VirtioAssumption

(* The remainder is determined by its range.                               *)
LEMMA ModUnique == ASSUME NEW m \in Nat \ {0}, NEW r \in 0..(m - 1), NEW k \in Int
  PROVE (m * k + r) % m = r
<1>. DEFINE x == m * k + r
            s == x % m
            t == x \div m
<1>1. x \in Int /\ s \in 0..(m - 1) /\ x = m * t + s /\ t \in Int
  OBVIOUS
<1>2. m * (k - t) = s - r
  BY <1>1
<1>3. CASE k - t >= 1
  <2>1. m * (k - t) >= m
    BY <1>1, <1>3
  <2>. QED
    BY <1>1, <1>2, <2>1
<1>4. CASE k - t <= -1
  <2>1. m * (k - t) <= -m
    BY <1>1, <1>4
  <2>. QED
    BY <1>1, <1>2, <2>1
<1>. QED
  BY <1>1, <1>2, <1>3, <1>4

(* The remainder of what is less than twice the modulus.                   *)
LEMMA ModSmall == ASSUME NEW m \in Nat \ {0}, NEW x \in Int, x >= 0, x < 2 * m
  PROVE x % m = IF x < m THEN x ELSE x - m
<1>1. CASE x < m
  <2>1. x = m * 0 + x
    OBVIOUS
  <2>. QED
    BY <1>1, <2>1, ModUnique
<1>2. CASE x >= m
  <2>1. x = m * 1 + (x - m)
    OBVIOUS
  <2>. QED
    BY <1>2, <2>1, ModUnique
<1>. QED
  BY <1>1, <1>2

(* Plus and Minus go round at most once (Wrapping<u16>).                   *)
LEMMA PlusIs == ASSUME NEW d \in Devices, NEW a \in Indices, NEW i \in Nat, i < Modulus
  PROVE Plus(a, i) = (IF a + i < Modulus THEN a + i ELSE a + i - Modulus) /\ Plus(a, i) \in Indices
<1>. DEFINE x == a + i
<1>1. x \in Int /\ x >= 0 /\ x < 2 * Modulus /\ Modulus \in Nat \ {0}
  BY ModulusFact DEF Indices
<1>. HIDE DEF x
<1>2. x % Modulus = IF x < Modulus THEN x ELSE x - Modulus
  BY <1>1, ModSmall
<1>. QED
  BY <1>1, <1>2 DEF Plus, x, Indices

(* Minus is the distance from the second index to the first.               *)
LEMMA MinusIs == ASSUME NEW d \in Devices, NEW a \in Indices, NEW b \in Indices
  PROVE Minus(a, b) = (IF a >= b THEN a - b ELSE a - b + Modulus) /\ Minus(a, b) \in Indices
<1>. DEFINE x == a - b + Modulus
<1>1. x \in Int /\ x >= 0 /\ x < 2 * Modulus /\ Modulus \in Nat \ {0}
  BY ModulusFact DEF Indices
<1>. HIDE DEF x
<1>2. x % Modulus = IF x < Modulus THEN x ELSE x - Modulus
  BY <1>1, ModSmall
<1>. QED
  BY <1>1, <1>2 DEF Minus, x, Indices

(* What a step of an index does to a distance.                             *)
LEMMA Distances == ASSUME NEW d \in Devices, NEW a \in Indices, NEW b \in Indices
  PROVE /\ Plus(a, 1) \in Indices /\ Plus(b, Minus(a, b)) = a
        /\ Minus(a, b) + 1 < Modulus => Minus(Plus(a, 1), b) = Minus(a, b) + 1
        /\ a # b => Minus(a, b) > 0 /\ Minus(a, Plus(b, 1)) = Minus(a, b) - 1
        /\ a = b => Minus(a, b) = 0
        /\ \A i \in Nat : i + 1 < Modulus => Plus(Plus(a, 1), i) = Plus(a, i + 1)
        /\ Plus(a, 0) = a
<1>m. Modulus \in Nat /\ Modulus > 1
  BY ModulusFact
<1>1. Plus(a, 1) \in Indices /\ Plus(b, 1) \in Indices
  BY <1>m, PlusIs
<1>i. a \in Nat /\ b \in Nat /\ a < Modulus /\ b < Modulus
  BY <1>m DEF Indices
<1>d. Minus(a, b) = (IF a >= b THEN a - b ELSE a - b + Modulus) /\ Minus(a, b) \in Nat /\ Minus(a, b) < Modulus
  BY <1>m, MinusIs DEF Indices
<1>p. /\ Plus(a, 1) = (IF a + 1 < Modulus THEN a + 1 ELSE a + 1 - Modulus)
      /\ Plus(b, 1) = (IF b + 1 < Modulus THEN b + 1 ELSE b + 1 - Modulus)
  BY <1>m, PlusIs
<1>2. Plus(b, Minus(a, b)) = a
  <2>1. Plus(b, Minus(a, b)) = (IF b + Minus(a, b) < Modulus THEN b + Minus(a, b) ELSE b + Minus(a, b) - Modulus)
    BY <1>d, PlusIs
  <2>. QED
    BY <1>m, <1>i, <1>d, <2>1
<1>3. Minus(a, b) + 1 < Modulus => Minus(Plus(a, 1), b) = Minus(a, b) + 1
  <2>1. Minus(Plus(a, 1), b) = (IF Plus(a, 1) >= b THEN Plus(a, 1) - b ELSE Plus(a, 1) - b + Modulus)
    BY <1>1, MinusIs
  <2>. QED
    BY <1>m, <1>i, <1>d, <1>p, <2>1
<1>4. a # b => Minus(a, b) > 0 /\ Minus(a, Plus(b, 1)) = Minus(a, b) - 1
  <2>1. Minus(a, Plus(b, 1)) = (IF a >= Plus(b, 1) THEN a - Plus(b, 1) ELSE a - Plus(b, 1) + Modulus)
    BY <1>1, MinusIs
  <2>. QED
    BY <1>m, <1>i, <1>d, <1>p, <2>1
<1>5. a = b => Minus(a, b) = 0
  BY <1>m, MinusIs DEF Indices
<1>6. ASSUME NEW i \in Nat, i + 1 < Modulus PROVE Plus(Plus(a, 1), i) = Plus(a, i + 1)
  <2>1. Plus(a, 1) = (IF a + 1 < Modulus THEN a + 1 ELSE a + 1 - Modulus)
    BY <1>m, PlusIs
  <2>2. Plus(a, i + 1) = (IF a + (i + 1) < Modulus THEN a + (i + 1) ELSE a + (i + 1) - Modulus)
    BY <1>m, <1>6, PlusIs
  <2>3. Plus(Plus(a, 1), i) = (IF Plus(a, 1) + i < Modulus THEN Plus(a, 1) + i ELSE Plus(a, 1) + i - Modulus)
    BY <1>m, <1>1, <1>6, PlusIs
  <2>. QED
    BY <1>m, <1>6, <2>1, <2>2, <2>3 DEF Indices
<1>7. Plus(a, 0) = a
  BY <1>m, PlusIs DEF Indices
<1>. QED
  BY <1>1, <1>2, <1>3, <1>4, <1>5, <1>6, <1>7

(* Indices less than a queue apart have slots of their own, also where     *)
(* they wrap: the size divides the modulus.                                *)
LEMMA SlotsDiffer ==
  ASSUME NEW d \in Devices, NEW n \in Nat \ {0}, Modulus % n = 0, NEW a \in Indices, NEW b \in Indices,
         Minus(a, b) \in 1..(n - 1)
  PROVE  a % n # b % n
<1>. SUFFICES ASSUME a % n = b % n PROVE FALSE
  OBVIOUS
<1>. DEFINE x == a \div n
            y == b \div n
            m == Modulus \div n
<1>1. a \in Int /\ b \in Int /\ Modulus \in Int
  BY ModulusFact DEF Indices
<1>2. x \in Int /\ y \in Int /\ m \in Int
  BY <1>1
<1>3. a = n * x + (a % n) /\ a % n \in Int
  BY <1>1
<1>4. b = n * y + (b % n) /\ b % n \in Int
  BY <1>1
<1>5. Modulus = n * m
  BY <1>1
<1>. HIDE DEF x, y, m
<1>6. a - b = n * (x - y)
  <2>1. a - b = n * x - n * y
    BY <1>1, <1>2, <1>3, <1>4
  <2>2. n * x - n * y = n * (x - y)
    BY <1>2
  <2>. QED
    BY <2>1, <2>2
<1>7. a - b + Modulus = n * (x - y + m)
  BY <1>1, <1>2, <1>5, <1>6
<1>8. \A k \in Int : n * k \notin 1..(n - 1)
  <2>. TAKE k \in Int
  <2>1. CASE k >= 1
    <3>1. n * k >= n
      BY <2>1
    <3>. QED
      BY <3>1
  <2>2. CASE k <= 0
    <3>1. n * k <= 0
      BY <2>2
    <3>. QED
      BY <3>1
  <2>. QED
    BY <2>1, <2>2
<1>9. x - y \in Int /\ x - y + m \in Int
  BY <1>2
<1>. QED
  BY <1>6, <1>7, <1>8, <1>9, MinusIs

(* The slots of a window that is not longer than its queue.                *)
LEMMA WindowSlots ==
  ASSUME NEW d \in Devices, NEW n \in Nat \ {0}, n < Modulus, Modulus % n = 0, NEW a \in Indices
  PROVE  /\ \A i \in Nat : Plus(a, i) % n \in 0..(n - 1)
         /\ \A i, j \in 0..(n - 1) : i # j => Plus(a, i) % n # Plus(a, j) % n
<1>m. Modulus \in Nat /\ Modulus > 1 /\ a \in Nat
  BY ModulusFact DEF Indices
<1>1. ASSUME NEW i \in Nat PROVE Plus(a, i) % n \in 0..(n - 1)
  <2>1. Plus(a, i) \in Int
    BY <1>m DEF Plus
  <2>. QED
    BY <2>1
<1>2. ASSUME NEW i \in 0..(n - 1), NEW j \in 0..(n - 1), i > j PROVE Plus(a, i) % n # Plus(a, j) % n
  <2>1. i \in Nat /\ j \in Nat /\ i < Modulus /\ j < Modulus
    BY <1>m
  <2>2. Plus(a, i) \in Indices /\ Plus(a, j) \in Indices
    BY <2>1, PlusIs
  <2>3. /\ Plus(a, i) = (IF a + i < Modulus THEN a + i ELSE a + i - Modulus)
        /\ Plus(a, j) = (IF a + j < Modulus THEN a + j ELSE a + j - Modulus)
    BY <2>1, PlusIs
  <2>4. Minus(Plus(a, i), Plus(a, j)) = IF Plus(a, i) >= Plus(a, j) THEN Plus(a, i) - Plus(a, j)
                                        ELSE Plus(a, i) - Plus(a, j) + Modulus
    BY <2>2, MinusIs
  <2>5. Minus(Plus(a, i), Plus(a, j)) = i - j
    BY <1>m, <1>2, <2>1, <2>3, <2>4
  <2>6. Minus(Plus(a, i), Plus(a, j)) \in 1..(n - 1)
    BY <1>2, <2>5
  <2>. QED
    BY <2>2, <2>6, SlotsDiffer
<1>3. ASSUME NEW i \in 0..(n - 1), NEW j \in 0..(n - 1), i # j PROVE Plus(a, i) % n # Plus(a, j) % n
  <2>1. i > j \/ j > i
    BY <1>3
  <2>. QED
    BY <1>2, <2>1
<1>. QED
  BY <1>1, <1>3

(* The steps that write registers or what the device keeps of its queues.  *)
LEMMA Writers == ASSUME dev \in Devices, [Next]_vars
  PROVE /\ dev' = dev
        /\ \/ \E n \in 0..4 : WriteStatus(n)
           \/ WriteFailed \/ WriteFeatures \/ Reset \/ Serve \/ Notify
           \/ \E q \in Queues : \/ \E n \in Nat : WriteQueueSize(q, n)
                                \/ \E p \in Parts[dev], a \in Addresses : WriteQueueAddress(q, p, a)
                                \/ WriteQueueEnable(q)
           \/ UNCHANGED <<cc, queues>>
<1>. DEFINE Goal ==
        /\ dev' = dev
        /\ \/ \E n \in 0..4 : WriteStatus(n)
           \/ WriteFailed \/ WriteFeatures \/ Reset \/ Serve \/ Notify
           \/ \E q \in Queues : \/ \E n \in Nat : WriteQueueSize(q, n)
                                \/ \E p \in Parts[dev], a \in Addresses : WriteQueueAddress(q, p, a)
                                \/ WriteQueueEnable(q)
           \/ UNCHANGED <<cc, queues>>
<1>1. ASSUME NEW n \in 0..4, WriteStatus(n) PROVE Goal
  BY <1>1 DEF WriteStatus
<1>2. CASE Probe
  <2>1. CASE ProbeStatus \/ ProbeReady \/ ProbeAgain
    BY <1>1, <2>1 DEF ProbeStatus, ProbeReady, ProbeAgain
  <2>2. CASE ProbeFeatures \/ ProbeFails
    BY <2>2 DEF ProbeFeatures, ProbeFails, WriteFeatures, WriteFailed
  <2>3. CASE ProbeQueue
    <3>1. Sizes[dev] \subseteq Nat
      BY VirtioAssumption
    <3>. QED
      BY <2>3, <3>1 DEF ProbeQueue, WriteQueueSize, WriteQueueAddress, WriteQueueEnable, UpdateQueueField, Addresses
  <2>4. CASE ProbeVectors \/ ProbeMsix \/ ProbeEnds
    BY <2>4 DEF ProbeVectors, ProbeMsix, ProbeEnds, WriteVector, WriteConfigVector, WriteMsgCtl, WriteEntry
  <2>. QED
    BY <1>2, <2>1, <2>2, <2>3, <2>4 DEF Probe
<1>3. CASE Driver
  <2>1. CASE Mask \/ UnmaskAll \/ \E v \in 0..2 : UnmaskEntry(v) \/ TakeInterrupt(v)
    BY <2>1 DEF Mask, UnmaskAll, UnmaskEntry, TakeInterrupt, WriteMsgCtl, WriteEntry
  <2>2. CASE Request \/ OfferBuffer \/ SendFrame
    BY <2>2 DEF Request, OfferBuffer, SendFrame, Publish
  <2>3. CASE Reset
    BY <2>3 DEF Reset
  <2>4. CASE SetUpAgain
    BY <1>1, <2>4 DEF SetUpAgain, WriteQueueAddress, UpdateQueueField, Addresses
  <2>5. CASE \E q \in {RX, TX} : Kick(q) \/ Collect(q) \/ Arm(q) \/ Rest(q)
    BY <2>5 DEF Kick, Collect, Arm, Rest
  <2>. QED
    BY <1>3, <2>1, <2>2, <2>3, <2>4, <2>5 DEF Driver
<1>4. CASE Device
  <2>1. CASE Pop \/ PopAgain
    BY <2>1 DEF Pop, PopAgain, Serve
  <2>2. CASE Notify
    BY <2>2 DEF Notify
  <2>3. CASE ProcessActivateEvent \/ ProcessPasst \/ \E q \in Queues : ProcessQueueEvent(q)
    BY <2>3 DEF ProcessActivateEvent, ProcessPasst, ProcessQueueEvent
  <2>4. CASE TakeDeferred \/ ReadHeader \/ ReadBody \/ ReadNothing
    BY <2>4 DEF TakeDeferred, ReadHeader, ReadBody, ReadNothing
  <2>5. CASE PopNothing \/ EnableNotification \/ StillNothing \/ PopStray \/ AdvanceUsed
    BY <2>5 DEF PopNothing, EnableNotification, StillNothing, PopStray, AdvanceUsed
  <2>. QED
    BY <1>4, <2>1, <2>2, <2>3, <2>4, <2>5 DEF Device, Working
<1>5. CASE Passt
  BY <1>5 DEF Passt, PasstSends, PasstTakes, PasstExits
<1>6. CASE UNCHANGED vars
  BY <1>6 DEF vars
<1>. QED
  BY <1>2, <1>3, <1>4, <1>5, <1>6 DEF Next

(* set_device_status: an active device is not taken further.               *)
LEMMA StatusFact == ASSUME cc \in ConfigType, NEW n \in 0..4
  PROVE /\ SetDeviceStatus(cc, n) \in ConfigType
        /\ SetDeviceStatus(cc, n).active = cc.active
        /\ cc.active => SetDeviceStatus(cc, n).step \in {0, cc.step}
        /\ NeedsActivation(SetDeviceStatus(cc, n)) => SetDeviceStatus(cc, 4).step = 4
<1>1. CASE n = 0
  BY <1>1 DEF SetDeviceStatus, ConfigType, NeedsActivation, At
<1>2. CASE n # 0 /\ At(cc, n - 1) /\ ~cc.active
  BY <1>2 DEF SetDeviceStatus, ConfigType, NeedsActivation, At
<1>3. CASE n # 0 /\ ~(At(cc, n - 1) /\ ~cc.active)
  <2>1. SetDeviceStatus(cc, n) = cc
    BY <1>3 DEF SetDeviceStatus
  <2>2. NeedsActivation(cc) => SetDeviceStatus(cc, 4) = cc
    BY DEF SetDeviceStatus, ConfigType, NeedsActivation, At
  <2>. QED
    BY <2>1, <2>2 DEF ConfigType, NeedsActivation, At
<1>. QED
  BY <1>1, <1>2, <1>3

(* initialize accepts sizes that divide the modulus.                       *)
LEMMA SizeFact == ASSUME dev \in Devices, NEW q \in Queues, queues[q] \in QueueType, Initializes(queues[q])
  PROVE GoodSize(queues[q].size)
BY ModulusFact, VirtioAssumption DEF Initializes, GoodSize, QueueType

(* The registers stay consistent with what the device has resolved.        *)
LEMMA RegisterStep == RegisterInv /\ [Next]_vars => RegisterInv'
<1>. SUFFICES ASSUME RegisterInv, [Next]_vars PROVE RegisterInv'
  OBVIOUS
<1>d. dev \in Devices /\ dev' = dev /\ Queues' = Queues
  BY Writers DEF RegisterInv, Queues
<1>t. cc \in ConfigType /\ queues \in [Queues -> QueueType]
  BY DEF RegisterInv
<1>g. \A n : GoodSize(n)' <=> GoodSize(n)
  BY <1>d DEF GoodSize
<1>q. QueueType' = QueueType
  BY <1>d DEF QueueType
<1>m. Modulus \in Nat /\ Modulus > 1
  BY <1>d, ModulusFact
<1>same. ASSUME cc' \in ConfigType, cc'.active => cc.active /\ cc'.step \in {0, cc.step}, queues' \in [Queues -> QueueType],
                \A q \in Queues : queues'[q].ptr = queues[q].ptr /\ queues'[q].addr = queues[q].addr /\ queues'[q].size = queues[q].size
         PROVE  RegisterInv'
  BY <1>d, <1>g, <1>q, <1>same DEF RegisterInv
<1>1. ASSUME NEW n \in 0..4, WriteStatus(n) PROVE RegisterInv'
  <2>. DEFINE c == SetDeviceStatus(cc, n)
  <2>s. c \in ConfigType /\ c.active = cc.active /\ (cc.active => c.step \in {0, cc.step})
    BY <1>t, StatusFact
  <2>1. CASE ~NeedsActivation(c)
    <3>1. cc' = c /\ queues' = queues
      BY <1>1, <2>1 DEF WriteStatus
    <3>. HIDE DEF c
    <3>. QED
      BY <1>t, <1>same, <2>s, <3>1
  <2>2. CASE NeedsActivation(c) /\ \A q \in Queues : Initializes(queues[q])
    <3>1. ActivateOk
      BY <1>1, <2>2 DEF WriteStatus
    <3>2. SetDeviceStatus(cc, 4).step = 4 /\ SetDeviceStatus(cc, 4) \in ConfigType
      BY <1>t, <2>2, StatusFact
    <3>3. cc' \in ConfigType /\ cc'.step = 4
      BY <3>1, <3>2 DEF ActivateOk, ConfigType
    <3>4. queues' \in [Queues -> QueueType]
      BY <1>t, <3>1 DEF ActivateOk, QueueType, ConfigType
    <3>5. \A q \in Queues : queues'[q].ptr = queues'[q].addr /\ queues'[q].size = queues[q].size
      BY <1>t, <3>1 DEF ActivateOk, QueueType
    <3>6. \A q \in Queues : GoodSize(queues[q].size)
      BY <1>d, <1>t, <2>2, SizeFact
    <3>. QED
      BY <1>d, <1>g, <1>q, <3>3, <3>4, <3>5, <3>6 DEF RegisterInv
  <2>3. CASE NeedsActivation(c) /\ ~\A q \in Queues : Initializes(queues[q])
    <3>1. ActivateFails
      BY <1>1, <2>3 DEF WriteStatus
    <3>2. SetDeviceStatus(cc, 4) \in ConfigType /\ SetDeviceStatus(cc, 4).active = cc.active /\ ~cc.active
      BY <1>t, <2>3, <2>s, StatusFact DEF NeedsActivation
    <3>3. cc' \in ConfigType /\ ~cc'.active /\ queues' = queues
      BY <3>1, <3>2 DEF ActivateFails, ConfigType
    <3>. QED
      BY <1>t, <1>same, <3>3
  <2>. QED
    BY <2>1, <2>2, <2>3
<1>2. CASE WriteFailed \/ WriteFeatures
  <2>1. cc' \in ConfigType /\ cc'.active = cc.active /\ cc'.step = cc.step /\ queues' = queues
    BY <1>2, <1>t DEF WriteFailed, WriteFeatures, ConfigType, At
  <2>. QED
    BY <1>t, <1>same, <2>1
<1>3. CASE Reset
  <2>1. cc' = SetDeviceStatus(cc, 0) /\ queues' = queues
    BY <1>3 DEF Reset
  <2>2. cc' \in ConfigType /\ cc'.active = cc.active /\ (cc.active => cc'.step \in {0, cc.step})
    BY <1>t, <2>1, StatusFact
  <2>. QED
    BY <1>t, <1>same, <2>1, <2>2
<1>4. CASE Serve
  <2>1. cc' = cc /\ queues' = Taken(loop.q)
    BY <1>4 DEF Serve
  <2>2. \A a \in Indices : Plus(a, 1) \in Indices
    BY <1>d, Distances
  <2>3. queues' \in [Queues -> QueueType]
    <3>1. CASE loop.q \in Queues
      <4>. DEFINE p == loop.q
                  new == [queues[p] EXCEPT !.nextAvail = Plus(queues[p].nextAvail, 1),
                                           !.nextUsed = Plus(queues[p].nextUsed, 1), !.added = Plus(queues[p].added, 1)]
      <4>1. new \in QueueType
        BY <1>t, <2>2, <3>1 DEF QueueType
      <4>2. queues' = [queues EXCEPT ![p] = new]
        BY <1>t, <2>1, <3>1 DEF Taken, QueueType
      <4>. QED
        BY <1>t, <4>1, <4>2
    <3>2. CASE loop.q \notin Queues
      BY <1>t, <2>1, <3>2 DEF Taken
    <3>. QED
      BY <3>1, <3>2
  <2>4. \A q \in Queues : queues'[q].ptr = queues[q].ptr /\ queues'[q].addr = queues[q].addr /\ queues'[q].size = queues[q].size
    BY <1>t, <2>1 DEF Taken, QueueType
  <2>. QED
    BY <1>t, <1>same, <2>1, <2>3, <2>4
<1>5. CASE Notify
  <2>1. cc' = cc /\ (queues' = queues \/ queues' = [queues EXCEPT ![loop.q].added = 0])
    BY <1>5 DEF Notify
  <2>2. queues' \in [Queues -> QueueType]
    BY <1>t, <1>m, <2>1 DEF QueueType, Indices
  <2>3. \A q \in Queues : queues'[q].ptr = queues[q].ptr /\ queues'[q].addr = queues[q].addr /\ queues'[q].size = queues[q].size
    BY <1>t, <2>1 DEF QueueType
  <2>. QED
    BY <1>t, <1>same, <2>1, <2>2, <2>3
<1>6. ASSUME NEW q \in Queues,
             \/ \E n \in Nat : WriteQueueSize(q, n)
             \/ \E p \in Parts[dev], a \in Addresses : WriteQueueAddress(q, p, a)
             \/ WriteQueueEnable(q)
      PROVE  RegisterInv'
  <2>1. cc' = cc /\ (queues' = queues \/ (At(cc, 3) /\ queues' \in [Queues -> QueueType]))
    <3>1. ASSUME NEW new \in QueueType, UpdateQueueField(q, new)
          PROVE  cc' = cc /\ (queues' = queues \/ (At(cc, 3) /\ queues' \in [Queues -> QueueType]))
      BY <1>t, <3>1 DEF UpdateQueueField
    <3>2. /\ \A n \in Nat : [queues[q] EXCEPT !.size = n] \in QueueType
          /\ \A p \in Parts[dev], a \in Addresses : [queues[q] EXCEPT !.addr[p] = a] \in QueueType
          /\ [queues[q] EXCEPT !.ready = TRUE] \in QueueType
      BY <1>t DEF QueueType
    <3>. QED
      BY <1>6, <3>1, <3>2 DEF WriteQueueSize, WriteQueueAddress, WriteQueueEnable
  <2>2. At(cc, 3) => ~cc.active
    BY DEF At, RegisterInv
  <2>. QED
    BY <1>t, <1>d, <1>q, <1>same, <2>1, <2>2 DEF RegisterInv
<1>7. CASE UNCHANGED <<cc, queues>>
  BY <1>7, <1>t, <1>same
<1>. QED
  BY <1>d, <1>1, <1>2, <1>3, <1>4, <1>5, <1>6, <1>7, Writers

(* A device has one or two queues.                                         *)
LEMMA QueuesFact == ASSUME dev \in Devices
  PROVE /\ dev \in {"block", "net"} /\ Queues \subseteq {RX, TX} /\ 0 \in Queues
        /\ dev = "block" => Queues = {0}
        /\ dev = "net" => Queues = {RX, TX}
BY VirtioAssumption DEF Queues, RX, TX

(* What a request is answered with.                                        *)
LEMMA OutcomesFact == ASSUME NEW c \in BlockRequests, NEW r \in Outcomes(c)
  PROVE r.status \in Statuses \ {"frame"} /\ r.len \in Int
<1>1. CASE ~Parses(c)
  BY <1>1 DEF Outcomes, Statuses
<1>2. CASE Parses(c)
  <2>1. PICK moved \in Transfers(c) : r = Finished(c, moved)
    BY <1>2 DEF Outcomes
  <2>2. c.type \in {"in", "out", "id"} => Data(c) \in Nat
    <3>1. c.type # "flush" => Len(c.descs) > 2
      BY <1>2 DEF Parses, BlockRequests
    <3>2. c.descs \in Seq([write : BOOLEAN, len : Nat])
      BY DEF BlockRequests
    <3>3. Len(c.descs) > 2 => c.descs[2] \in [write : BOOLEAN, len : Nat]
      <4>1. Len(c.descs) > 2 => 2 \in 1..Len(c.descs)
        BY <3>2
      <4>. QED
        BY <3>2, <4>1, ElementOfSeq, Zenon
    <3>. QED
      BY <3>1, <3>3 DEF Data
  <2>3. moved \in Int
    BY <2>1, <2>2 DEF Transfers, IdBytes, BlockRequests
  <2>. QED
    BY <2>1, <2>3 DEF Finished, Statuses
<1>. QED
  BY <1>1, <1>2

(* send_from: the socket takes what it has room for, the rest is kept.     *)
LEMMA SendFact ==
  ASSUME net \in NetType, Len(net.outbox) <= Room, NEW buf \in Seq(Int), NEW kept \in Seq(Int)
  PROVE  SendFrom(buf, kept) \in NetType /\ Len(SendFrom(buf, kept).outbox) <= Room
<1>. DEFINE k == IF Len(buf) < Room - Len(net.outbox) THEN Len(buf) ELSE Room - Len(net.outbox)
<1>1. net.outbox \in Seq(Int) /\ Room \in Nat
  BY VirtioAssumption DEF NetType
<1>2. k \in Nat /\ k <= Len(buf) /\ k <= Room - Len(net.outbox)
  <2>1. Len(net.outbox) \in Nat /\ Len(buf) \in Nat
    BY <1>1
  <2>2. ASSUME NEW o \in Nat, NEW b \in Nat, o <= Room
        PROVE  LET j == IF b < Room - o THEN b ELSE Room - o IN j \in Nat /\ j <= b /\ j <= Room - o
    BY <1>1, <2>2
  <2>. QED
    BY <2>1, <2>2, Zenon
<1>. HIDE DEF k
<1>3. SubSeq(buf, 1, k) \in Seq(Int) /\ Len(SubSeq(buf, 1, k)) = k
  BY <1>2
<1>4. SubSeq(buf, k + 1, Len(buf)) \in Seq(Int)
  BY <1>2
<1>5. /\ net.outbox \o SubSeq(buf, 1, k) \in Seq(Int)
      /\ Len(net.outbox \o SubSeq(buf, 1, k)) = Len(net.outbox) + k
  BY <1>1, <1>3
<1>6. SendFrom(buf, kept) = [net EXCEPT !.outbox = net.outbox \o SubSeq(buf, 1, k),
                                        !.pending = IF k = Len(buf) THEN kept ELSE SubSeq(buf, k + 1, Len(buf))]
  BY DEF SendFrom, k
<1>7. Len(net.outbox) + k <= Room
  BY <1>1, <1>2
<1>. QED
  BY <1>4, <1>5, <1>6, <1>7 DEF NetType

(* A guest that has reset the device does nothing more with its driver.    *)
LEMMA ResetStays == ASSUME [Next]_vars, drv.phase = "reset" PROVE drv' = drv
<1>1. CASE Probe
  BY <1>1 DEF Probe, ProbeStatus, ProbeReady, ProbeFeatures, ProbeQueue, ProbeVectors, ProbeMsix, ProbeEnds, ProbeFails,
              ProbeAgain, Probing
<1>2. CASE SetUpAgain
  BY <1>2 DEF SetUpAgain, WriteStatus, WriteQueueAddress, UpdateQueueField
<1>3. CASE Driver /\ ~SetUpAgain
  BY <1>3 DEF Driver, Mask, UnmaskAll, Request, OfferBuffer, SendFrame, Reset, UnmaskEntry, TakeInterrupt, Kick,
              Collect, Arm, Rest, Publish, Live
<1>4. CASE Device
  BY <1>4 DEF Device, ProcessActivateEvent, ProcessPasst, ProcessQueueEvent, Working, TakeDeferred, ReadHeader, ReadBody,
              ReadNothing, Pop, PopAgain, Serve, PopNothing, EnableNotification, StillNothing, PopStray, AdvanceUsed, Notify
<1>5. CASE Passt
  BY <1>5 DEF Passt, PasstSends, PasstTakes, PasstExits
<1>6. CASE UNCHANGED vars
  BY <1>6 DEF vars
<1>. QED
  BY <1>1, <1>2, <1>3, <1>4, <1>5, <1>6 DEF Next

(* A device that is active stays active.                                   *)
LEMMA ActiveStays == ASSUME RegisterInv, [Next]_vars, cc.active PROVE cc'.active
<1>t. dev \in Devices /\ cc \in ConfigType
  BY DEF RegisterInv
<1>1. ASSUME NEW n \in 0..4, WriteStatus(n) PROVE cc'.active
  <2>1. SetDeviceStatus(cc, n).active /\ ~NeedsActivation(SetDeviceStatus(cc, n))
    BY <1>t, StatusFact DEF NeedsActivation
  <2>. QED
    BY <1>1, <2>1 DEF WriteStatus
<1>2. CASE WriteFailed \/ WriteFeatures
  BY <1>2, <1>t DEF WriteFailed, WriteFeatures, ConfigType
<1>3. CASE Reset
  <2>0. 0 \in 0..4
    OBVIOUS
  <2>1. SetDeviceStatus(cc, 0).active = cc.active
    BY <1>t, <2>0, StatusFact, Zenon
  <2>. QED
    BY <1>3, <2>1 DEF Reset
<1>4. CASE Serve \/ Notify \/ UNCHANGED <<cc, queues>>
  BY <1>4 DEF Serve, Notify
<1>5. ASSUME NEW q \in Queues, \/ \E n \in Nat : WriteQueueSize(q, n)
                               \/ \E p \in Parts[dev], a \in Addresses : WriteQueueAddress(q, p, a)
                               \/ WriteQueueEnable(q)
      PROVE cc'.active
  BY <1>5 DEF WriteQueueSize, WriteQueueAddress, WriteQueueEnable, UpdateQueueField
<1>. QED
  BY <1>t, <1>1, <1>2, <1>3, <1>4, <1>5, Writers

(* What Publish, Serve, Collect and AdvanceUsed do to the queue they are   *)
(* about; the other queue is left alone.                                   *)
Elsewhere(q) == \A p \in Queues \ {q} : ring'[p] = ring[p] /\ queues'[p] = queues[p]

(* A chain is made available.                                              *)
LEMMA PublishEffect ==
  ASSUME RegisterInv, SharedType, cc.active, NEW q \in Queues, NEW h, NEW c \in ChainOf(q), Publish(q, h, c)
  PROVE  /\ SharedType' /\ Elsewhere(q) /\ queues' = queues /\ drv'.phase = drv.phase /\ loop' = loop
         /\ h \in 0..(queues[q].size - 1) /\ h \notin drv.out[q]
         /\ ring'[q].avail = [ring[q].avail EXCEPT ![ring[q].availIdx % queues[q].size] = h]
         /\ ring'[q].availIdx = Plus(ring[q].availIdx, 1)
         /\ ring'[q].chain = [ring[q].chain EXCEPT ![h] = c]
         /\ ring'[q].used = ring[q].used /\ ring'[q].usedIdx = ring[q].usedIdx
         /\ drv'.out = [drv.out EXCEPT ![q] = @ \cup {h}] /\ drv'.last = drv.last
<1>d. dev \in Devices /\ dev' = dev /\ Queues' = Queues /\ Slots' = Slots
  BY DEF RegisterInv, Publish, Queues, Slots
<1>q. q \in {RX, TX} /\ MaxSize[dev] \in Nat \ {0}
  BY <1>d, QueuesFact, ModulusFact
<1>t. ring \in [Queues -> RingType] /\ drv \in DriverType /\ queues \in [Queues -> QueueType]
  BY DEF SharedType, RegisterInv
<1>n. queues[q].size \in Nat \ {0} /\ queues[q].size <= MaxSize[dev]
  BY <1>q DEF RegisterInv, GoodSize
<1>1. h \in 0..(queues[q].size - 1) /\ h \notin drv.out[q] /\ h \in Slots
  BY <1>q, <1>n DEF Publish, Slots
<1>2. c \in ChainValues /\ (dev = "net" => c \in Nat)
  BY <1>d, QueuesFact DEF ChainOf, ChainValues
<1>. DEFINE x == ring[q].availIdx % queues[q].size
            a == [ring[q].avail EXCEPT ![x] = h]
            k == Plus(ring[q].availIdx, 1)
            g == [ring[q].chain EXCEPT ![h] = c]
            o == [drv.out EXCEPT ![q] = @ \cup {h}]
            s == IF dev = "net" /\ q = TX THEN c ELSE drv.sent
<1>3. ring[q].availIdx \in Indices /\ ring[q].availIdx \in Nat
  BY <1>t DEF RingType, Indices
<1>4. x \in Slots
  BY <1>n, <1>q, <1>3 DEF Slots
<1>5. a \in [Slots -> Slots \cup {Blank}] /\ k \in Indices /\ g \in [Slots -> ChainValues]
  BY <1>d, <1>t, <1>1, <1>2, <1>3, <1>4, Distances DEF RingType
<1>6. o \in [{RX, TX} -> SUBSET Slots] /\ s \in Nat
  BY <1>q, <1>t, <1>1, <1>2 DEF DriverType
<1>7. ring' = [ring EXCEPT ![q] = [ring[q] EXCEPT !.chain = g, !.avail = a, !.availIdx = k]]
  BY <1>t DEF Publish, RingType
<1>8. drv' = [drv EXCEPT !.out = o, !.sent = s]
  BY <1>t, <1>q DEF Publish, DriverType
<1>9. loop' = loop /\ net' = net /\ queues' = queues
  BY DEF Publish
<1>. HIDE DEF a, k, g, o, s
<1>10. ring' \in [Queues -> RingType]
  <2>1. [ring[q] EXCEPT !.chain = g, !.avail = a, !.availIdx = k] \in RingType
    BY <1>t, <1>5 DEF RingType
  <2>. QED
    BY <1>t, <1>7, <2>1
<1>11. drv' \in DriverType
  BY <1>t, <1>6, <1>8 DEF DriverType
<1>12. /\ ring'[q].avail = a /\ ring'[q].availIdx = k /\ ring'[q].chain = g
       /\ ring'[q].used = ring[q].used /\ ring'[q].usedIdx = ring[q].usedIdx
       /\ \A p \in Queues \ {q} : ring'[p] = ring[p]
  BY <1>t, <1>7 DEF RingType
<1>13. drv'.out = o /\ drv'.last = drv.last /\ drv'.phase = drv.phase
  BY <1>t, <1>8 DEF DriverType
<1>14. SharedType'
  <2>1. RingType' = RingType /\ DriverType' = DriverType /\ LoopType' = LoopType
    BY <1>d DEF RingType, DriverType, LoopType
  <2>. QED
    BY <1>d, <1>9, <1>10, <1>11, <2>1 DEF SharedType
<1>. QED
  BY <1>1, <1>9, <1>12, <1>13, <1>14 DEF Elsewhere, a, k, g, o, x


(* What the device writes with a head it gives back.                       *)
Answer(q, st, l) ==
    IF IsRx(q) THEN st = "frame" /\ l = IF loop.frame \in Big THEN 0 ELSE loop.frame ELSE st # "frame"

(* One chain is served: taken from the available ring, put in the used one.*)
LEMMA ServeEffect ==
  ASSUME RegisterInv, SharedType, cc.active, Windows(loop.q), Available(loop.q) # 0, Serve
  PROVE  LET q == loop.q  n == queues[q].size  h == AvailHead(q, 0) IN
         /\ SharedType' /\ Elsewhere(q) /\ drv' = drv /\ q \in Queues /\ loop'.q = q
         /\ h \in Slots
         /\ ring'[q].avail = [ring[q].avail EXCEPT ![queues[q].nextAvail % n] = Blank]
         /\ ring'[q].availIdx = ring[q].availIdx /\ ring'[q].usedIdx = ring[q].usedIdx
         /\ ring'[q].chain = [ring[q].chain EXCEPT ![h] = <<>>]
         /\ \E st, l :
              /\ ring'[q].used = [ring[q].used EXCEPT ![queues[q].nextUsed % n] = [id |-> h, status |-> st, len |-> l]]
              /\ Answer(q, st, l)
         /\ queues'[q].nextAvail = Plus(queues[q].nextAvail, 1)
         /\ queues'[q].nextUsed = Plus(queues[q].nextUsed, 1)
         /\ queues'[q].size = n
<1>. DEFINE q == loop.q
            n == queues[q].size
            h == AvailHead(q, 0)
<1>d. dev \in Devices /\ dev' = dev /\ Queues' = Queues /\ Slots' = Slots
  BY DEF RegisterInv, Serve, Queues, Slots
<1>t. /\ ring \in [Queues -> RingType] /\ drv \in DriverType /\ queues \in [Queues -> QueueType]
      /\ loop \in LoopType /\ net \in NetType /\ Len(net.outbox) <= Room
  BY DEF SharedType, RegisterInv
<1>q. q \in Queues /\ q \in {RX, TX} /\ MaxSize[dev] \in Nat \ {0} /\ (dev = "block" => q = 0)
  BY <1>d, <1>t, QueuesFact, ModulusFact DEF LoopType
<1>n. n \in Nat \ {0} /\ n <= MaxSize[dev]
  BY <1>q DEF RegisterInv, GoodSize
<1>i. queues[q].nextAvail \in Indices /\ queues[q].nextUsed \in Indices /\ queues[q].added \in Indices
  BY <1>t, <1>q DEF QueueType
<1>h. HeadOf(q) = h
  BY <1>d, <1>i, Distances DEF HeadOf, AvailHead
<1>1. h \in Slots /\ ring[q].chain[h] \in ChainOf(q)
  <2>1. 0 \in 0..(Waiting(q) - 1)
    <3>1. ring[q].availIdx \in Indices
      BY <1>t, <1>q DEF RingType
    <3>2. Minus(ring[q].availIdx, queues[q].nextAvail) \in Indices
      BY <1>d, <1>i, <3>1, MinusIs, Zenon
    <3>3. Waiting(q) \in Nat /\ Waiting(q) # 0
      BY <3>2 DEF Waiting, Available, Indices
    <3>. QED
      BY <3>3
  <2>2. h \in drv.out[q] /\ drv.out[q] \subseteq 0..(n - 1) /\ ring[q].chain[h] \in ChainOf(q)
    BY <2>1 DEF Windows
  <2>. QED
    BY <1>n, <1>q, <2>2 DEF Slots
<1>. HIDE DEF h
<1>2. \E st \in Statuses, l \in Int :
        /\ ring' = Answered(q, st, l) /\ Answer(q, st, l)
        /\ loop' \in LoopType /\ loop'.q = q
        /\ net' \in NetType /\ Len(net'.outbox) <= Room
  <2>1. CASE dev = "block" /\ ServeBlock
    <3>1. PICK r \in Outcomes(ring[0].chain[HeadOf(0)]) : ring' = Answered(0, r.status, r.len)
      BY <2>1 DEF ServeBlock
    <3>2. ring[0].chain[HeadOf(0)] \in BlockRequests
      BY <1>h, <1>q, <1>1, <2>1 DEF ChainOf
    <3>3. r.status \in Statuses /\ r.len \in Int /\ Answer(q, r.status, r.len)
      BY <2>1, <3>1, <3>2, OutcomesFact DEF Answer, IsRx
    <3>4. loop' \in LoopType /\ loop'.q = q /\ net' = net
      BY <1>t, <2>1 DEF ServeBlock, LoopType
    <3>. QED
      BY <1>q, <1>t, <2>1, <3>1, <3>3, <3>4
  <2>2. CASE dev = "net" /\ q = RX /\ ServeRx
    <3>1. ring' = Answered(q, "frame", IF loop.frame \in Big THEN 0 ELSE loop.frame) /\ net' = net
      BY <2>2 DEF ServeRx
    <3>2. loop' \in LoopType /\ loop'.q = q
      <4>1. loop' = [loop EXCEPT !.pc = "read", !.frame = 0]
        BY <2>2 DEF ServeRx
      <4>2. loop \in [pc : {"wait", "read", "pop", "again", "publish", "notify"}, on : BOOLEAN, q : Queues,
                      any : BOOLEAN, frame : Int]
        BY <1>t DEF LoopType
      <4>0. ASSUME NEW r \in LoopType, NEW z \in Int PROVE [r EXCEPT !.frame = z] \in LoopType
        BY DEF LoopType
      <4>3. [loop EXCEPT !.pc = "read"] \in LoopType
        BY <4>2 DEF LoopType
      <4>4. [[loop EXCEPT !.pc = "read"] EXCEPT !.frame = 0] \in LoopType
        <5>1. 0 \in Int
          OBVIOUS
        <5>. QED
          BY <4>0, <4>3, <5>1, Zenon
      <4>5. loop' = [[loop EXCEPT !.pc = "read"] EXCEPT !.frame = 0]
        BY <4>1, <4>2
      <4>6. loop'.q = q
        BY <4>1, <4>2
      <4>. QED
        BY <4>4, <4>5, <4>6
    <3>3. "frame" \in Statuses /\ (IF loop.frame \in Big THEN 0 ELSE loop.frame) \in Int
      BY <1>t DEF Statuses, LoopType
    <3>4. Answer(q, "frame", IF loop.frame \in Big THEN 0 ELSE loop.frame)
      BY <2>2 DEF Answer, IsRx
    <3>. QED
      BY <1>t, <3>1, <3>2, <3>3, <3>4
  <2>3. CASE dev = "net" /\ q = TX /\ ServeTx
    <3>1. ring' = Answered(q, "none", 0) /\ net' = WriteFrame(ring[q].chain[h])
      BY <1>h, <2>3 DEF ServeTx
    <3>2. loop' \in LoopType /\ loop'.q = q
      BY <1>t, <2>3 DEF ServeTx, LoopType
    <3>3. "none" \in Statuses /\ 0 \in Int /\ Answer(q, "none", 0)
      BY <2>3 DEF Statuses, Answer, IsRx, RX, TX
    <3>4. ring[q].chain[h] \in Nat
      BY <1>1, <2>3 DEF ChainOf
    <3>5. <<-ring[q].chain[h], ring[q].chain[h]>> \in Seq(Int)
      BY <3>4
    <3>6. net' \in NetType /\ Len(net'.outbox) <= Room
      <4>1. net.pending \in Seq(Int)
        BY <1>t DEF NetType
      <4>. QED
        BY <1>t, <3>1, <3>5, <4>1, SendFact DEF WriteFrame
    <3>. QED
      BY <3>1, <3>2, <3>3, <3>6
  <2>. QED
    BY <2>1, <2>2, <2>3 DEF Serve
<1>3. PICK st \in Statuses, l \in Int :
        /\ ring' = Answered(q, st, l) /\ Answer(q, st, l)
        /\ loop' \in LoopType /\ loop'.q = q
        /\ net' \in NetType /\ Len(net'.outbox) <= Room
  BY <1>2
<1>. DEFINE x == queues[q].nextAvail % n
            y == queues[q].nextUsed % n
            a == [ring[q].avail EXCEPT ![x] = Blank]
            e == [id |-> h, status |-> st, len |-> l]
            u == [ring[q].used EXCEPT ![y] = e]
            g == [ring[q].chain EXCEPT ![h] = <<>>]
<1>4. x \in Slots /\ y \in Slots
  <2>1. queues[q].nextAvail \in Nat /\ queues[q].nextUsed \in Nat
    BY <1>i DEF Indices
  <2>. QED
    BY <1>n, <1>q, <2>1 DEF Slots
<1>5. a \in [Slots -> Slots \cup {Blank}] /\ g \in [Slots -> ChainValues]
  BY <1>t, <1>q, <1>1, <1>4 DEF RingType, ChainValues
<1>6. u \in [Slots -> [id : Slots \cup {Blank}, status : Statuses, len : Int]]
  BY <1>t, <1>q, <1>1, <1>4 DEF RingType
<1>7. ring' = [ring EXCEPT ![q] = [ring[q] EXCEPT !.used = u, !.avail = a, !.chain = g]]
  <2>1. Answered(q, st, l) = [ring EXCEPT ![q].used[y] = e, ![q].avail[x] = Blank, ![q].chain[h] = <<>>]
    BY <1>h DEF Answered
  <2>2. ring[q] \in RingType
    BY <1>t, <1>q
  <2>. HIDE DEF e, x, y
  <2>. QED
    BY <1>t, <1>q, <1>3, <2>1, <2>2 DEF RingType
<1>r. ring[q] \in RingType
  BY <1>t, <1>q
<1>. HIDE DEF a, u, g
<1>8. ring' \in [Queues -> RingType]
  <2>1. [ring[q] EXCEPT !.used = u, !.avail = a, !.chain = g] \in RingType
    BY <1>r, <1>5, <1>6 DEF RingType
  <2>. QED
    BY <1>t, <1>7, <2>1
<1>9. /\ ring'[q].avail = a /\ ring'[q].chain = g /\ ring'[q].used = u
      /\ ring'[q].availIdx = ring[q].availIdx /\ ring'[q].usedIdx = ring[q].usedIdx
      /\ \A p \in Queues \ {q} : ring'[p] = ring[p]
  BY <1>t, <1>q, <1>7 DEF RingType
<1>10. drv' = drv /\ queues' = Taken(q)
  BY DEF Serve
<1>11. /\ queues'[q].nextAvail = Plus(queues[q].nextAvail, 1)
       /\ queues'[q].nextUsed = Plus(queues[q].nextUsed, 1)
       /\ queues'[q].size = n
       /\ \A p \in Queues \ {q} : queues'[p] = queues[p]
  BY <1>t, <1>q, <1>10 DEF Taken, QueueType
<1>12. SharedType'
  <2>1. RingType' = RingType /\ DriverType' = DriverType /\ LoopType' = LoopType
    BY <1>d DEF RingType, DriverType, LoopType
  <2>. QED
    BY <1>d, <1>t, <1>3, <1>8, <1>10, <2>1 DEF SharedType
<1>13. \E s, m :
         /\ ring'[q].used = [ring[q].used EXCEPT ![queues[q].nextUsed % n] = [id |-> h, status |-> s, len |-> m]]
         /\ Answer(q, s, m)
  BY <1>3, <1>9, Zenon DEF u, y, e
<1>14. Elsewhere(q)
  BY <1>9, <1>11 DEF Elsewhere
<1>15. /\ ring'[q].avail = [ring[q].avail EXCEPT ![queues[q].nextAvail % n] = Blank]
       /\ ring'[q].chain = [ring[q].chain EXCEPT ![h] = <<>>]
  BY <1>9 DEF a, g, x
<1>. HIDE DEF q, n
<1>. QED
  BY <1>q, <1>1, <1>3, <1>9, <1>10, <1>11, <1>12, <1>13, <1>14, <1>15 DEF h, q, n

(* A used head is collected.                                               *)
LEMMA CollectEffect ==
  ASSUME RegisterInv, SharedType, cc.active, NEW q \in Queues, Windows(q), Collect(q)
  PROVE  LET n == queues[q].size  w == Id(q, 0) IN
         /\ SharedType' /\ Elsewhere(q) /\ queues' = queues /\ drv'.phase = drv.phase /\ loop' = loop
         /\ ring[q].usedIdx # drv.last[q]
         /\ ring'[q].avail = ring[q].avail /\ ring'[q].chain = ring[q].chain
         /\ ring'[q].availIdx = ring[q].availIdx /\ ring'[q].usedIdx = ring[q].usedIdx
         /\ ring'[q].used = [ring[q].used EXCEPT ![drv.last[q] % n] = Unused]
         /\ drv'.last = [drv.last EXCEPT ![q] = Plus(@, 1)]
         /\ drv'.out = [drv.out EXCEPT ![q] = @ \ {w}]
<1>. DEFINE n == queues[q].size
            w == Id(q, 0)
            x == drv.last[q] % n
            e == ring[q].used[x]
<1>d. dev \in Devices /\ dev' = dev /\ Queues' = Queues /\ Slots' = Slots
  BY DEF RegisterInv, Collect, Queues, Slots
<1>t. /\ ring \in [Queues -> RingType] /\ drv \in DriverType /\ queues \in [Queues -> QueueType]
      /\ loop \in LoopType /\ net \in NetType /\ Len(net.outbox) <= Room
  BY DEF SharedType, RegisterInv
<1>q. q \in {RX, TX} /\ MaxSize[dev] \in Nat \ {0}
  BY <1>d, QueuesFact, ModulusFact
<1>n. n \in Nat \ {0} /\ n <= MaxSize[dev]
  BY DEF RegisterInv, GoodSize
<1>i. drv.last[q] \in Indices /\ drv.last[q] \in Nat /\ Plus(drv.last[q], 1) \in Indices
  <2>1. drv.last[q] \in Indices
    BY <1>t, <1>q DEF DriverType
  <2>. QED
    BY <1>d, <2>1, Distances DEF Indices
<1>w. w = e.id
  BY <1>d, <1>i, Distances DEF Id, Entry
<1>1. x \in Slots
  BY <1>n, <1>q, <1>i DEF Slots
<1>2. e \in [id : Slots \cup {Blank}, status : Statuses, len : Int]
  BY <1>t, <1>1 DEF RingType
<1>. DEFINE u == [ring[q].used EXCEPT ![x] = Unused]
            o == [drv.out EXCEPT ![q] = @ \ {w}]
            k == [drv.last EXCEPT ![q] = Plus(@, 1)]
            b == [drv.poll EXCEPT ![q] = "poll"]
            g == IF e.status = "frame" /\ e.len # 0 THEN Append(drv.got, e.len) ELSE drv.got
<1>3. u \in [Slots -> [id : Slots \cup {Blank}, status : Statuses, len : Int]]
  <2>1. Unused \in [id : Slots \cup {Blank}, status : Statuses, len : Int]
    BY DEF Unused, Statuses
  <2>. QED
    BY <1>t, <1>1, <2>1 DEF RingType
<1>4. /\ o \in [{RX, TX} -> SUBSET Slots] /\ k \in [{RX, TX} -> Indices]
      /\ b \in [{RX, TX} -> {"idle", "poll", "armed"}]
  BY <1>t, <1>q, <1>i DEF DriverType
<1>5. g \in Seq(Int)
  <2>1. drv.got \in Seq(Int) /\ e.len \in Int
    BY <1>t, <1>2 DEF DriverType
  <2>. QED
    BY <2>1
<1>6. ring' = [ring EXCEPT ![q] = [ring[q] EXCEPT !.used = u]]
  BY <1>t DEF Collect, RingType
<1>7. drv' = [drv EXCEPT !.out = o, !.last = k, !.poll = b, !.got = g]
  BY <1>t, <1>q, <1>w DEF Collect, DriverType
<1>8. loop' = loop /\ net' = net /\ queues' = queues /\ ring[q].usedIdx # drv.last[q]
  BY DEF Collect
<1>. HIDE DEF u, o, k, b, g
<1>9. ring' \in [Queues -> RingType]
  <2>1. [ring[q] EXCEPT !.used = u] \in RingType
    BY <1>t, <1>3 DEF RingType
  <2>. QED
    BY <1>t, <1>6, <2>1
<1>10. drv' \in DriverType
  BY <1>t, <1>4, <1>5, <1>7 DEF DriverType
<1>11. /\ ring'[q].avail = ring[q].avail /\ ring'[q].chain = ring[q].chain /\ ring'[q].used = u
       /\ ring'[q].availIdx = ring[q].availIdx /\ ring'[q].usedIdx = ring[q].usedIdx
       /\ \A p \in Queues \ {q} : ring'[p] = ring[p]
  BY <1>t, <1>6 DEF RingType
<1>12. drv'.out = o /\ drv'.last = k /\ drv'.phase = drv.phase
  BY <1>t, <1>7 DEF DriverType
<1>13. SharedType'
  <2>1. RingType' = RingType /\ DriverType' = DriverType /\ LoopType' = LoopType
    BY <1>d DEF RingType, DriverType, LoopType
  <2>. QED
    BY <1>d, <1>t, <1>8, <1>9, <1>10, <2>1 DEF SharedType
<1>. QED
  BY <1>8, <1>11, <1>12, <1>13 DEF Elsewhere, u, o, k

(* The sizes and indices of a queue, and that its windows fit in it.       *)
LEMMA WindowFacts ==
  ASSUME RegisterInv, SharedType, cc.active, NEW q \in Queues, Windows(q)
  PROVE  /\ dev \in Devices /\ q \in {RX, TX}
         /\ queues[q].size \in Nat \ {0} /\ queues[q].size < Modulus /\ Modulus % queues[q].size = 0
         /\ ring[q].availIdx \in Indices /\ ring[q].usedIdx \in Indices /\ drv.last[q] \in Indices
         /\ queues[q].nextAvail \in Indices /\ queues[q].nextUsed \in Indices
         /\ Waiting(q) \in Nat /\ Given(q) \in Nat /\ Waiting(q) + Given(q) <= queues[q].size
         /\ IsFiniteSet(drv.out[q])
<1>. DEFINE n == queues[q].size
<1>1. dev \in Devices /\ q \in {RX, TX}
  BY QueuesFact DEF RegisterInv
<1>2. n \in Nat \ {0} /\ n < Modulus /\ Modulus % n = 0
  BY DEF RegisterInv, GoodSize
<1>3. ring[q] \in RingType /\ queues[q] \in QueueType /\ drv.last[q] \in Indices
  BY <1>1 DEF RegisterInv, SharedType, DriverType
<1>4. /\ ring[q].availIdx \in Indices /\ ring[q].usedIdx \in Indices
      /\ queues[q].nextAvail \in Indices /\ queues[q].nextUsed \in Indices
  BY <1>3 DEF RingType, QueueType
<1>5. Minus(ring[q].availIdx, queues[q].nextAvail) \in Indices /\ Minus(queues[q].nextUsed, drv.last[q]) \in Indices
  BY <1>1, <1>3, <1>4, MinusIs, Zenon
<1>6. Waiting(q) \in Nat /\ Given(q) \in Nat
  BY <1>5 DEF Waiting, Given, Indices
<1>7. IsFiniteSet(0..(n - 1)) /\ Cardinality(0..(n - 1)) = n
  <2>1. 0 \in Int /\ n - 1 \in Int
    BY <1>2
  <2>2. /\ IsFiniteSet(0..(n - 1))
        /\ Cardinality(0..(n - 1)) = IF 0 > n - 1 THEN 0 ELSE (n - 1) - 0 + 1
    BY <2>1, FS_Interval, Zenon
  <2>. QED
    BY <1>2, <2>2
<1>8. drv.out[q] \subseteq 0..(n - 1) /\ Cardinality(drv.out[q]) = Waiting(q) + Given(q)
  BY DEF Windows
<1>9. IsFiniteSet(drv.out[q]) /\ Cardinality(drv.out[q]) <= Cardinality(0..(n - 1))
  BY <1>7, <1>8, FS_Subset, Zenon
<1>. QED
  BY <1>1, <1>2, <1>3, <1>4, <1>6, <1>7, <1>8, <1>9

(* The windows of a queue that a step leaves alone.                        *)
LEMMA WindowsSame ==
  ASSUME NEW q \in Queues, Windows(q), dev' = dev, queues'[q].size = queues[q].size,
         queues'[q].nextAvail = queues[q].nextAvail, queues'[q].nextUsed = queues[q].nextUsed,
         ring'[q].avail = ring[q].avail, ring'[q].availIdx = ring[q].availIdx, ring'[q].used = ring[q].used,
         ring'[q].chain = ring[q].chain, drv'.out[q] = drv.out[q], drv'.last[q] = drv.last[q],
         ring'[q].usedIdx \in {ring[q].usedIdx, queues[q].nextUsed}, Given(q) \in Nat
  PROVE  Windows(q)'
<1>1. /\ Waiting(q)' = Waiting(q) /\ Given(q)' = Given(q) /\ ChainOf(q)' = ChainOf(q)
      /\ Minus(ring[q].usedIdx, drv.last[q])' <= Given(q)
  BY DEF Waiting, Given, ChainOf, Windows
<1>2. \A i : (AvailHead(q, i))' = AvailHead(q, i) /\ (Id(q, i))' = Id(q, i)
  BY DEF AvailHead, Id, Entry
<1>. QED
  BY <1>1, <1>2 DEF Windows

(* A head that is published was not in the queue, and joins it at its end. *)
LEMMA PublishWindows ==
  ASSUME RegisterInv, SharedType, cc.active, NEW q \in Queues, Windows(q), NEW h, NEW c \in ChainOf(q), Publish(q, h, c)
  PROVE  Windows(q)' /\ (Stalled(q) => Stalled(q)')
<1>. DEFINE n == queues[q].size
            k == queues[q].nextAvail
            b == ring[q].availIdx
            A == ring[q].avail
<1>e. /\ queues' = queues /\ h \in 0..(n - 1) /\ h \notin drv.out[q]
      /\ ring'[q].avail = [A EXCEPT ![b % n] = h] /\ ring'[q].availIdx = Plus(b, 1)
      /\ ring'[q].chain = [ring[q].chain EXCEPT ![h] = c]
      /\ ring'[q].used = ring[q].used /\ ring'[q].usedIdx = ring[q].usedIdx
      /\ drv'.out = [drv.out EXCEPT ![q] = @ \cup {h}] /\ drv'.last = drv.last
  <2>1. /\ SharedType' /\ Elsewhere(q) /\ queues' = queues /\ drv'.phase = drv.phase /\ loop' = loop
        /\ h \in 0..(queues[q].size - 1) /\ h \notin drv.out[q]
        /\ ring'[q].avail = [ring[q].avail EXCEPT ![ring[q].availIdx % queues[q].size] = h]
        /\ ring'[q].availIdx = Plus(ring[q].availIdx, 1)
        /\ ring'[q].chain = [ring[q].chain EXCEPT ![h] = c]
        /\ ring'[q].used = ring[q].used /\ ring'[q].usedIdx = ring[q].usedIdx
        /\ drv'.out = [drv.out EXCEPT ![q] = @ \cup {h}] /\ drv'.last = drv.last
    BY PublishEffect, Zenon
  <2>. QED
    BY <2>1
<1>d. dev \in Devices /\ dev' = dev /\ q \in {RX, TX}
  BY WindowFacts DEF Publish
<1>n. n \in Nat \ {0} /\ n < Modulus /\ Modulus % n = 0 /\ Modulus \in Nat
  BY <1>d, WindowFacts, ModulusFact
<1>i. b \in Indices /\ k \in Indices
  BY WindowFacts
<1>t. /\ ring[q].chain \in [Slots -> ChainValues] /\ A \in [Slots -> Slots \cup {Blank}]
      /\ drv.out \in [{RX, TX} -> SUBSET Slots] /\ 0..(n - 1) \subseteq Slots
  <2>1. ring[q] \in RingType /\ drv \in DriverType
    BY DEF SharedType
  <2>2. n \in Nat /\ n <= MaxSize[dev] /\ MaxSize[dev] \in Nat
    BY <1>d, ModulusFact DEF RegisterInv, GoodSize
  <2>. QED
    BY <2>1, <2>2 DEF RingType, DriverType, Slots
<1>p. PICK W \in Nat, G \in Nat : W = Waiting(q) /\ G = Given(q)
  BY WindowFacts
<1>w. W \in Nat /\ G \in Nat /\ IsFiniteSet(drv.out[q])
  BY WindowFacts
<1>old. /\ drv.out[q] \subseteq 0..(n - 1) /\ Cardinality(drv.out[q]) = W + G
        /\ \A i \in 0..(W - 1) : AvailHead(q, i) \in drv.out[q] /\ ring[q].chain[AvailHead(q, i)] \in ChainOf(q)
        /\ \A i \in 0..(G - 1) : Id(q, i) \in drv.out[q]
        /\ \A i, j \in 0..(W - 1) : i # j => AvailHead(q, i) # AvailHead(q, j)
        /\ \A i, j \in 0..(G - 1) : i # j => Id(q, i) # Id(q, j)
        /\ \A i \in 0..(W - 1), j \in 0..(G - 1) : AvailHead(q, i) # Id(q, j)
        /\ Minus(ring[q].usedIdx, drv.last[q]) <= G
  BY <1>p DEF Windows
<1>1. drv'.out[q] = drv.out[q] \cup {h} /\ drv'.out[q] \subseteq 0..(n - 1)
  BY <1>d, <1>e, <1>t, <1>old
<1>2. Cardinality(drv'.out[q]) = W + G + 1 /\ W + G + 1 <= n
  <2>1. Cardinality(drv.out[q] \cup {h}) = Cardinality(drv.out[q]) + 1
    BY <1>e, <1>w, FS_AddElement
  <2>2. IsFiniteSet(0..(n - 1)) /\ Cardinality(0..(n - 1)) = n
    <3>1. 0 \in Int /\ n - 1 \in Int
      BY <1>n
    <3>2. IsFiniteSet(0..(n - 1)) /\ Cardinality(0..(n - 1)) = IF 0 > n - 1 THEN 0 ELSE (n - 1) - 0 + 1
      BY <3>1, FS_Interval, Zenon
    <3>. QED
      BY <1>n, <3>2
  <2>3. Cardinality(drv'.out[q]) <= Cardinality(0..(n - 1))
    BY <1>1, <2>2, FS_Subset, Zenon
  <2>. QED
    BY <1>1, <1>old, <1>w, <2>1, <2>2, <2>3
<1>3. Waiting(q)' = W + 1 /\ Given(q)' = G
  <2>1. Minus(b, k) = W /\ W + 1 < Modulus
    BY <1>2, <1>n, <1>w, <1>p DEF Waiting
  <2>2. Minus(Plus(b, 1), k) = W + 1
    BY <1>d, <1>i, <2>1, Distances, Zenon
  <2>. QED
    BY <1>e, <1>p, <2>2 DEF Waiting, Given
<1>4. b % n = Plus(k, W) % n /\ W \in 0..(n - 1)
  <2>1. Plus(k, Minus(b, k)) = b
    BY <1>d, <1>i, Distances, Zenon
  <2>. QED
    BY <1>2, <1>w, <1>n, <1>p, <2>1 DEF Waiting
<1>5. /\ \A i \in Nat : Plus(k, i) % n \in 0..(n - 1)
      /\ \A i, j \in 0..(n - 1) : i # j => Plus(k, i) % n # Plus(k, j) % n
  BY <1>d, <1>n, <1>i, WindowSlots, Zenon
<1>6. \A i \in 0..(W - 1) : AvailHead(q, i)' = AvailHead(q, i)
  <2>. TAKE i \in 0..(W - 1)
  <2>1. i \in 0..(n - 1) /\ i # W /\ i \in Nat
    BY <1>2, <1>w, <1>n
  <2>2. Plus(k, i) % n # b % n
    BY <1>4, <1>5, <2>1
  <2>3. AvailHead(q, i)' = [A EXCEPT ![b % n] = h][Plus(k, i) % n]
    BY <1>e DEF AvailHead
  <2>4. Plus(k, i) % n \in Slots
    BY <1>5, <1>t, <2>1
  <2>. HIDE DEF A, k, n, b
  <2>5. AvailHead(q, i)' = A[Plus(k, i) % n]
    BY <1>t, <2>2, <2>3, <2>4
  <2>. QED
    BY <2>5 DEF AvailHead, A, k, n
<1>7. AvailHead(q, W)' = h
  <2>1. AvailHead(q, W)' = [A EXCEPT ![b % n] = h][Plus(k, W) % n]
    BY <1>e DEF AvailHead
  <2>2. Plus(k, W) % n \in Slots
    BY <1>5, <1>t, <1>w
  <2>. HIDE DEF A, k, n, b
  <2>. QED
    BY <1>t, <1>4, <2>1, <2>2
<1>8. \A i : Id(q, i)' = Id(q, i)
  BY <1>e DEF Id, Entry
<1>9. /\ \A i \in 0..(W - 1) : ring'[q].chain[AvailHead(q, i)] = ring[q].chain[AvailHead(q, i)]
      /\ ring'[q].chain[h] = c
  BY <1>e, <1>t, <1>old
<1>10. ChainOf(q)' = ChainOf(q) /\ Minus(ring[q].usedIdx, drv.last[q])' = Minus(ring[q].usedIdx, drv.last[q]) /\ queues' = queues
  BY <1>d, <1>e DEF ChainOf
<1>11. 0..(W + 1 - 1) = 0..(W - 1) \cup {W} /\ W \notin 0..(W - 1)
  BY <1>w
<1>12. /\ \A i \in 0..(W + 1 - 1) : AvailHead(q, i)' \in drv'.out[q] /\ ring'[q].chain[AvailHead(q, i)'] \in ChainOf(q)'
       /\ \A i, j \in 0..(W + 1 - 1) : i # j => AvailHead(q, i)' # AvailHead(q, j)'
       /\ \A i \in 0..(W + 1 - 1), j \in 0..(G - 1) : AvailHead(q, i)' # Id(q, j)'
  BY <1>1, <1>6, <1>7, <1>8, <1>9, <1>10, <1>11, <1>e, <1>old
<1>13. \A i \in 0..(G - 1) : Id(q, i)' \in drv'.out[q]
  BY <1>1, <1>8, <1>old
<1>14. \A i, j \in 0..(G - 1) : i # j => Id(q, i)' # Id(q, j)'
  BY <1>8, <1>old
<1>15. Cardinality(drv'.out[q]) = (W + 1) + G
  BY <1>2, <1>w
<1>16. Stalled(q) => Stalled(q)'
  <2>. SUFFICES ASSUME Stalled(q) PROVE Stalled(q)'
    OBVIOUS
  <2>1. Available(q) = W /\ Available(q)' = W + 1
    BY <1>3, <1>p DEF Waiting, Available
  <2>2. HeadOf(q) = AvailHead(q, 0) /\ HeadOf(q)' = AvailHead(q, 0)'
    BY <1>d, <1>e, <1>i, Distances DEF HeadOf, AvailHead
  <2>3. 0 \in 0..(W - 1)
    BY <1>w, <2>1 DEF Stalled
  <2>4. HeadOf(q)' = HeadOf(q) /\ ring'[q].chain[HeadOf(q)] = ring[q].chain[HeadOf(q)]
    BY <1>6, <1>9, <2>2, <2>3
  <2>. QED
    BY <1>d, <1>w, <2>1, <2>4 DEF Stalled, Stray
<1>17. Windows(q)'
  BY <1>1, <1>3, <1>10, <1>12, <1>13, <1>14, <1>15, <1>old DEF Windows
<1>. QED
  BY <1>16, <1>17

(* The used ring once a chain was served: one entry more, at its end.      *)
LEMMA ServeEntries ==
  ASSUME RegisterInv, SharedType, cc.active, NEW q \in Queues, q = loop.q, Windows(q), Available(q) # 0, Serve
  PROVE  \E e : /\ e.id = AvailHead(q, 0) /\ Answer(q, e.status, e.len)
                /\ Given(q)' = Given(q) + 1
                /\ \A i \in 0..(Given(q) - 1) : Entry(q, i)' = Entry(q, i)
                /\ \A i : i = Given(q) => Entry(q, i)' = e
<1>. DEFINE n == queues[q].size
            u == queues[q].nextUsed
            l == drv.last[q]
            U == ring[q].used
<1>p. PICK W \in Nat, G \in Nat, h \in {AvailHead(q, 0)} : W = Waiting(q) /\ G = Given(q) /\ h = AvailHead(q, 0)
  BY WindowFacts
<1>e. /\ drv' = drv /\ queues'[q].nextUsed = Plus(u, 1) /\ queues'[q].size = n
      /\ \E st, m : /\ ring'[q].used = [U EXCEPT ![u % n] = [id |-> h, status |-> st, len |-> m]]
                    /\ Answer(q, st, m)
  <2>1. /\ \E st, m :
              /\ ring'[loop.q].used = [ring[loop.q].used EXCEPT
                   ![queues[loop.q].nextUsed % queues[loop.q].size] = [id |-> AvailHead(loop.q, 0), status |-> st, len |-> m]]
              /\ Answer(loop.q, st, m)
        /\ queues'[loop.q].nextUsed = Plus(queues[loop.q].nextUsed, 1)
        /\ queues'[loop.q].size = queues[loop.q].size /\ drv' = drv
    BY ServeEffect, Zenon
  <2>2. PICK st, m :
          /\ ring'[loop.q].used = [ring[loop.q].used EXCEPT
               ![queues[loop.q].nextUsed % queues[loop.q].size] = [id |-> AvailHead(loop.q, 0), status |-> st, len |-> m]]
          /\ Answer(loop.q, st, m)
    BY <2>1, Zenon
  <2>3. ring'[q].used = [U EXCEPT ![u % n] = [id |-> h, status |-> st, len |-> m]]
    BY <1>p, <2>2
  <2>4. Answer(q, st, m)
    BY <2>2
  <2>5. queues'[q].nextUsed = Plus(u, 1) /\ queues'[q].size = n
    BY <2>1
  <2>. QED
    BY <2>1, <2>3, <2>4, <2>5, Zenon
<1>d. dev \in Devices /\ q \in {RX, TX}
  BY WindowFacts
<1>n. n \in Nat \ {0} /\ n < Modulus /\ Modulus % n = 0 /\ Modulus \in Nat
  BY <1>d, WindowFacts, ModulusFact
<1>i. u \in Indices /\ l \in Indices
  BY WindowFacts
<1>t. /\ U \in [Slots -> [id : Slots \cup {Blank}, status : Statuses, len : Int]]
      /\ 0..(n - 1) \subseteq Slots
  <2>1. ring[q] \in RingType
    BY DEF SharedType
  <2>2. n \in Nat /\ n <= MaxSize[dev] /\ MaxSize[dev] \in Nat
    BY <1>d, ModulusFact DEF RegisterInv, GoodSize
  <2>. QED
    BY <2>1, <2>2 DEF RingType, Slots
<1>w. W \in Nat /\ G \in Nat /\ W + G <= n /\ Minus(u, l) = G
  BY <1>p, WindowFacts DEF Given
<1>1. G + 1 <= n /\ G + 1 < Modulus
  <2>1. W # 0
    BY <1>p DEF Available, Waiting
  <2>. QED
    BY <1>n, <1>w, <2>1
<1>2. Given(q)' = G + 1
  <2>1. Minus(u, l) + 1 < Modulus
    BY <1>1, <1>w
  <2>2. Minus(Plus(u, 1), l) = Minus(u, l) + 1
    BY <1>d, <1>i, <2>1, Distances, Zenon
  <2>. QED
    BY <1>e, <1>w, <2>2 DEF Given
<1>3. u % n = Plus(l, G) % n /\ G \in 0..(n - 1)
  <2>1. Plus(l, Minus(u, l)) = u
    BY <1>d, <1>i, Distances, Zenon
  <2>. QED
    BY <1>1, <1>w, <1>n, <2>1
<1>4. /\ \A i \in Nat : Plus(l, i) % n \in 0..(n - 1)
      /\ \A i, j \in 0..(n - 1) : i # j => Plus(l, i) % n # Plus(l, j) % n
  <2>1. dev \in Devices /\ n \in Nat \ {0} /\ n < Modulus /\ Modulus % n = 0 /\ l \in Indices
    BY <1>d, <1>n, <1>i, Zenon
  <2>. HIDE DEF l, n
  <2>. QED
    BY <2>1, WindowSlots, Zenon
<1>5. PICK e : e.id = h /\ Answer(q, e.status, e.len) /\ ring'[q].used = [U EXCEPT ![u % n] = e]
  <2>1. PICK st, m : ring'[q].used = [U EXCEPT ![u % n] = [id |-> h, status |-> st, len |-> m]] /\ Answer(q, st, m)
    BY <1>e, Zenon
  <2>. DEFINE e == [id |-> h, status |-> st, len |-> m]
  <2>2. e.id = h /\ e.status = st /\ e.len = m
    OBVIOUS
  <2>3. ring'[q].used = [U EXCEPT ![u % n] = e]
    BY <2>1
  <2>. HIDE DEF e
  <2>4. Answer(q, e.status, e.len)
    BY <2>1, <2>2
  <2>. QED
    BY <2>2, <2>3, <2>4, Zenon
<1>6. \A i \in 0..(G - 1) : Entry(q, i)' = Entry(q, i)
  <2>. TAKE i \in 0..(G - 1)
  <2>1. i \in 0..(n - 1) /\ i # G /\ i \in Nat
    BY <1>1, <1>w, <1>n
  <2>2. Plus(l, i) % n # u % n
    BY <1>3, <1>4, <2>1
  <2>3. Entry(q, i)' = [U EXCEPT ![u % n] = e][Plus(l, i) % n]
    BY <1>e, <1>5 DEF Entry
  <2>4. Plus(l, i) % n \in Slots
    BY <1>4, <1>t, <2>1
  <2>. HIDE DEF U, u, n, l
  <2>5. Entry(q, i)' = U[Plus(l, i) % n]
    BY <1>t, <2>2, <2>3, <2>4
  <2>. QED
    BY <2>5 DEF Entry, U, l, n
<1>7. Entry(q, G)' = e
  <2>1. Entry(q, G)' = [U EXCEPT ![u % n] = e][Plus(l, G) % n]
    BY <1>e, <1>5 DEF Entry
  <2>2. Plus(l, G) % n \in Slots
    BY <1>4, <1>t, <1>w
  <2>. HIDE DEF U, u, n, l
  <2>. QED
    BY <1>t, <1>3, <2>1, <2>2
<1>. QED
  BY <1>p, <1>2, <1>5, <1>6, <1>7

(* The oldest head that waits is taken and becomes the newest one given    *)
(* back.                                                                   *)
LEMMA ServeWindows ==
  ASSUME RegisterInv, SharedType, cc.active, NEW q \in Queues, q = loop.q, Windows(q), Available(q) # 0, Serve
  PROVE  Windows(q)'
<1>. DEFINE n == queues[q].size
            k == queues[q].nextAvail
            b == ring[q].availIdx
            A == ring[q].avail
<1>p. PICK W \in Nat, G \in Nat, h \in {AvailHead(q, 0)} : W = Waiting(q) /\ G = Given(q) /\ h = AvailHead(q, 0)
  BY WindowFacts
<1>e. /\ dev' = dev /\ drv' = drv
      /\ ring'[q].avail = [A EXCEPT ![k % n] = Blank]
      /\ ring'[q].availIdx = b /\ ring'[q].usedIdx = ring[q].usedIdx
      /\ ring'[q].chain = [ring[q].chain EXCEPT ![h] = <<>>]
      /\ queues'[q].nextAvail = Plus(k, 1) /\ queues'[q].size = n
  <2>1. /\ ring'[loop.q].avail = [ring[loop.q].avail EXCEPT ![queues[loop.q].nextAvail % queues[loop.q].size] = Blank]
        /\ ring'[loop.q].availIdx = ring[loop.q].availIdx /\ ring'[loop.q].usedIdx = ring[loop.q].usedIdx
        /\ ring'[loop.q].chain = [ring[loop.q].chain EXCEPT ![AvailHead(loop.q, 0)] = <<>>]
        /\ queues'[loop.q].nextAvail = Plus(queues[loop.q].nextAvail, 1)
        /\ queues'[loop.q].size = queues[loop.q].size
    BY ServeEffect, Zenon
  <2>2. dev' = dev /\ drv' = drv
    BY DEF Serve
  <2>. QED
    <3>. DEFINE r == ring'[q]
                s == queues'[q]
    <3>1. /\ r.avail = [A EXCEPT ![k % n] = Blank] /\ r.availIdx = b /\ r.usedIdx = ring[q].usedIdx
          /\ s.nextAvail = Plus(k, 1) /\ s.size = n
      BY <2>1
    <3>2. r.chain = [ring[q].chain EXCEPT ![h] = <<>>]
      BY <1>p, <2>1
    <3>. QED
      BY <2>2, <3>1, <3>2, Zenon
<1>d. dev \in Devices /\ q \in {RX, TX}
  BY WindowFacts
<1>n. n \in Nat \ {0} /\ n < Modulus /\ Modulus % n = 0 /\ Modulus \in Nat
  BY <1>d, WindowFacts, ModulusFact
<1>i. b \in Indices /\ k \in Indices
  BY WindowFacts
<1>t. /\ ring[q].chain \in [Slots -> ChainValues] /\ A \in [Slots -> Slots \cup {Blank}]
      /\ drv.out \in [{RX, TX} -> SUBSET Slots] /\ 0..(n - 1) \subseteq Slots
  <2>1. ring[q] \in RingType /\ drv \in DriverType
    BY DEF SharedType
  <2>2. n \in Nat /\ n <= MaxSize[dev] /\ MaxSize[dev] \in Nat
    BY <1>d, ModulusFact DEF RegisterInv, GoodSize
  <2>. QED
    BY <2>1, <2>2 DEF RingType, DriverType, Slots
<1>w. W \in Nat /\ G \in Nat /\ W + G <= n
  BY <1>p, WindowFacts
<1>old. /\ drv.out[q] \subseteq 0..(n - 1) /\ Cardinality(drv.out[q]) = W + G
        /\ \A i \in 0..(W - 1) : AvailHead(q, i) \in drv.out[q] /\ ring[q].chain[AvailHead(q, i)] \in ChainOf(q)
        /\ \A i \in 0..(G - 1) : Id(q, i) \in drv.out[q]
        /\ \A i, j \in 0..(W - 1) : i # j => AvailHead(q, i) # AvailHead(q, j)
        /\ \A i, j \in 0..(G - 1) : i # j => Id(q, i) # Id(q, j)
        /\ \A i \in 0..(W - 1), j \in 0..(G - 1) : AvailHead(q, i) # Id(q, j)
        /\ Minus(ring[q].usedIdx, drv.last[q]) <= G
  BY <1>p DEF Windows
<1>1. W # 0 /\ b # k /\ W >= 1 /\ G + 1 <= n /\ G + 1 < Modulus
  <2>1. W # 0 /\ Minus(b, k) = W
    BY <1>p DEF Available, Waiting
  <2>2. b = k => Minus(b, k) = 0
    BY <1>d, <1>i, Distances, Zenon
  <2>. QED
    BY <1>n, <1>w, <2>1, <2>2
<1>2. h \in drv.out[q] /\ \A j \in 0..(G - 1) : Id(q, j) # h
  BY <1>1, <1>p, <1>old
<1>g. PICK e : /\ e.id = h /\ Given(q)' = G + 1
               /\ \A i \in 0..(G - 1) : Entry(q, i)' = Entry(q, i)
               /\ \A i : i = G => Entry(q, i)' = e
  BY <1>p, ServeEntries
<1>3. Waiting(q)' = W - 1 /\ Given(q)' = G + 1
  <2>1. Minus(b, Plus(k, 1)) = Minus(b, k) - 1
    BY <1>d, <1>i, <1>1, Distances, Zenon
  <2>. QED
    BY <1>e, <1>p, <1>g, <2>1 DEF Waiting
<1>4. k % n = Plus(k, 0) % n /\ 0 \in 0..(n - 1)
  <2>1. Plus(k, 0) = k
    BY <1>d, <1>i, Distances, Zenon
  <2>. QED
    BY <1>n, <2>1
<1>5. /\ \A i \in Nat : Plus(k, i) % n \in 0..(n - 1)
      /\ \A i, j \in 0..(n - 1) : i # j => Plus(k, i) % n # Plus(k, j) % n
  <2>1. dev \in Devices /\ n \in Nat \ {0} /\ n < Modulus /\ Modulus % n = 0 /\ k \in Indices
    BY <1>d, <1>n, <1>i, Zenon
  <2>. HIDE DEF k, n
  <2>. QED
    BY <2>1, WindowSlots, Zenon
<1>6. \A i \in 0..(W - 2) : AvailHead(q, i)' = AvailHead(q, i + 1)
  <2>. TAKE i \in 0..(W - 2)
  <2>1. i + 1 \in 0..(n - 1) /\ i + 1 # 0 /\ i \in Nat /\ i + 1 < Modulus /\ i + 1 \in Nat
    BY <1>1, <1>w, <1>n
  <2>2. Plus(Plus(k, 1), i) = Plus(k, i + 1)
    BY <1>d, <1>i, <2>1, Distances, Zenon
  <2>3. Plus(k, i + 1) % n # k % n
    BY <1>4, <1>5, <2>1
  <2>4. AvailHead(q, i)' = [A EXCEPT ![k % n] = Blank][Plus(k, i + 1) % n]
    BY <1>e, <2>2 DEF AvailHead
  <2>5. Plus(k, i + 1) % n \in Slots
    BY <1>5, <1>t, <2>1
  <2>. HIDE DEF A, k, n
  <2>6. AvailHead(q, i)' = A[Plus(k, i + 1) % n]
    BY <1>t, <2>3, <2>4, <2>5
  <2>. QED
    BY <2>6 DEF AvailHead, A, k, n
<1>8. \A i \in 0..(G - 1) : Id(q, i)' = Id(q, i)
  BY <1>g DEF Id
<1>9. Id(q, G)' = h
  BY <1>g DEF Id
<1>10. \A i \in 0..(W - 2) : ring'[q].chain[AvailHead(q, i + 1)] = ring[q].chain[AvailHead(q, i + 1)] /\ AvailHead(q, i + 1) # h
  <2>. TAKE i \in 0..(W - 2)
  <2>1. i + 1 \in 0..(W - 1) /\ 0 \in 0..(W - 1) /\ i + 1 # 0
    BY <1>w, <1>1
  <2>2. AvailHead(q, i + 1) # AvailHead(q, 0) /\ AvailHead(q, i + 1) \in drv.out[q]
    BY <1>old, <2>1
  <2>. QED
    BY <1>e, <1>t, <1>p, <1>old, <2>2
<1>11. /\ ChainOf(q)' = ChainOf(q) /\ drv'.out[q] = drv.out[q] /\ queues'[q].size = n
       /\ Minus(ring[q].usedIdx, drv.last[q])' = Minus(ring[q].usedIdx, drv.last[q])
  BY <1>e DEF ChainOf
<1>12. /\ \A i \in 0..(W - 2) : i + 1 \in 0..(W - 1)
       /\ 0..(W - 1 - 1) = 0..(W - 2) /\ 0 \in 0..(W - 1)
       /\ 0..(G + 1 - 1) = 0..(G - 1) \cup {G} /\ G \notin 0..(G - 1)
       /\ \A i, j \in 0..(W - 2) : i # j => i + 1 # j + 1
  BY <1>w, <1>1
<1>. HIDE DEF n
<1>13. \A i \in 0..(W - 2) : AvailHead(q, i)' \in drv.out[q] /\ ring'[q].chain[AvailHead(q, i)'] \in ChainOf(q)
  BY <1>6, <1>10, <1>12, <1>old
<1>14. \A i, j \in 0..(W - 2) : i # j => AvailHead(q, i)' # AvailHead(q, j)'
  BY <1>6, <1>12, <1>old
<1>15. /\ \A i \in 0..(G + 1 - 1) : Id(q, i)' \in drv.out[q]
       /\ \A i, j \in 0..(G + 1 - 1) : i # j => Id(q, i)' # Id(q, j)'
  <2>1. ASSUME NEW i \in 0..(G + 1 - 1) PROVE (i \in 0..(G - 1) /\ Id(q, i)' = Id(q, i)) \/ (i = G /\ Id(q, i)' = h)
    BY <1>8, <1>9, <1>12
  <2>. QED
    BY <1>2, <2>1, <1>old
<1>16. \A i \in 0..(W - 2), j \in 0..(G + 1 - 1) : AvailHead(q, i)' # Id(q, j)'
  BY <1>6, <1>8, <1>9, <1>10, <1>12, <1>old
<1>17. Cardinality(drv.out[q]) = (W - 1) + (G + 1) /\ Minus(ring[q].usedIdx, drv.last[q]) <= G + 1
  <2>1. Minus(ring[q].usedIdx, drv.last[q]) \in Indices
    BY <1>d, WindowFacts, MinusIs, Zenon
  <2>2. Minus(ring[q].usedIdx, drv.last[q]) \in Nat
    BY <2>1 DEF Indices
  <2>. QED
    BY <1>w, <1>old, <2>2
<1>. QED
  BY <1>3, <1>11, <1>12, <1>13, <1>14, <1>15, <1>16, <1>17, <1>old DEF Windows

(* The used ring once an entry was collected: the oldest one is gone, and  *)
(* the guest has the frame in it.                                          *)
LEMMA CollectEntries ==
  ASSUME RegisterInv, SharedType, cc.active, NEW q \in Queues, Windows(q), Collect(q)
  PROVE  /\ Given(q) >= 1 /\ Given(q)' = Given(q) - 1
         /\ Minus(ring[q].usedIdx, drv.last[q])' <= Given(q) - 1
         /\ \A i \in 0..(Given(q) - 2) : Entry(q, i)' = Entry(q, i + 1)
         /\ drv'.got = IF Entry(q, 0).status = "frame" /\ Entry(q, 0).len # 0
                       THEN Append(drv.got, Entry(q, 0).len) ELSE drv.got
<1>. DEFINE n == queues[q].size
            u == queues[q].nextUsed
            l == drv.last[q]
            x == ring[q].usedIdx
            U == ring[q].used
<1>p. PICK W \in Nat, G \in Nat : W = Waiting(q) /\ G = Given(q)
  BY WindowFacts
<1>d. dev \in Devices /\ q \in {RX, TX}
  BY WindowFacts
<1>n. n \in Nat \ {0} /\ n < Modulus /\ Modulus % n = 0 /\ Modulus \in Nat
  BY <1>d, WindowFacts, ModulusFact
<1>i. x \in Indices /\ u \in Indices /\ l \in Indices
  BY WindowFacts
<1>t. /\ U \in [Slots -> [id : Slots \cup {Blank}, status : Statuses, len : Int]]
      /\ drv.last \in [{RX, TX} -> Indices] /\ 0..(n - 1) \subseteq Slots /\ drv \in DriverType
  <2>1. ring[q] \in RingType /\ drv \in DriverType
    BY DEF SharedType
  <2>2. n \in Nat /\ n <= MaxSize[dev] /\ MaxSize[dev] \in Nat
    BY <1>d, ModulusFact DEF RegisterInv, GoodSize
  <2>. QED
    BY <2>1, <2>2 DEF RingType, DriverType, Slots
<1>e. /\ queues' = queues /\ x # l /\ ring'[q].usedIdx = x
      /\ ring'[q].used = [U EXCEPT ![l % n] = Unused]
      /\ drv'.last[q] = Plus(l, 1)
  <2>1. /\ queues' = queues /\ ring[q].usedIdx # drv.last[q] /\ ring'[q].usedIdx = ring[q].usedIdx
        /\ ring'[q].used = [ring[q].used EXCEPT ![drv.last[q] % queues[q].size] = Unused]
        /\ drv'.last = [drv.last EXCEPT ![q] = Plus(@, 1)]
    BY CollectEffect, Zenon
  <2>2. drv'.last[q] = Plus(l, 1)
    BY <1>d, <1>t, <2>1
  <2>. QED
    BY <2>1, <2>2, Zenon
<1>w. W \in Nat /\ G \in Nat /\ W + G <= n /\ Minus(u, l) = G /\ Minus(x, l) <= G
  BY <1>p, WindowFacts DEF Given, Windows
<1>1. Minus(x, l) \in Nat /\ Minus(x, l) > 0 /\ G >= 1 /\ u # l
  <2>1. Minus(x, l) \in Indices /\ Minus(x, l) > 0
    BY <1>d, <1>e, <1>i, MinusIs, Distances, Zenon
  <2>2. u = l => Minus(u, l) = 0
    BY <1>d, <1>i, Distances, Zenon
  <2>3. Minus(x, l) \in Nat
    BY <2>1 DEF Indices
  <2>. HIDE DEF x, l, u
  <2>. QED
    BY <1>w, <2>1, <2>2, <2>3
<1>2. Given(q)' = G - 1 /\ Minus(ring[q].usedIdx, drv.last[q])' <= G - 1
  <2>1. Minus(u, Plus(l, 1)) = Minus(u, l) - 1
    BY <1>d, <1>i, <1>1, Distances, Zenon
  <2>2. Minus(x, Plus(l, 1)) = Minus(x, l) - 1
    BY <1>d, <1>i, <1>e, Distances, Zenon
  <2>3. Given(q)' = G - 1 /\ Minus(ring[q].usedIdx, drv.last[q])' = Minus(x, Plus(l, 1))
    BY <1>e, <1>p, <1>w, <2>1 DEF Given
  <2>. HIDE DEF x, l
  <2>. QED
    BY <1>1, <1>w, <2>2, <2>3
<1>3. /\ \A i \in Nat : Plus(l, i) % n \in 0..(n - 1)
      /\ \A i, j \in 0..(n - 1) : i # j => Plus(l, i) % n # Plus(l, j) % n
      /\ l % n = Plus(l, 0) % n
  <2>0. dev \in Devices /\ n \in Nat \ {0} /\ n < Modulus /\ Modulus % n = 0 /\ l \in Indices
    BY <1>d, <1>n, <1>i, Zenon
  <2>. HIDE DEF l, n
  <2>1. /\ \A i \in Nat : Plus(l, i) % n \in 0..(n - 1)
        /\ \A i, j \in 0..(n - 1) : i # j => Plus(l, i) % n # Plus(l, j) % n
    BY <2>0, WindowSlots, Zenon
  <2>2. Plus(l, 0) = l
    BY <2>0, Distances, Zenon
  <2>. QED
    BY <2>1, <2>2, Zenon
<1>4. \A i \in 0..(G - 2) : Entry(q, i)' = Entry(q, i + 1)
  <2>. TAKE i \in 0..(G - 2)
  <2>1. i + 1 \in 0..(n - 1) /\ 0 \in 0..(n - 1) /\ i + 1 # 0 /\ i \in Nat /\ i + 1 < Modulus /\ i + 1 \in Nat
    BY <1>1, <1>w, <1>n
  <2>2. Plus(Plus(l, 1), i) = Plus(l, i + 1)
    BY <1>d, <1>i, <2>1, Distances, Zenon
  <2>3. Plus(l, i + 1) % n # l % n
    BY <1>3, <2>1
  <2>4. Entry(q, i)' = [U EXCEPT ![l % n] = Unused][Plus(l, i + 1) % n]
    BY <1>e, <2>2 DEF Entry
  <2>5. Plus(l, i + 1) % n \in Slots
    BY <1>3, <1>t, <2>1
  <2>. HIDE DEF U, l, n
  <2>6. Entry(q, i)' = U[Plus(l, i + 1) % n]
    BY <1>t, <2>3, <2>4, <2>5
  <2>. QED
    BY <2>6 DEF Entry, U, l, n
<1>5. Entry(q, 0) = U[l % n]
  BY <1>3 DEF Entry
<1>6. drv'.got = IF U[l % n].status = "frame" /\ U[l % n].len # 0 THEN Append(drv.got, U[l % n].len) ELSE drv.got
  BY <1>t DEF Collect, DriverType
<1>. HIDE DEF U, l, n
<1>. QED
  BY <1>p, <1>1, <1>2, <1>4, <1>5, <1>6

(* The driver takes the oldest head given back, which leaves the window.   *)
LEMMA CollectWindows ==
  ASSUME RegisterInv, SharedType, cc.active, NEW q \in Queues, Windows(q), Collect(q)
  PROVE  Windows(q)'
<1>. DEFINE n == queues[q].size
<1>p. PICK W \in Nat, G \in Nat, w \in {Id(q, 0)} : W = Waiting(q) /\ G = Given(q) /\ w = Id(q, 0)
  BY WindowFacts
<1>d. dev \in Devices /\ q \in {RX, TX} /\ dev' = dev
  BY WindowFacts DEF Collect
<1>n. n \in Nat \ {0} /\ n < Modulus /\ Modulus % n = 0 /\ Modulus \in Nat
  BY <1>d, WindowFacts, ModulusFact
<1>i. IsFiniteSet(drv.out[q])
  BY WindowFacts
<1>t. drv.out \in [{RX, TX} -> SUBSET Slots]
  BY DEF SharedType, DriverType
<1>e. /\ queues' = queues /\ drv'.out[q] = drv.out[q] \ {w}
      /\ ring'[q].avail = ring[q].avail /\ ring'[q].chain = ring[q].chain /\ ring'[q].availIdx = ring[q].availIdx
  <2>1. /\ queues' = queues
        /\ ring'[q].avail = ring[q].avail /\ ring'[q].chain = ring[q].chain
        /\ ring'[q].availIdx = ring[q].availIdx
        /\ drv'.out = [drv.out EXCEPT ![q] = @ \ {Id(q, 0)}]
    BY CollectEffect, Zenon
  <2>2. drv'.out[q] = drv.out[q] \ {w}
    BY <1>d, <1>p, <1>t, <2>1
  <2>. QED
    BY <2>1, <2>2, Zenon
<1>w. W \in Nat /\ G \in Nat /\ W + G <= n
  BY <1>p, WindowFacts
<1>old. /\ drv.out[q] \subseteq 0..(n - 1) /\ Cardinality(drv.out[q]) = W + G
        /\ \A i \in 0..(W - 1) : AvailHead(q, i) \in drv.out[q] /\ ring[q].chain[AvailHead(q, i)] \in ChainOf(q)
        /\ \A i \in 0..(G - 1) : Id(q, i) \in drv.out[q]
        /\ \A i, j \in 0..(W - 1) : i # j => AvailHead(q, i) # AvailHead(q, j)
        /\ \A i, j \in 0..(G - 1) : i # j => Id(q, i) # Id(q, j)
        /\ \A i \in 0..(W - 1), j \in 0..(G - 1) : AvailHead(q, i) # Id(q, j)
  BY <1>p DEF Windows
<1>1. /\ G >= 1 /\ Given(q)' = G - 1 /\ Minus(ring[q].usedIdx, drv.last[q])' <= G - 1
      /\ \A i \in 0..(G - 2) : Entry(q, i)' = Entry(q, i + 1)
  BY <1>p, CollectEntries
<1>2. Waiting(q)' = W
  BY <1>e, <1>p DEF Waiting
<1>3. w \in drv.out[q] /\ \A i \in 0..(W - 1) : AvailHead(q, i) # w
  BY <1>1, <1>w, <1>p, <1>old
<1>4. Cardinality(drv'.out[q]) = W + (G - 1)
  <2>1. Cardinality(drv.out[q] \ {w}) = Cardinality(drv.out[q]) - 1
    BY <1>3, <1>i, FS_RemoveElement
  <2>. QED
    BY <1>e, <1>w, <1>old, <2>1
<1>6. \A i \in 0..(G - 2) : Id(q, i)' = Id(q, i + 1)
  BY <1>1 DEF Id
<1>7. \A i : AvailHead(q, i)' = AvailHead(q, i)
  BY <1>e DEF AvailHead
<1>8. ChainOf(q)' = ChainOf(q) /\ queues'[q].size = n
  BY <1>d, <1>e DEF ChainOf
<1>9. /\ \A i \in 0..(G - 2) : i + 1 \in 0..(G - 1) /\ i + 1 # 0
      /\ 0..(G - 1 - 1) = 0..(G - 2) /\ 0 \in 0..(G - 1)
      /\ \A i, j \in 0..(G - 2) : i # j => i + 1 # j + 1
  BY <1>w, <1>1
<1>. HIDE DEF n
<1>10. \A i \in 0..(W - 1) : AvailHead(q, i)' \in drv'.out[q] /\ ring'[q].chain[AvailHead(q, i)'] \in ChainOf(q)
  BY <1>3, <1>7, <1>e, <1>old
<1>11. \A i, j \in 0..(W - 1) : i # j => AvailHead(q, i)' # AvailHead(q, j)'
  BY <1>7, <1>old
<1>12. \A i \in 0..(G - 2) : Id(q, i)' \in drv'.out[q]
  <2>. TAKE i \in 0..(G - 2)
  <2>1. Id(q, i + 1) # w /\ Id(q, i + 1) \in drv.out[q]
    BY <1>9, <1>p, <1>old
  <2>. QED
    BY <1>6, <1>e, <2>1
<1>13. \A i, j \in 0..(G - 2) : i # j => Id(q, i)' # Id(q, j)'
  BY <1>6, <1>9, <1>old
<1>14. \A i \in 0..(W - 1), j \in 0..(G - 2) : AvailHead(q, i)' # Id(q, j)'
  BY <1>6, <1>7, <1>9, <1>old
<1>15. drv'.out[q] \subseteq 0..(n - 1)
  BY <1>e, <1>old
<1>. QED
  BY <1>1, <1>2, <1>4, <1>8, <1>9, <1>10, <1>11, <1>12, <1>13, <1>14, <1>15 DEF Windows

(* The stream and the frame that was read of it.                           *)
Untouched ==
    /\ net'.inbox = net.inbox /\ net'.rx = net.rx /\ net'.begun = net.begun /\ net'.sent = net.sent
    /\ loop'.frame = loop.frame

(* A step that moves no head: the windows, the driver's knowledge of them  *)
(* and, before the activation, the event loop stay what they are.          *)
Calm ==
    /\ SharedType'
    /\ drv'.out = drv.out /\ drv'.last = drv.last /\ drv'.got = drv.got
    /\ Untouched \/ ReadHeader \/ ReadBody \/ PasstSends
    /\ (drv'.phase = "live" => cc.active) /\ drv'.phase # "reset"
    /\ cc.active \/ loop' = loop
    /\ \A q \in Queues :
        /\ ring'[q].avail = ring[q].avail /\ ring'[q].availIdx = ring[q].availIdx
        /\ ring'[q].used = ring[q].used /\ ring'[q].usedIdx = ring[q].usedIdx
        /\ ring'[q].chain = ring[q].chain
        /\ queues'[q].nextAvail = queues[q].nextAvail /\ queues'[q].nextUsed = queues[q].nextUsed
        /\ cc.active => queues'[q].size = queues[q].size

(* The types, from a step that moves some of the four variables.           *)
LEMMA SharedStep ==
  ASSUME dev' = dev, ring' \in [Queues -> RingType], drv' \in DriverType, loop' \in LoopType,
         net' \in NetType, Len(net'.outbox) <= Room
  PROVE  SharedType'
<1>1. Queues' = Queues /\ Slots' = Slots
  BY DEF Queues, Slots
<1>2. RingType' = RingType /\ DriverType' = DriverType /\ LoopType' = LoopType
  BY <1>1 DEF RingType, DriverType, LoopType
<1>. QED
  BY <1>1, <1>2 DEF SharedType

(* Writing registers moves no head.                                        *)
LEMMA RegistersCalm ==
  ASSUME RegisterInv, SharedType, ProbeInv, drv.phase # "reset", UNCHANGED <<ring, drv, loop, net>>,
         \/ \E n \in 0..4 : WriteStatus(n)
         \/ WriteFailed \/ WriteFeatures
         \/ \E q \in Queues : \/ \E n \in Nat : WriteQueueSize(q, n)
                              \/ \E p \in Parts[dev], a \in Addresses : WriteQueueAddress(q, p, a)
                              \/ WriteQueueEnable(q)
         \/ UNCHANGED <<dev, queues>>
  PROVE  Calm
<1>t. queues \in [Queues -> QueueType] /\ cc \in ConfigType /\ (cc.active => ~At(cc, 3))
  BY DEF RegisterInv, At
<1>d. dev' = dev
  BY DEF WriteStatus, WriteFailed, WriteFeatures, WriteQueueSize, WriteQueueAddress, WriteQueueEnable, UpdateQueueField
<1>1. SharedType'
  BY <1>d, SharedStep DEF SharedType
<1>2. \A q \in Queues : /\ queues'[q].nextAvail = queues[q].nextAvail /\ queues'[q].nextUsed = queues[q].nextUsed
                        /\ cc.active => queues'[q].size = queues[q].size
  <2>1. ASSUME NEW n \in 0..4, WriteStatus(n) PROVE queues' = queues \/ ActivateOk
    BY <2>1 DEF WriteStatus, ActivateFails
  <2>2. CASE queues' = queues
    BY <2>2
  <2>3. CASE ActivateOk
    BY <1>t, <2>3 DEF ActivateOk, QueueType
  <2>4. ASSUME NEW p \in Queues, NEW new, UpdateQueueField(p, new),
               new.nextAvail = queues[p].nextAvail, new.nextUsed = queues[p].nextUsed
        PROVE  \A q \in Queues : /\ queues'[q].nextAvail = queues[q].nextAvail /\ queues'[q].nextUsed = queues[q].nextUsed
                                 /\ cc.active => queues'[q].size = queues[q].size
    BY <1>t, <2>4 DEF UpdateQueueField
  <2>5. ASSUME NEW p \in Queues, \/ \E n \in Nat : WriteQueueSize(p, n)
                                 \/ \E z \in Parts[dev], a \in Addresses : WriteQueueAddress(p, z, a)
                                 \/ WriteQueueEnable(p)
        PROVE  \A q \in Queues : /\ queues'[q].nextAvail = queues[q].nextAvail /\ queues'[q].nextUsed = queues[q].nextUsed
                                 /\ cc.active => queues'[q].size = queues[q].size
    <3>1. queues[p] \in QueueType
      BY <1>t
    <3>2. CASE \E n \in Nat : WriteQueueSize(p, n)
      <4>1. PICK n \in Nat : UpdateQueueField(p, [queues[p] EXCEPT !.size = n])
        BY <3>2 DEF WriteQueueSize
      <4>. QED
        BY <2>4, <3>1, <4>1 DEF QueueType
    <3>3. CASE \E z \in Parts[dev], a \in Addresses : WriteQueueAddress(p, z, a)
      <4>1. PICK z \in Parts[dev], a \in Addresses : UpdateQueueField(p, [queues[p] EXCEPT !.addr[z] = a])
        BY <3>3 DEF WriteQueueAddress
      <4>. QED
        BY <2>4, <3>1, <4>1 DEF QueueType
    <3>4. CASE WriteQueueEnable(p)
      <4>1. UpdateQueueField(p, [queues[p] EXCEPT !.ready = TRUE])
        BY <3>4 DEF WriteQueueEnable
      <4>. QED
        BY <2>4, <3>1, <4>1 DEF QueueType
    <3>. QED
      BY <2>5, <3>2, <3>3, <3>4
  <2>. QED
    BY <2>1, <2>2, <2>3, <2>5 DEF WriteFailed, WriteFeatures
<1>. QED
  BY <1>1, <1>2 DEF Calm, ProbeInv, Untouched

(* The steps of the guest that move no head.                               *)
LEMMA GuestCalm ==
  ASSUME RegisterInv, SharedType, ProbeInv, drv.phase # "reset",
         \/ Mask \/ UnmaskAll \/ ProbeEnds
         \/ \E v \in 0..2 : UnmaskEntry(v) \/ TakeInterrupt(v)
         \/ \E q \in {RX, TX} : Kick(q) \/ Arm(q) \/ Rest(q)
  PROVE  Calm
<1>t. /\ ring \in [Queues -> RingType] /\ drv \in DriverType /\ loop \in LoopType /\ net \in NetType
      /\ Len(net.outbox) <= Room /\ dev \in Devices
  BY DEF SharedType, RegisterInv
<1>u. dev' = dev /\ loop' = loop /\ net' = net /\ queues' = queues
  BY DEF Mask, UnmaskAll, ProbeEnds, UnmaskEntry, TakeInterrupt, Kick, Arm, Rest, WriteMsgCtl, WriteEntry
<1>a. Live \/ ProbeEnds
  BY DEF Mask, UnmaskAll, UnmaskEntry, TakeInterrupt, Kick, Arm, Rest
<1>b. Live \/ ProbeEnds => cc.active
  BY DEF Live, ProbeEnds, ProbeInv
<1>1. /\ drv' \in DriverType /\ drv'.out = drv.out /\ drv'.last = drv.last /\ drv'.got = drv.got
      /\ drv'.phase # "reset"
  <2>1. CASE Mask \/ UnmaskAll \/ ProbeEnds \/ \E v \in 0..2 : UnmaskEntry(v)
    <3>1. drv' = drv \/ drv' = [drv EXCEPT !.masks = drv.masks + 1] \/ drv' = [drv EXCEPT !.phase = "live"]
      BY <2>1 DEF Mask, UnmaskAll, ProbeEnds, UnmaskEntry
    <3>2. drv.masks + 1 \in Nat
      BY <1>t DEF DriverType
    <3>3. [drv EXCEPT !.masks = drv.masks + 1] \in DriverType /\ [drv EXCEPT !.phase = "live"] \in DriverType
      BY <1>t, <3>2 DEF DriverType
    <3>. QED
      BY <1>t, <3>1, <3>3 DEF DriverType
  <2>2. CASE \E v \in 0..2 : TakeInterrupt(v)
    <3>1. PICK v \in 0..2 : drv' = [drv EXCEPT !.poll = [q \in {RX, TX} |->
                                IF q \in Queues /\ msix.queue[q] = v THEN "poll" ELSE drv.poll[q]]]
      BY <2>2 DEF TakeInterrupt
    <3>2. [q \in {RX, TX} |-> IF q \in Queues /\ msix.queue[q] = v THEN "poll" ELSE drv.poll[q]]
            \in [{RX, TX} -> {"idle", "poll", "armed"}]
      BY <1>t DEF DriverType
    <3>. QED
      BY <1>t, <3>1, <3>2 DEF DriverType
  <2>3. CASE \E q \in {RX, TX} : Kick(q)
    <3>1. PICK q \in {RX, TX} : q \in Queues /\ drv' = [drv EXCEPT !.told[q] = ring[q].availIdx]
      BY <2>3 DEF Kick
    <3>2. ring[q].availIdx \in Indices
      BY <1>t, <3>1 DEF RingType
    <3>. QED
      BY <1>t, <3>1, <3>2 DEF DriverType
  <2>4. CASE \E q \in {RX, TX} : Arm(q) \/ Rest(q)
    <3>1. PICK q \in {RX, TX}, s \in {"idle", "armed"} : drv' = [drv EXCEPT !.poll[q] = s]
      BY <2>4 DEF Arm, Rest
    <3>2. [drv.poll EXCEPT ![q] = s] \in [{RX, TX} -> {"idle", "poll", "armed"}]
      BY <1>t DEF DriverType
    <3>3. drv' = [drv EXCEPT !.poll = [drv.poll EXCEPT ![q] = s]]
      BY <3>1
    <3>. HIDE DEF RX, TX
    <3>. QED
      BY <1>t, <3>2, <3>3 DEF DriverType
  <2>. QED
    BY <2>1, <2>2, <2>3, <2>4
<1>2. /\ ring' \in [Queues -> RingType]
      /\ \A q \in Queues : /\ ring'[q].avail = ring[q].avail /\ ring'[q].availIdx = ring[q].availIdx
                           /\ ring'[q].used = ring[q].used /\ ring'[q].usedIdx = ring[q].usedIdx
                           /\ ring'[q].chain = ring[q].chain
  <2>1. CASE ring' = ring
    BY <1>t, <2>1
  <2>2. CASE \E q \in {RX, TX} : Arm(q)
    <3>1. PICK p \in {RX, TX} : p \in Queues /\ ring' = [ring EXCEPT ![p].usedEvent = drv.last[p]]
      BY <2>2 DEF Arm
    <3>2. drv.last[p] \in Indices /\ ring[p] \in RingType
      BY <1>t, <3>1 DEF DriverType
    <3>3. [ring[p] EXCEPT !.usedEvent = drv.last[p]] \in RingType
      BY <3>2 DEF RingType
    <3>4. ring' = [ring EXCEPT ![p] = [ring[p] EXCEPT !.usedEvent = drv.last[p]]]
      BY <1>t, <3>1
    <3>5. ring' \in [Queues -> RingType]
      BY <1>t, <3>3, <3>4
    <3>6. ASSUME NEW q \in Queues
          PROVE  /\ ring'[q].avail = ring[q].avail /\ ring'[q].availIdx = ring[q].availIdx
                 /\ ring'[q].used = ring[q].used /\ ring'[q].usedIdx = ring[q].usedIdx
                 /\ ring'[q].chain = ring[q].chain
      <4>1. ring'[q] = IF q = p THEN [ring[p] EXCEPT !.usedEvent = drv.last[p]] ELSE ring[q]
        BY <1>t, <3>4
      <4>. QED
        BY <3>2, <4>1 DEF RingType
    <3>. QED
      BY <3>5, <3>6
  <2>3. ring' = ring \/ \E q \in {RX, TX} : Arm(q)
    BY DEF Mask, UnmaskAll, ProbeEnds, UnmaskEntry, TakeInterrupt, Kick, Rest, WriteMsgCtl, WriteEntry
  <2>. QED
    BY <2>1, <2>2, <2>3
<1>3. SharedType'
  BY <1>t, <1>u, <1>1, <1>2, SharedStep
<1>. QED
  BY <1>u, <1>a, <1>b, <1>1, <1>2, <1>3 DEF Calm, Untouched

(* The steps of the event loop that move no head.                          *)
LEMMA LoopCalm ==
  ASSUME RegisterInv, SharedType, ProbeInv, drv.phase # "reset",
         \/ ProcessActivateEvent \/ ProcessPasst \/ \E q \in Queues : ProcessQueueEvent(q)
         \/ TakeDeferred \/ ReadHeader \/ ReadBody \/ ReadNothing
         \/ PopNothing \/ EnableNotification \/ StillNothing \/ PopStray \/ Notify
  PROVE  Calm
<1>t. /\ ring \in [Queues -> RingType] /\ drv \in DriverType /\ loop \in LoopType /\ net \in NetType
      /\ Len(net.outbox) <= Room /\ dev \in Devices /\ queues \in [Queues -> QueueType] /\ loop.q \in Queues
  BY DEF SharedType, RegisterInv, LoopType
<1>u. dev' = dev /\ drv' = drv
  BY DEF ProcessActivateEvent, ProcessPasst, ProcessQueueEvent, TakeDeferred, ReadHeader, ReadBody, ReadNothing,
         PopNothing, EnableNotification, StillNothing, PopStray, Notify
<1>a. cc.active
  BY DEF ProcessActivateEvent, ProcessPasst, ProcessQueueEvent, TakeDeferred, ReadHeader, ReadBody, ReadNothing,
         PopNothing, EnableNotification, StillNothing, PopStray, Notify, ProbeInv
<1>b. 0 \in Queues /\ (dev = "net" => RX \in Queues)
  BY <1>t, QueuesFact DEF RX
<1>1. loop' \in LoopType
  <2>r. net.inbox # <<>> => Head(net.inbox) \in Int
    BY <1>t DEF NetType
  <2>0. /\ \A r \in LoopType : \A p \in {"wait", "read", "pop", "again", "publish", "notify"} : [r EXCEPT !.pc = p] \in LoopType
        /\ \A r \in LoopType : [r EXCEPT !.any = FALSE] \in LoopType
        /\ \A r \in LoopType : [r EXCEPT !.on = TRUE] \in LoopType
        /\ \A r \in LoopType : \A q \in Queues : [r EXCEPT !.q = q] \in LoopType
        /\ \A r \in LoopType : \A f \in Int : [r EXCEPT !.frame = f] \in LoopType
    BY DEF LoopType
  <2>1. CASE ProcessActivateEvent
    BY <1>t, <2>0, <2>1 DEF ProcessActivateEvent
  <2>2. CASE ProcessPasst
    BY <1>t, <1>b, <2>2 DEF ProcessPasst, LoopType
  <2>3. CASE \E q \in Queues : ProcessQueueEvent(q)
    BY <1>t, <2>3 DEF ProcessQueueEvent, LoopType
  <2>4. CASE TakeDeferred \/ ReadNothing \/ PopNothing \/ EnableNotification \/ StillNothing \/ PopStray
    BY <1>t, <2>0, <2>4 DEF TakeDeferred, ReadNothing, PopNothing, EnableNotification, StillNothing, PopStray
  <2>5. CASE ReadHeader
    BY <1>t, <2>5 DEF ReadHeader
  <2>6. CASE ReadBody
    BY <1>t, <2>r, <2>6 DEF ReadBody, LoopType
  <2>7. CASE Notify
    BY <1>t, <2>7 DEF Notify, LoopType
  <2>. QED
    BY <2>1, <2>2, <2>3, <2>4, <2>5, <2>6, <2>7
<1>2. net' \in NetType /\ Len(net'.outbox) <= Room
  <2>1. CASE \E q \in Queues : ProcessQueueEvent(q)
    <3>1. net' = net \/ net' = SendFrom(net.pending, <<>>) \/ net' = [net EXCEPT !.pending = <<>>]
      BY <2>1 DEF ProcessQueueEvent, FinishPendingWrite
    <3>2. net.pending \in Seq(Int) /\ <<>> \in Seq(Int)
      BY <1>t DEF NetType
    <3>3. SendFrom(net.pending, <<>>) \in NetType /\ Len(SendFrom(net.pending, <<>>).outbox) <= Room
      BY <1>t, <3>2, SendFact
    <3>4. [net EXCEPT !.pending = <<>>] \in NetType /\ [net EXCEPT !.pending = <<>>].outbox = net.outbox
      BY <1>t, <3>2 DEF NetType
    <3>. QED
      BY <1>t, <3>1, <3>3, <3>4
  <2>2. CASE ReadHeader \/ ReadBody
    <3>1. net.inbox \in Seq(Int) /\ net.inbox # <<>>
      BY <1>t, <2>2 DEF NetType, ReadHeader, ReadBody
    <3>2. Tail(net.inbox) \in Seq(Int) /\ Head(net.inbox) \in Int
      BY <3>1
    <3>3. \E r \in Int : net' = [net EXCEPT !.inbox = Tail(net.inbox), !.rx = r]
      <4>1. 0 \in Int
        OBVIOUS
      <4>2. CASE ReadHeader
        BY <3>2, <4>2, Zenon DEF ReadHeader
      <4>3. CASE ReadBody
        BY <4>1, <4>3, Zenon DEF ReadBody
      <4>. QED
        BY <2>2, <4>2, <4>3
    <3>. QED
      BY <1>t, <3>2, <3>3 DEF NetType
  <2>3. (\E q \in Queues : ProcessQueueEvent(q)) \/ ReadHeader \/ ReadBody \/ net' = net
    BY DEF ProcessActivateEvent, ProcessPasst, TakeDeferred, ReadNothing, PopNothing, EnableNotification, StillNothing, PopStray, Notify
  <2>. QED
    BY <1>t, <2>1, <2>2, <2>3
<1>3. /\ ring' \in [Queues -> RingType]
      /\ \A q \in Queues : /\ ring'[q].avail = ring[q].avail /\ ring'[q].availIdx = ring[q].availIdx
                           /\ ring'[q].used = ring[q].used /\ ring'[q].usedIdx = ring[q].usedIdx
                           /\ ring'[q].chain = ring[q].chain
  <2>1. CASE ring' = ring
    BY <1>t, <2>1
  <2>2. CASE EnableNotification
    <3>. DEFINE p == loop.q
    <3>1. ring' = [ring EXCEPT ![p] = [ring[p] EXCEPT !.availEvent = queues[p].nextAvail]]
      BY <1>t, <2>2 DEF EnableNotification
    <3>2. queues[p].nextAvail \in Indices /\ ring[p] \in RingType
      BY <1>t DEF QueueType
    <3>3. [ring[p] EXCEPT !.availEvent = queues[p].nextAvail] \in RingType
      BY <3>2 DEF RingType
    <3>4. ring' \in [Queues -> RingType]
      BY <1>t, <3>1, <3>3
    <3>5. ASSUME NEW q \in Queues
          PROVE  /\ ring'[q].avail = ring[q].avail /\ ring'[q].availIdx = ring[q].availIdx
                 /\ ring'[q].used = ring[q].used /\ ring'[q].usedIdx = ring[q].usedIdx
                 /\ ring'[q].chain = ring[q].chain
      <4>1. ring'[q] = IF q = p THEN [ring[p] EXCEPT !.availEvent = queues[p].nextAvail] ELSE ring[q]
        BY <1>t, <3>1
      <4>. QED
        BY <3>2, <4>1 DEF RingType
    <3>. QED
      BY <3>4, <3>5
  <2>3. ring' = ring \/ EnableNotification
    BY DEF ProcessActivateEvent, ProcessPasst, ProcessQueueEvent, TakeDeferred, ReadHeader, ReadBody, ReadNothing,
           PopNothing, StillNothing, PopStray, Notify
  <2>. QED
    BY <2>1, <2>2, <2>3
<1>4. \A q \in Queues : /\ queues'[q].nextAvail = queues[q].nextAvail /\ queues'[q].nextUsed = queues[q].nextUsed
                        /\ queues'[q].size = queues[q].size
  <2>1. queues' = queues \/ queues' = [queues EXCEPT ![loop.q].added = 0]
    BY DEF ProcessActivateEvent, ProcessPasst, ProcessQueueEvent, TakeDeferred, ReadHeader, ReadBody, ReadNothing,
           PopNothing, EnableNotification, StillNothing, PopStray, Notify
  <2>2. ASSUME NEW q \in Queues
        PROVE  /\ queues'[q].nextAvail = queues[q].nextAvail /\ queues'[q].nextUsed = queues[q].nextUsed
               /\ queues'[q].size = queues[q].size
    <3>1. queues'[q] = queues[q] \/ queues'[q] = [queues[q] EXCEPT !.added = 0]
      BY <1>t, <2>1
    <3>. QED
      BY <1>t, <3>1 DEF QueueType
  <2>. QED
    BY <2>2
<1>5. SharedType'
  BY <1>t, <1>u, <1>1, <1>2, <1>3, SharedStep
<1>6. Untouched \/ ReadHeader \/ ReadBody
  <2>1. CASE \E q \in Queues : ProcessQueueEvent(q)
    <3>1. loop'.frame = loop.frame
      BY <1>t, <2>1 DEF ProcessQueueEvent, LoopType
    <3>2. net' = net \/ net' = SendFrom(net.pending, <<>>) \/ net' = [net EXCEPT !.pending = <<>>]
      BY <2>1 DEF ProcessQueueEvent, FinishPendingWrite
    <3>3. \E o, p : net' = net \/ net' = [net EXCEPT !.outbox = o, !.pending = p] \/ net' = [net EXCEPT !.pending = p]
      BY <3>2, Zenon DEF SendFrom
    <3>. QED
      BY <1>t, <3>1, <3>3 DEF NetType, Untouched
  <2>2. CASE ~ReadHeader /\ ~ReadBody /\ ~\E q \in Queues : ProcessQueueEvent(q)
    BY <1>t, <2>2 DEF ProcessActivateEvent, ProcessPasst, TakeDeferred, ReadNothing, PopNothing, EnableNotification,
                      StillNothing, PopStray, Notify, LoopType, Untouched
  <2>. QED
    BY <2>1, <2>2
<1>. QED
  BY <1>u, <1>a, <1>3, <1>4, <1>5, <1>6 DEF Calm

(* passt moves no head.                                                    *)
LEMMA PasstCalm == ASSUME RegisterInv, SharedType, ProbeInv, drv.phase # "reset", Passt PROVE Calm
<1>t. net \in NetType /\ Len(net.outbox) <= Room
  BY DEF SharedType
<1>u. dev' = dev /\ UNCHANGED <<queues, ring, drv, loop>>
  BY DEF Passt, PasstSends, PasstTakes, PasstExits
<1>r. Room \in Nat
  BY VirtioAssumption
<1>1. net' \in NetType /\ Len(net'.outbox) <= Room
  <2>1. CASE PasstSends
    <3>1. PICK b \in Nat, s \in Nat, f \in Int : net' = [net EXCEPT !.begun = b, !.sent = s, !.inbox = Append(net.inbox, f)]
      <4>1. net.begun \in Nat /\ net.sent \in Nat
        BY <1>t DEF NetType
      <4>2. net.begun + 1 \in Nat /\ net.sent + 1 \in Nat /\ -(net.begun + 1) \in Int /\ net.begun \in Int
        BY <4>1
      <4>3. \/ net' = [net EXCEPT !.begun = net.begun + 1, !.sent = net.sent, !.inbox = Append(net.inbox, -(net.begun + 1))]
            \/ net' = [net EXCEPT !.begun = net.begun, !.sent = net.sent + 1, !.inbox = Append(net.inbox, net.begun)]
        BY <1>t, <2>1 DEF PasstSends, NetType
      <4>. QED
        BY <4>1, <4>2, <4>3
    <3>2. Append(net.inbox, f) \in Seq(Int)
      BY <1>t DEF NetType
    <3>. QED
      BY <1>t, <3>1, <3>2 DEF NetType
  <2>2. CASE PasstTakes
    <3>1. net.outbox \in Seq(Int) /\ net.outbox # <<>> /\ net.seen \in Seq(Int)
      BY <1>t, <2>2 DEF NetType, PasstTakes
    <3>2. Tail(net.outbox) \in Seq(Int) /\ Len(Tail(net.outbox)) <= Len(net.outbox) /\ Head(net.outbox) \in Int
      BY <3>1
    <3>3. Append(net.seen, Head(net.outbox)) \in Seq(Int)
      BY <3>1, <3>2
    <3>4. net' = [net EXCEPT !.outbox = Tail(net.outbox), !.seen = Append(net.seen, Head(net.outbox))]
      BY <2>2 DEF PasstTakes
    <3>5. net' \in NetType /\ net'.outbox = Tail(net.outbox)
      BY <1>t, <3>2, <3>3, <3>4 DEF NetType
    <3>6. Len(net.outbox) \in Nat /\ Len(Tail(net.outbox)) \in Nat
      BY <3>1, <3>2
    <3>. QED
      BY <1>t, <1>r, <3>2, <3>5, <3>6
  <2>3. CASE PasstExits
    <3>1. net' = [net EXCEPT !.open = FALSE, !.outbox = <<>>]
      BY <2>3 DEF PasstExits
    <3>2. <<>> \in Seq(Int) /\ Len(<<>>) = 0
      OBVIOUS
    <3>3. net' \in NetType /\ net'.outbox = <<>>
      BY <1>t, <3>1, <3>2 DEF NetType
    <3>. QED
      BY <1>r, <3>2, <3>3
  <2>. QED
    BY <2>1, <2>2, <2>3 DEF Passt
<1>2. SharedType'
  BY <1>u, <1>1, SharedStep DEF SharedType
<1>3. Untouched \/ PasstSends
  BY <1>t, <1>u DEF Passt, PasstTakes, PasstExits, NetType, Untouched
<1>. QED
  BY <1>u, <1>2, <1>3 DEF Calm, ProbeInv

(* A step moves no head, or is one of five.                                *)
LEMMA Steps ==
  ASSUME RegisterInv, SharedType, ProbeInv, [Next]_vars, drv.phase # "reset"
  PROVE  \/ Calm
         \/ cc.active /\ \E q \in Queues : \E h : \E c \in ChainOf(q) : Publish(q, h, c)
         \/ cc.active /\ Available(loop.q) # 0 /\ Serve
         \/ cc.active /\ \E q \in Queues : Collect(q)
         \/ cc.active /\ AdvanceUsed
         \/ Reset
<1>d. dev \in Devices
  BY DEF RegisterInv
<1>l. Live => cc.active
  BY DEF Live, ProbeInv
<1>1. CASE Probe
  <2>1. CASE ProbeStatus \/ ProbeReady \/ ProbeAgain
    <3>1. PICK n \in 0..4 : WriteStatus(n)
      BY <2>1 DEF ProbeStatus, ProbeReady, ProbeAgain
    <3>2. UNCHANGED <<ring, drv, loop, net>>
      BY <3>1 DEF WriteStatus
    <3>. QED
      BY <3>1, <3>2, RegistersCalm
  <2>2. CASE ProbeFeatures \/ ProbeFails
    <3>1. (WriteFeatures \/ WriteFailed) /\ UNCHANGED <<ring, drv, loop, net>>
      BY <2>2 DEF ProbeFeatures, ProbeFails, WriteFeatures, WriteFailed
    <3>. QED
      BY <3>1, RegistersCalm
  <2>3. CASE ProbeQueue
    <3>1. Sizes[dev] \subseteq Nat
      BY <1>d, VirtioAssumption
    <3>2. PICK q \in Queues : \/ \E n \in Nat : WriteQueueSize(q, n)
                              \/ \E p \in Parts[dev], a \in Addresses : WriteQueueAddress(q, p, a)
                              \/ WriteQueueEnable(q)
      BY <2>3, <3>1 DEF ProbeQueue, Addresses
    <3>3. UNCHANGED <<ring, drv, loop, net>>
      BY <3>2 DEF WriteQueueSize, WriteQueueAddress, WriteQueueEnable, UpdateQueueField
    <3>. QED
      BY <3>2, <3>3, RegistersCalm
  <2>4. CASE ProbeVectors \/ ProbeMsix
    <3>1. UNCHANGED <<ring, drv, loop, net, dev, queues>>
      BY <2>4 DEF ProbeVectors, ProbeMsix, WriteVector, WriteConfigVector, WriteMsgCtl, WriteEntry
    <3>. QED
      BY <3>1, RegistersCalm
  <2>5. CASE ProbeEnds
    BY <2>5, GuestCalm
  <2>. QED
    BY <1>1, <2>1, <2>2, <2>3, <2>4, <2>5 DEF Probe
<1>2. CASE Driver
  <2>1. CASE Mask \/ UnmaskAll \/ (\E v \in 0..2 : UnmaskEntry(v) \/ TakeInterrupt(v))
             \/ \E q \in {RX, TX} : Kick(q) \/ Arm(q) \/ Rest(q)
    BY <2>1, GuestCalm
  <2>2. CASE \E q \in {RX, TX} : Collect(q)
    BY <2>2, <1>l DEF Collect
  <2>3. CASE Reset
    BY <2>3
  <2>4. CASE SetUpAgain
    BY <2>4 DEF SetUpAgain
  <2>5. CASE Request
    <3>0. PICK h \in DOMAIN Chains : dev = "block" /\ \E c \in Chains[h] : Publish(0, h, c)
      BY <2>5 DEF Request
    <3>1. PICK c \in Chains[h] : dev = "block" /\ Publish(0, h, c)
      BY <3>0
    <3>2. 0 \in Queues /\ c \in ChainOf(0) /\ cc.active
      BY <1>d, <1>l, <3>1, QueuesFact, VirtioAssumption DEF ChainOf, Publish
    <3>. QED
      BY <3>1, <3>2
  <2>6. CASE OfferBuffer
    <3>1. PICK h : dev = "net" /\ Publish(RX, h, 0)
      BY <2>6 DEF OfferBuffer
    <3>2. RX \in Queues /\ 0 \in ChainOf(RX) /\ cc.active
      BY <1>d, <1>l, <3>1, QueuesFact DEF ChainOf, Publish
    <3>. QED
      BY <3>1, <3>2, Zenon
  <2>7. CASE SendFrame
    <3>1. PICK h : dev = "net" /\ Publish(TX, h, drv.sent + 1)
      BY <2>7 DEF SendFrame
    <3>2. drv.sent \in Nat
      BY DEF SharedType, DriverType
    <3>3. TX \in Queues /\ drv.sent + 1 \in ChainOf(TX) /\ cc.active
      BY <1>d, <1>l, <3>1, <3>2, QueuesFact DEF ChainOf, Publish
    <3>. QED
      BY <3>1, <3>3, Zenon
  <2>. QED
    BY <1>2, <2>1, <2>2, <2>3, <2>4, <2>5, <2>6, <2>7 DEF Driver
<1>3. CASE Device
  <2>1. CASE Pop \/ PopAgain
    BY <2>1 DEF Pop, PopAgain, ProbeInv
  <2>2. CASE AdvanceUsed
    BY <2>2 DEF AdvanceUsed, ProbeInv
  <2>3. CASE ~Pop /\ ~PopAgain /\ ~AdvanceUsed
    BY <1>3, <2>3, LoopCalm DEF Device, Working
  <2>. QED
    BY <2>1, <2>2, <2>3
<1>4. CASE Passt
  BY <1>4, PasstCalm
<1>5. CASE UNCHANGED vars
  <2>1. UNCHANGED <<ring, drv, loop, net, dev, queues>>
    BY <1>5 DEF vars
  <2>. QED
    BY <2>1, RegistersCalm
<1>. QED
  BY <1>1, <1>2, <1>3, <1>4, <1>5 DEF Next

(* The windows are empty when the device becomes active.                   *)
LEMMA EmptyWindows ==
  ASSUME dev \in Devices, NEW q \in Queues, ring'[q].availIdx = 0, ring'[q].usedIdx = 0, queues'[q].nextAvail = 0,
         queues'[q].nextUsed = 0, drv'.out[q] = {}, drv'.last[q] = 0
  PROVE  Windows(q)'
<1>1. 0 \in Indices
  BY ModulusFact DEF Indices
<1>2. Minus(0, 0) = 0
  BY <1>1, Distances, Zenon
<1>3. Waiting(q)' = 0 /\ Given(q)' = 0
  BY <1>2 DEF Waiting, Given
<1>4. Cardinality({}) = 0
  BY FS_EmptySet
<1>5. 0..(0 - 1) = {}
  OBVIOUS
<1>. QED
  BY <1>2, <1>3, <1>4, <1>5 DEF Windows

(* The rings stay in order.                                                *)
LEMMA RingStep == RegisterInv /\ RingInv /\ [Next]_vars => RingInv'
<1>. SUFFICES ASSUME RegisterInv, RingInv, [Next]_vars, drv'.phase # "reset" PROVE RingInv'
  BY DEF RingInv
<1>p. drv.phase # "reset"
  BY ResetStays
<1>t. SharedType /\ ProbeInv /\ (cc.active => \A q \in Queues : Windows(q)) /\ dev \in Devices
  BY <1>p DEF RingInv, RegisterInv
<1>d. dev' = dev /\ Queues' = Queues
  BY <1>t, Writers DEF Queues
<1>a. cc.active => cc'.active
  BY ActiveStays
<1>g. ASSUME NEW q \in Queues, cc.active PROVE Given(q) \in Nat
  BY <1>g, <1>t, WindowFacts
<1>act. ASSUME cc.active, SharedType', \A q \in Queues : Windows(q)' PROVE RingInv'
  BY <1>act, <1>a, <1>d DEF RingInv, ProbeInv
<1>1. CASE Calm
  <2>1. SharedType'
    BY <1>1 DEF Calm
  <2>2. CASE cc.active
    <3>1. ASSUME NEW q \in Queues PROVE Windows(q)'
      BY <1>1, <1>d, <1>g, <1>t, <2>2, WindowsSame DEF Calm
    <3>. QED
      BY <1>act, <2>1, <2>2, <3>1
  <2>3. CASE ~cc.active
    <3>1. /\ drv'.phase # "live" /\ loop'.pc = "wait" /\ ~loop'.on
          /\ \A q \in Queues : /\ ring'[q].availIdx = 0 /\ ring'[q].usedIdx = 0
                               /\ queues'[q].nextAvail = 0 /\ queues'[q].nextUsed = 0
                               /\ drv'.out[q] = {} /\ drv'.last[q] = 0
      BY <1>1, <1>t, <2>3 DEF Calm, ProbeInv
    <3>2. \A q \in Queues : Windows(q)'
      BY <1>t, <3>1, EmptyWindows
    <3>3. ProbeInv'
      BY <1>d, <3>1 DEF ProbeInv
    <3>. QED
      BY <1>d, <2>1, <3>2, <3>3 DEF RingInv
  <2>. QED
    BY <2>2, <2>3
<1>2. ASSUME cc.active, NEW q \in Queues, NEW h, NEW c \in ChainOf(q), Publish(q, h, c) PROVE RingInv'
  <2>1. /\ SharedType' /\ Elsewhere(q) /\ queues' = queues
        /\ drv'.out = [drv.out EXCEPT ![q] = @ \cup {h}] /\ drv'.last = drv.last
    BY <1>2, <1>t, PublishEffect, Zenon
  <2>2. Windows(q)'
    BY <1>2, <1>t, PublishWindows
  <2>3. ASSUME NEW p \in Queues, p # q PROVE Windows(p)'
    <3>1. p \in {RX, TX} /\ drv.out \in [{RX, TX} -> SUBSET Slots]
      BY <1>t, QueuesFact DEF SharedType, DriverType
    <3>2. ring'[p] = ring[p] /\ queues'[p] = queues[p] /\ drv'.out[p] = drv.out[p] /\ drv'.last[p] = drv.last[p]
      BY <2>1, <2>3, <3>1 DEF Elsewhere
    <3>. QED
      BY <1>2, <1>d, <1>g, <1>t, <3>2, WindowsSame
  <2>. QED
    BY <1>2, <1>act, <2>1, <2>2, <2>3
<1>3. CASE cc.active /\ Available(loop.q) # 0 /\ Serve
  <2>0. PICK q \in Queues : q = loop.q
    BY <1>t DEF SharedType, LoopType
  <2>w. Windows(q) /\ Windows(loop.q)
    BY <1>3, <1>t, <2>0
  <2>1. SharedType' /\ Elsewhere(q) /\ drv' = drv
    <3>1. SharedType' /\ Elsewhere(loop.q) /\ drv' = drv
      BY <1>3, <1>t, <2>w, ServeEffect, Zenon
    <3>. QED
      BY <2>0, <3>1 DEF Elsewhere
  <2>2. Windows(q)'
    BY <1>3, <1>t, <2>0, <2>w, ServeWindows
  <2>3. ASSUME NEW p \in Queues, p # q PROVE Windows(p)'
    <3>1. ring'[p] = ring[p] /\ queues'[p] = queues[p]
      BY <2>1, <2>3 DEF Elsewhere
    <3>. QED
      BY <1>3, <1>d, <1>g, <1>t, <2>1, <3>1, WindowsSame
  <2>. QED
    BY <1>3, <1>act, <2>1, <2>2, <2>3
<1>4. ASSUME cc.active, NEW q \in Queues, Collect(q) PROVE RingInv'
  <2>1. /\ SharedType' /\ Elsewhere(q) /\ queues' = queues
        /\ drv'.last = [drv.last EXCEPT ![q] = Plus(@, 1)]
        /\ drv'.out = [drv.out EXCEPT ![q] = @ \ {Id(q, 0)}]
    BY <1>4, <1>t, CollectEffect, Zenon
  <2>2. Windows(q)'
    BY <1>4, <1>t, CollectWindows
  <2>3. ASSUME NEW p \in Queues, p # q PROVE Windows(p)'
    <3>1. p \in {RX, TX} /\ drv.out \in [{RX, TX} -> SUBSET Slots] /\ drv.last \in [{RX, TX} -> Indices]
      BY <1>t, QueuesFact DEF SharedType, DriverType
    <3>2. ring'[p] = ring[p] /\ queues'[p] = queues[p] /\ drv'.out[p] = drv.out[p] /\ drv'.last[p] = drv.last[p]
      BY <2>1, <2>3, <3>1 DEF Elsewhere
    <3>. QED
      BY <1>4, <1>d, <1>g, <1>t, <3>2, WindowsSame
  <2>. QED
    BY <1>4, <1>act, <2>1, <2>2, <2>3
<1>5. CASE cc.active /\ AdvanceUsed
  <2>0. PICK q \in Queues : q = loop.q
    BY <1>t DEF SharedType, LoopType
  <2>t. /\ ring \in [Queues -> RingType] /\ drv \in DriverType /\ loop \in LoopType /\ net \in NetType
        /\ Len(net.outbox) <= Room /\ queues \in [Queues -> QueueType]
    BY <1>t DEF SharedType, RegisterInv
  <2>1. /\ ring' = [ring EXCEPT ![q] = [ring[q] EXCEPT !.usedIdx = queues[q].nextUsed]]
        /\ loop' = [loop EXCEPT !.pc = "notify"] /\ queues' = queues /\ drv' = drv /\ net' = net
    BY <1>5, <2>0, <2>t DEF AdvanceUsed
  <2>2. queues[q].nextUsed \in Indices /\ ring[q] \in RingType
    BY <2>t DEF QueueType
  <2>3. [ring[q] EXCEPT !.usedIdx = queues[q].nextUsed] \in RingType
    BY <2>2 DEF RingType
  <2>4. ring' \in [Queues -> RingType]
    BY <2>t, <2>1, <2>3
  <2>5. loop' \in LoopType
    BY <2>t, <2>1 DEF LoopType
  <2>6. SharedType'
    BY <1>d, <2>t, <2>1, <2>4, <2>5, SharedStep
  <2>7. ASSUME NEW p \in Queues PROVE Windows(p)'
    <3>1. ring'[p] = IF p = q THEN [ring[q] EXCEPT !.usedIdx = queues[q].nextUsed] ELSE ring[p]
      BY <2>t, <2>1
    <3>2. /\ ring'[p].avail = ring[p].avail /\ ring'[p].availIdx = ring[p].availIdx /\ ring'[p].used = ring[p].used
          /\ ring'[p].chain = ring[p].chain /\ ring'[p].usedIdx \in {ring[p].usedIdx, queues[p].nextUsed}
      BY <2>2, <3>1 DEF RingType
    <3>. QED
      BY <1>5, <1>d, <1>g, <1>t, <2>1, <3>2, WindowsSame
  <2>. QED
    BY <1>5, <1>act, <2>6, <2>7
<1>6. ~Reset
  BY DEF Reset, NewDriver
<1>. QED
  BY <1>1, <1>2, <1>3, <1>4, <1>5, <1>6, <1>p, <1>t, Steps

(* The numbers the stream is described with.                               *)
LEMMA StreamFacts == ASSUME SharedType, StreamInv
  PROVE  /\ net.begun \in Nat /\ net.sent \in Nat /\ net.inbox \in Seq(Int) /\ Len(net.inbox) \in Nat
         /\ Read \in Nat /\ Delivered \in Nat /\ Delivered <= net.sent /\ loop.frame \in Nat
         /\ loop.frame # 0 => loop.frame = Delivered + 1
<1>1. net.begun \in Nat /\ net.sent \in Nat /\ net.inbox \in Seq(Int) /\ Len(net.inbox) \in Nat /\ loop.frame \in Int
  BY DEF SharedType, NetType, LoopType
<1>2. Read \in Nat /\ Read <= 2 * net.sent + 1
  BY <1>1 DEF StreamInv, Read
<1>3. Read \div 2 \in Nat /\ Read \div 2 <= net.sent
  BY <1>1, <1>2
<1>. QED
  BY <1>1, <1>2, <1>3 DEF StreamInv, Delivered

(* passt writes words one after the other, and the device reads them so.   *)
LEMMA StreamStep ==
  ASSUME SharedType, StreamInv, dev' = dev, Untouched \/ ReadHeader \/ ReadBody \/ PasstSends
  PROVE  StreamInv' /\ Delivered' = Delivered
<1>t. /\ net.begun \in Nat /\ net.sent \in Nat /\ net.inbox \in Seq(Int) /\ Len(net.inbox) \in Nat
      /\ Read \in Nat /\ loop.frame \in Nat
  BY StreamFacts
<1>n. net \in NetType /\ loop \in LoopType
  BY DEF SharedType
<1>s. /\ net.begun \in {net.sent, net.sent + 1} /\ (dev # "net" => net.begun = 0)
      /\ \A i \in 1..Len(net.inbox) : net.inbox[i] = Word(Read + i)
      /\ net.rx = 0 <=> Read % 2 = 0
      /\ loop.frame # 0 => loop.frame = Read \div 2 /\ loop.frame > 0
  BY DEF StreamInv
<1>1. CASE Untouched
  <2>1. Read' = Read /\ Delivered' = Delivered
    BY <1>1 DEF Untouched, Read, Delivered
  <2>. QED
    BY <1>1, <1>s, <1>t, <2>1 DEF StreamInv, Untouched
<1>2. CASE ReadHeader \/ ReadBody
  <2>. DEFINE k == Len(net.inbox)
  <2>1. k >= 1 /\ Len(Tail(net.inbox)) = k - 1 /\ \A i \in 1..(k - 1) : Tail(net.inbox)[i] = net.inbox[i + 1]
    <3>1. net.inbox # <<>>
      BY <1>2 DEF ReadHeader, ReadBody
    <3>. QED
      BY <1>t, <3>1
  <2>2. Head(net.inbox) = Word(Read + 1)
    <3>1. Head(net.inbox) = net.inbox[1] /\ 1 \in 1..k
      BY <1>t, <2>1
    <3>. QED
      BY <1>s, <3>1
  <2>3. net'.inbox = Tail(net.inbox) /\ net'.begun = net.begun /\ net'.sent = net.sent
    BY <1>2, <1>n DEF ReadHeader, ReadBody, NetType
  <2>4. Read' = Read + 1
    BY <1>t, <2>1, <2>3 DEF Read
  <2>5. \A i \in 1..Len(net'.inbox) : net'.inbox[i] = Word(Read' + i)
    <3>. TAKE i \in 1..Len(net'.inbox)
    <3>1. i \in 1..(k - 1) /\ i + 1 \in 1..k
      BY <2>1, <2>3, <1>t
    <3>2. net'.inbox[i] = Word(Read + (i + 1))
      BY <1>s, <2>1, <2>3, <3>1
    <3>3. Read + (i + 1) = Read' + i
      BY <1>t, <2>4, <3>1
    <3>. QED
      BY <3>2, <3>3
  <2>6. CASE ReadHeader
    <3>1. loop' = loop /\ loop.frame = 0 /\ net.rx = 0 /\ net'.rx = Head(net.inbox)
      BY <1>n, <2>6 DEF ReadHeader, NetType
    <3>2. Read % 2 = 0 /\ (Read + 1) % 2 = 1 /\ (Read + 1) \div 2 = Read \div 2
      BY <1>s, <1>t, <3>1
    <3>3. Head(net.inbox) # 0
      <4>1. Word(Read + 1) = -((Read + 1 + 1) \div 2)
        BY <3>2 DEF Word
      <4>2. (Read + 1 + 1) \div 2 >= 1
        BY <1>t
      <4>. QED
        BY <1>t, <2>2, <4>1, <4>2
    <3>4. Delivered' = Delivered
      BY <2>4, <3>1, <3>2 DEF Delivered
    <3>5. net'.rx # 0 /\ Read' % 2 # 0 /\ Read' \in Nat /\ loop'.frame = 0
      BY <1>t, <2>4, <3>1, <3>2, <3>3
    <3>6. net'.begun \in {net'.sent, net'.sent + 1} /\ (dev' # "net" => net'.begun = 0)
      BY <1>s, <2>3
    <3>. QED
      BY <2>5, <3>4, <3>5, <3>6 DEF StreamInv
  <2>7. CASE ReadBody
    <3>1. loop.frame = 0 /\ net.rx # 0 /\ net'.rx = 0 /\ loop'.frame = Head(net.inbox)
      BY <1>n, <2>7 DEF ReadBody, NetType, LoopType
    <3>2. Read % 2 = 1 /\ (Read + 1) % 2 = 0 /\ (Read + 1) \div 2 = Read \div 2 + 1 /\ Read \div 2 \in Nat
      BY <1>s, <1>t, <3>1
    <3>3. Head(net.inbox) = (Read + 1) \div 2
      BY <2>2, <3>2 DEF Word
    <3>4. Delivered' = Delivered
      BY <2>4, <3>1, <3>2, <3>3 DEF Delivered
    <3>5. net'.rx = 0 /\ Read' % 2 = 0 /\ Read' \in Nat /\ loop'.frame = Read' \div 2 /\ loop'.frame > 0
      BY <1>t, <2>4, <3>1, <3>2, <3>3
    <3>6. net'.begun \in {net'.sent, net'.sent + 1} /\ (dev' # "net" => net'.begun = 0)
      BY <1>s, <2>3
    <3>. QED
      BY <2>5, <3>4, <3>5, <3>6 DEF StreamInv
  <2>. QED
    BY <1>2, <2>6, <2>7
<1>3. CASE PasstSends
  <2>. DEFINE k == Len(net.inbox)
              x == IF net.begun = net.sent THEN -(net.begun + 1) ELSE net.begun
  <2>1. /\ net'.inbox = Append(net.inbox, x) /\ net'.rx = net.rx /\ loop' = loop /\ dev = "net"
        /\ net'.begun \in {net'.sent, net'.sent + 1} /\ net'.begun + net'.sent = net.begun + net.sent + 1
    <3>1. CASE net.begun = net.sent
      <4>1. net' = [net EXCEPT !.begun = net.begun + 1, !.inbox = Append(net.inbox, -(net.begun + 1))]
        BY <1>3, <3>1 DEF PasstSends
      <4>2. net'.begun = net.begun + 1 /\ net'.sent = net.sent /\ net'.inbox = Append(net.inbox, x) /\ net'.rx = net.rx
        BY <1>n, <3>1, <4>1 DEF NetType
      <4>3. loop' = loop /\ dev = "net"
        BY <1>3 DEF PasstSends
      <4>. HIDE DEF x
      <4>. QED
        BY <1>t, <3>1, <4>2, <4>3
    <3>2. CASE net.begun # net.sent
      <4>1. net' = [net EXCEPT !.sent = net.sent + 1, !.inbox = Append(net.inbox, net.begun)]
        BY <1>3, <3>2 DEF PasstSends
      <4>2. net'.begun = net.begun /\ net'.sent = net.sent + 1 /\ net'.inbox = Append(net.inbox, x) /\ net'.rx = net.rx
        BY <1>n, <3>2, <4>1 DEF NetType
      <4>3. loop' = loop /\ dev = "net"
        BY <1>3 DEF PasstSends
      <4>. HIDE DEF x
      <4>. QED
        BY <1>s, <1>t, <3>2, <4>2, <4>3
    <3>. QED
      BY <3>1, <3>2
  <2>2. x \in Int /\ x = Word(net.begun + net.sent + 1)
    <3>1. CASE net.begun = net.sent
      <4>1. (net.begun + net.sent + 1) % 2 = 1 /\ (net.begun + net.sent + 1 + 1) \div 2 = net.begun + 1
        BY <1>t, <3>1
      <4>. QED
        BY <1>t, <3>1, <4>1 DEF Word
    <3>2. CASE net.begun = net.sent + 1
      <4>1. (net.begun + net.sent + 1) % 2 = 0 /\ (net.begun + net.sent + 1) \div 2 = net.begun
        BY <1>t, <3>2
      <4>2. x = net.begun
        BY <1>t, <3>2
      <4>. HIDE DEF x
      <4>3. Word(net.begun + net.sent + 1) = net.begun
        BY <4>1 DEF Word
      <4>. QED
        BY <1>t, <4>2, <4>3
    <3>. QED
      BY <1>s, <3>1, <3>2
  <2>. HIDE DEF x
  <2>3. /\ Len(net'.inbox) = k + 1 /\ \A i \in 1..k : net'.inbox[i] = net.inbox[i]
        /\ net'.inbox[k + 1] = x
    BY <1>t, <2>1, <2>2
  <2>4. Read' = Read
    <3>. DEFINE b == net'.begun + net'.sent
                w == Len(net'.inbox)
    <3>1. b = net.begun + net.sent + 1 /\ w = k + 1
      BY <2>1, <2>3
    <3>2. Read' = b - w
      BY Zenon DEF Read
    <3>. HIDE DEF b, w
    <3>. QED
      BY <1>t, <3>1, <3>2 DEF Read
  <2>5. \A i \in 1..Len(net'.inbox) : net'.inbox[i] = Word(Read' + i)
    <3>. TAKE i \in 1..Len(net'.inbox)
    <3>1. CASE i \in 1..k
      BY <1>s, <2>3, <2>4, <3>1
    <3>2. CASE i = k + 1
      <4>0. Len(net.inbox) = k /\ Read = (net.begun + net.sent) - Len(net.inbox)
        BY Zenon DEF Read, k
      <4>1. Read' + i = net.begun + net.sent + 1
        BY <1>t, <2>4, <3>2, <4>0, SMT
      <4>. QED
        BY <2>2, <2>3, <3>2, <4>1
    <3>. QED
      BY <1>t, <2>3, <3>1, <3>2
  <2>6. Delivered' = Delivered /\ (net'.rx = 0 <=> Read' % 2 = 0) /\ Read' \in Nat
        /\ (loop'.frame # 0 => loop'.frame = Read' \div 2 /\ loop'.frame > 0)
    BY <1>s, <1>t, <2>1, <2>4 DEF Delivered
  <2>. QED
    BY <2>1, <2>5, <2>6 DEF StreamInv
<1>. QED
  BY <1>1, <1>2, <1>3

(* What was delivered is as it was when no entry and nothing received      *)
(* changed.                                                                *)
LEMMA PipeSame ==
  ASSUME dev' = dev, Queues' = Queues, Delivered' = Delivered, drv'.got = drv.got, GotInv, PipeInv, dev = "net" => RX \in Queues,
         \A q \in Queues : Given(q)' = Given(q) /\ \A i : Entry(q, i)' = Entry(q, i)
  PROVE  GotInv' /\ PipeInv'
<1>1. GotInv'
  BY DEF GotInv
<1>2. ASSUME NEW q \in Queues, NEW i \in 0..(Given(q) - 1) PROVE EntryInv(q, i)'
  <2>1. EntryInv(q, i) /\ IsRx(q)' = IsRx(q) /\ \A j : Entry(q, j)' = Entry(q, j)
    BY DEF PipeInv, IsRx
  <2>. QED
    BY <2>1 DEF EntryInv
<1>3. ASSUME dev = "net", NEW n \in 1..Delivered \ Big
      PROVE  n \in Range(drv'.got) \/ \E i \in 0..(Given(RX)' - 1) : Entry(RX, i)'.len = n
  <2>1. RX \in Queues
    BY <1>3
  <2>2. Given(RX)' = Given(RX) /\ \A i : Entry(RX, i)' = Entry(RX, i)
    BY <2>1
  <2>. QED
    BY <1>3, <2>2 DEF PipeInv
<1>4. \A q \in Queues : Given(q)' = Given(q)
  OBVIOUS
<1>. QED
  BY <1>1, <1>2, <1>3, <1>4 DEF PipeInv

(* A frame that is served is the last one in the used ring.                *)
LEMMA ServeFrames ==
  ASSUME RegisterInv, SharedType, cc.active, NEW q \in Queues, q = loop.q, Windows(q), Available(q) # 0, Serve,
         StreamInv, GotInv, PipeInv
  PROVE  StreamInv' /\ GotInv' /\ PipeInv'
<1>d. /\ dev' = dev /\ Queues' = Queues /\ drv' = drv /\ dev \in Devices /\ (dev = "net" => Queues = {RX, TX})
      /\ Queues \subseteq {RX, TX}
  BY QueuesFact DEF Serve, Queues, RegisterInv
<1>G. PICK G \in Nat : G = Given(q)
  BY WindowFacts
<1>p. PICK e : /\ Answer(q, e.status, e.len) /\ G = Given(q) /\ Given(q)' = G + 1
               /\ \A i \in 0..(G - 1) : Entry(q, i)' = Entry(q, i)
               /\ \A i : i = G => Entry(q, i)' = e
  BY <1>G, ServeEntries
<1>o. \A p \in Queues : p # q => Given(p)' = Given(p) /\ \A i : Entry(p, i)' = Entry(p, i)
  <2>1. Elsewhere(loop.q)
    BY ServeEffect, Zenon
  <2>2. ASSUME NEW p \in Queues, p # q PROVE ring'[p] = ring[p] /\ queues'[p] = queues[p]
    BY <2>1, <2>2 DEF Elsewhere
  <2>. QED
    BY <1>d, <2>2 DEF Given, Entry
<1>f. /\ net.begun \in Nat /\ net.sent \in Nat /\ Delivered \in Nat /\ loop.frame \in Nat /\ Read \in Nat
      /\ loop.frame # 0 => loop.frame = Delivered + 1
  BY StreamFacts
<1>n. /\ net'.inbox = net.inbox /\ net'.rx = net.rx /\ net'.begun = net.begun /\ net'.sent = net.sent
      /\ loop'.frame = IF IsRx(q) THEN 0 ELSE loop.frame
  <2>1. net \in NetType /\ loop \in LoopType
    BY DEF SharedType
  <2>2. \E o, p : net' = net \/ net' = [net EXCEPT !.outbox = o, !.pending = p]
    <3>1. net' = net \/ \E b, c : net' = SendFrom(b, c)
      BY DEF Serve, ServeBlock, ServeRx, ServeTx, WriteFrame
    <3>. QED
      BY <3>1, Zenon DEF SendFrom
  <2>3. loop'.frame = IF IsRx(q) THEN 0 ELSE loop.frame
    <3>1. CASE dev = "block"
      <4>1. loop' = [loop EXCEPT !.pc = "pop", !.any = TRUE]
        BY <3>1 DEF Serve, ServeBlock
      <4>. QED
        BY <2>1, <3>1, <4>1 DEF LoopType, IsRx
    <3>2. CASE dev = "net" /\ q = RX
      <4>1. loop' = [loop EXCEPT !.pc = "read", !.frame = 0]
        BY <3>2 DEF Serve, ServeRx, RX, TX
      <4>. QED
        BY <2>1, <3>2, <4>1 DEF LoopType, IsRx
    <3>3. CASE dev = "net" /\ q = TX
      <4>1. loop' = [loop EXCEPT !.pc = "pop", !.any = TRUE]
        BY <3>3 DEF Serve, ServeTx, RX, TX
      <4>. QED
        BY <2>1, <3>3, <4>1 DEF LoopType, IsRx, RX, TX
    <3>. QED
      BY <3>1, <3>2, <3>3 DEF Serve
  <2>. QED
    BY <2>1, <2>2, <2>3 DEF NetType
<1>1. StreamInv'
  <2>1. Read' = Read
    BY <1>n DEF Read
  <2>2. loop'.frame \in {0, loop.frame}
    BY <1>n
  <2>. QED
    BY <1>d, <1>n, <2>1, <2>2 DEF StreamInv
<1>2. Delivered' = (IF IsRx(q) /\ loop.frame # 0 THEN Delivered + 1 ELSE Delivered) /\ Delivered <= Delivered'
  <2>1. Read' = Read
    BY <1>n DEF Read
  <2>2. loop.frame # 0 => Delivered = Read \div 2 - 1
    BY DEF Delivered
  <2>3. loop.frame = 0 => Delivered = Read \div 2
    BY DEF Delivered
  <2>4. Read \div 2 \in Int
    BY <1>f
  <2>. QED
    BY <1>f, <1>n, <2>1, <2>2, <2>3, <2>4 DEF Delivered
<1>3. GotInv'
  BY <1>d, <1>f, <1>2 DEF GotInv
<1>x. IsRx(q)' = IsRx(q) /\ \A p : IsRx(p)' = IsRx(p)
  BY <1>d DEF IsRx
<1>4. ASSUME NEW p \in Queues, NEW i \in 0..(Given(p)' - 1) PROVE EntryInv(p, i)'
  <2>1. CASE p # q
    <3>1. /\ EntryInv(p, i) /\ i \in Int
      BY <1>4, <1>o, <2>1 DEF PipeInv
    <3>2. \A j : Entry(p, j)' = Entry(p, j)
      BY <1>o, <2>1
    <3>. QED
      BY <1>d, <1>f, <1>2, <1>x, <3>1, <3>2 DEF EntryInv
  <2>2. CASE p = q /\ i # G
    <3>1. EntryInv(q, i) /\ i \in 0..(G - 1)
      BY <1>4, <1>p, <2>2 DEF PipeInv
    <3>2. Entry(q, i)' = Entry(q, i) /\ \A j \in 0..(i - 1) : Entry(q, j)' = Entry(q, j)
      BY <1>p, <3>1
    <3>. QED
      BY <1>d, <1>f, <1>2, <1>x, <2>2, <3>1, <3>2 DEF EntryInv
  <2>3. CASE p = q /\ i = G
    <3>1. Entry(q, i)' = e
      BY <1>p, <2>3
    <3>2. CASE ~IsRx(q)
      BY <1>p, <1>x, <2>3, <3>1, <3>2 DEF EntryInv, Answer
    <3>3. CASE IsRx(q)
      <4>1. e.status = "frame" /\ e.len = IF loop.frame \in Big THEN 0 ELSE loop.frame
        BY <1>p, <3>3 DEF Answer
      <4>2. e.len \in Nat /\ (e.len # 0 => e.len = Delivered + 1 /\ e.len = Delivered' /\ e.len \notin Big)
        BY <1>f, <1>2, <3>3, <4>1
      <4>3. \A j \in DOMAIN drv.got : drv.got[j] \in Int /\ drv.got[j] <= Delivered
        BY <1>f DEF GotInv
      <4>4. \A j \in 0..(G - 1) : Entry(q, j)'.len \in Nat /\ Entry(q, j)'.len <= Delivered
        <5>. TAKE j \in 0..(G - 1)
        <5>1. Entry(q, j)' = Entry(q, j) /\ EntryInv(q, j)
          BY <1>p DEF PipeInv
        <5>. QED
          BY <1>f, <3>3, <5>1 DEF EntryInv
      <4>. QED
        BY <1>d, <1>f, <1>x, <2>3, <3>1, <3>3, <4>1, <4>2, <4>3, <4>4 DEF EntryInv
    <3>. QED
      BY <3>2, <3>3
  <2>. QED
    BY <2>1, <2>2, <2>3
<1>5. ASSUME dev = "net", NEW n \in 1..Delivered' \ Big
      PROVE  n \in Range(drv'.got) \/ \E i \in 0..(Given(RX)' - 1) : Entry(RX, i)'.len = n
  <2>1. CASE n \in 1..Delivered
    <3>1. n \in Range(drv.got) \/ \E i \in 0..(Given(RX) - 1) : Entry(RX, i).len = n
      BY <1>5, <2>1 DEF PipeInv
    <3>2. CASE q = RX
      BY <1>d, <1>p, <3>1, <3>2
    <3>3. CASE q # RX
      <4>1. Given(RX)' = Given(RX) /\ \A i : Entry(RX, i)' = Entry(RX, i)
        BY <1>5, <1>d, <1>o, <3>3
      <4>. QED
        BY <1>d, <3>1, <4>1
    <3>. QED
      BY <3>2, <3>3
  <2>2. CASE n \notin 1..Delivered
    <3>1. IsRx(q) /\ loop.frame # 0 /\ n = Delivered + 1 /\ n = loop.frame
      BY <1>f, <1>2, <1>5, <2>2
    <3>2. e.len = n /\ q = RX
      BY <1>p, <1>5, <3>1 DEF Answer, IsRx
    <3>. QED
      BY <1>p, <3>2
  <2>. QED
    BY <2>1, <2>2
<1>. QED
  BY <1>1, <1>3, <1>4, <1>5, <1>d DEF PipeInv

(* A frame that is collected comes after those the guest has.              *)
LEMMA CollectFrames ==
  ASSUME RegisterInv, SharedType, cc.active, NEW q \in Queues, Windows(q), Collect(q), StreamInv, GotInv, PipeInv
  PROVE  StreamInv' /\ GotInv' /\ PipeInv'
<1>d. /\ dev' = dev /\ Queues' = Queues /\ net' = net /\ loop' = loop /\ dev \in Devices
      /\ (dev = "net" => Queues = {RX, TX}) /\ Queues \subseteq {RX, TX}
  BY QueuesFact DEF Collect, Queues, RegisterInv
<1>G. PICK G \in Nat, e \in {Entry(q, 0)} : G = Given(q) /\ e = Entry(q, 0)
  BY WindowFacts
<1>p. /\ G = Given(q) /\ e = Entry(q, 0) /\ G >= 1 /\ Given(q)' = G - 1
      /\ \A i \in 0..(G - 2) : Entry(q, i)' = Entry(q, i + 1)
      /\ drv'.got = IF e.status = "frame" /\ e.len # 0 THEN Append(drv.got, e.len) ELSE drv.got
  BY <1>G, CollectEntries
<1>o. \A p \in Queues : p # q => Given(p)' = Given(p) /\ \A i : Entry(p, i)' = Entry(p, i)
  <2>1. /\ Elsewhere(q) /\ drv'.last = [drv.last EXCEPT ![q] = Plus(@, 1)]
    BY CollectEffect, Zenon
  <2>2. ASSUME NEW p \in Queues, p # q PROVE ring'[p] = ring[p] /\ queues'[p] = queues[p] /\ drv'.last[p] = drv.last[p]
    <3>1. drv.last \in [{RX, TX} -> Indices] /\ p \in {RX, TX}
      BY <1>d DEF SharedType, DriverType
    <3>. QED
      BY <2>1, <2>2, <3>1 DEF Elsewhere
  <2>. QED
    BY <2>2 DEF Given, Entry
<1>f. Delivered \in Nat /\ Delivered' = Delivered /\ Read' = Read
  BY <1>d, StreamFacts DEF Delivered, Read
<1>1. StreamInv'
  BY <1>d, <1>f DEF StreamInv
<1>x. \A p : IsRx(p)' = IsRx(p)
  BY <1>d DEF IsRx
<1>e. EntryInv(q, 0)
  BY <1>p DEF PipeInv
<1>g. drv.got \in Seq(Int)
  BY DEF SharedType, DriverType
<1>n. ASSUME drv'.got # drv.got
      PROVE  /\ drv'.got = Append(drv.got, e.len) /\ IsRx(q) /\ e.len \in 1..Delivered \ Big /\ e.len \in Int
             /\ \A j \in DOMAIN drv.got : drv.got[j] < e.len
             /\ Len(drv'.got) = Len(drv.got) + 1 /\ drv'.got[Len(drv.got) + 1] = e.len
             /\ \A j \in DOMAIN drv.got : drv'.got[j] = drv.got[j]
             /\ DOMAIN drv'.got = DOMAIN drv.got \cup {Len(drv.got) + 1} /\ Len(drv.got) \in Nat
             /\ DOMAIN drv.got = 1..Len(drv.got)
  <2>1. drv'.got = Append(drv.got, e.len) /\ e.status = "frame" /\ e.len # 0
    BY <1>p, <1>n
  <2>2. IsRx(q)
    BY <1>e, <1>p, <2>1 DEF EntryInv
  <2>3. e.len \in 1..Delivered \ Big /\ e.len \in Int /\ \A j \in DOMAIN drv.got : drv.got[j] < e.len
    BY <1>e, <1>f, <1>p, <2>1, <2>2 DEF EntryInv
  <2>4. /\ Len(drv'.got) = Len(drv.got) + 1 /\ drv'.got[Len(drv.got) + 1] = e.len
        /\ \A j \in DOMAIN drv.got : drv'.got[j] = drv.got[j]
        /\ DOMAIN drv'.got = DOMAIN drv.got \cup {Len(drv.got) + 1} /\ Len(drv.got) \in Nat
        /\ DOMAIN drv.got = 1..Len(drv.got)
    BY <1>g, <2>1, <2>3
  <2>. QED
    BY <2>1, <2>2, <2>3, <2>4
<1>3. GotInv'
  <2>1. CASE drv'.got = drv.got
    BY <1>f, <2>1 DEF GotInv
  <2>2. CASE drv'.got # drv.got
    <3>1. \A i \in DOMAIN drv'.got : drv'.got[i] \in 1..Delivered' \ Big
      BY <1>f, <1>n, <2>2 DEF GotInv
    <3>2. ASSUME NEW i \in DOMAIN drv'.got, NEW j \in DOMAIN drv'.got, i < j PROVE drv'.got[i] < drv'.got[j]
      <4>1. i \in DOMAIN drv.got
        BY <1>n, <2>2, <3>2
      <4>2. CASE j \in DOMAIN drv.got
        BY <1>n, <2>2, <3>2, <4>1, <4>2 DEF GotInv
      <4>3. CASE j = Len(drv.got) + 1
        BY <1>n, <2>2, <4>1, <4>3
      <4>. QED
        BY <1>n, <2>2, <4>2, <4>3
    <3>. QED
      BY <3>1, <3>2 DEF GotInv
  <2>. QED
    BY <2>1, <2>2
<1>4. ASSUME NEW p \in Queues, NEW i \in 0..(Given(p)' - 1) PROVE EntryInv(p, i)'
  <2>1. CASE p # q
    <3>1. EntryInv(p, i)
      BY <1>4, <1>o, <2>1 DEF PipeInv
    <3>2. \A j : Entry(p, j)' = Entry(p, j)
      BY <1>o, <2>1
    <3>3. IsRx(p) => drv'.got = drv.got
      BY <1>n, <2>1 DEF IsRx
    <3>. QED
      BY <1>f, <1>x, <3>1, <3>2, <3>3 DEF EntryInv
  <2>2. CASE p = q
    <3>1. i \in 0..(G - 2) /\ i + 1 \in 0..(G - 1) /\ i \in Nat
      BY <1>4, <1>p, <2>2
    <3>2. EntryInv(q, i + 1) /\ Entry(q, i)' = Entry(q, i + 1)
      BY <1>p, <3>1 DEF PipeInv
    <3>3. \A j \in 0..(i - 1) : Entry(q, j)' = Entry(q, j + 1) /\ j + 1 \in 0..(i + 1 - 1)
      BY <1>p, <3>1
    <3>4. CASE ~IsRx(q)
      BY <1>x, <2>2, <3>2, <3>4 DEF EntryInv
    <3>5. CASE IsRx(q)
      <4>. DEFINE m == Entry(q, i + 1).len
      <4>1. /\ Entry(q, i + 1).status = "frame" /\ m \in Nat
            /\ m # 0 => /\ m <= Delivered /\ m \notin Big
                        /\ \A j \in DOMAIN drv.got : drv.got[j] < m
                        /\ \A j \in 0..(i + 1 - 1) : Entry(q, j).len < m
        BY <3>2, <3>5 DEF EntryInv
      <4>2. m # 0 => \A j \in 0..(i - 1) : Entry(q, j)'.len < m
        BY <3>3, <4>1
      <4>3. m # 0 => e.len < m
        <5>1. 0 \in 0..(i + 1 - 1)
          BY <3>1
        <5>. QED
          BY <1>p, <4>1, <5>1
      <4>4. m # 0 => \A j \in DOMAIN drv'.got : drv'.got[j] < m
        <5>1. CASE drv'.got = drv.got
          BY <4>1, <5>1
        <5>2. CASE drv'.got # drv.got
          BY <1>n, <4>1, <4>3, <5>2
        <5>. QED
          BY <5>1, <5>2
      <4>. QED
        BY <1>f, <1>x, <2>2, <3>2, <3>5, <4>1, <4>2, <4>4 DEF EntryInv
    <3>. QED
      BY <3>4, <3>5
  <2>. QED
    BY <2>1, <2>2
<1>5. ASSUME dev = "net", NEW n \in 1..Delivered' \ Big
      PROVE  n \in Range(drv'.got) \/ \E i \in 0..(Given(RX)' - 1) : Entry(RX, i)'.len = n
  <2>1. n \in Range(drv.got) \/ \E i \in 0..(Given(RX) - 1) : Entry(RX, i).len = n
    BY <1>5, <1>f DEF PipeInv
  <2>2. CASE n \in Range(drv.got)
    <3>1. PICK j \in DOMAIN drv.got : drv.got[j] = n
      BY <2>2 DEF Range
    <3>2. j \in DOMAIN drv'.got /\ drv'.got[j] = n
      BY <1>n, <3>1
    <3>. QED
      BY <3>2 DEF Range
  <2>3. CASE q # RX /\ n \notin Range(drv.got)
    <3>1. Given(RX)' = Given(RX) /\ \A i : Entry(RX, i)' = Entry(RX, i)
      BY <1>5, <1>d, <1>o, <2>3
    <3>. QED
      BY <2>1, <2>3, <3>1
  <2>4. CASE q = RX /\ n \notin Range(drv.got)
    <3>1. PICK i \in 0..(G - 1) : Entry(q, i).len = n
      BY <1>p, <2>1, <2>4
    <3>2. CASE i = 0
      <4>1. e.len = n /\ n # 0 /\ IsRx(q)
        BY <1>5, <1>f, <1>p, <2>4, <3>1, <3>2 DEF IsRx
      <4>2. e.status = "frame"
        BY <1>e, <1>p, <4>1 DEF EntryInv
      <4>3. drv'.got = Append(drv.got, n)
        BY <1>p, <4>1, <4>2
      <4>4. Len(drv.got) + 1 \in DOMAIN drv'.got /\ drv'.got[Len(drv.got) + 1] = n
        BY <1>g, <1>5, <1>f, <4>3
      <4>. QED
        BY <4>4 DEF Range
    <3>3. CASE i # 0
      <4>1. i - 1 \in 0..(G - 2) /\ (i - 1) + 1 = i /\ i - 1 \in 0..(Given(q)' - 1)
        BY <1>p, <3>1, <3>3
      <4>2. Entry(q, i - 1)' = Entry(q, (i - 1) + 1)
        BY <1>p, <4>1
      <4>3. Entry(q, i - 1)'.len = n
        BY <3>1, <4>1, <4>2
      <4>. QED
        BY <2>4, <4>1, <4>3
    <3>. QED
      BY <3>2, <3>3
  <2>. QED
    BY <2>2, <2>3, <2>4
<1>. QED
  BY <1>1, <1>3, <1>4, <1>5, <1>d DEF PipeInv

(* The frames stay in order.                                               *)
LEMMA FrameStep == RegisterInv /\ RingInv /\ FrameInv /\ [Next]_vars => FrameInv'
<1>. SUFFICES ASSUME RegisterInv, RingInv, FrameInv, [Next]_vars PROVE FrameInv'
  OBVIOUS
<1>1. CASE drv.phase = "reset"
  BY <1>1, ResetStays DEF FrameInv
<1>2. CASE drv.phase # "reset"
  <2>t. SharedType /\ ProbeInv /\ (cc.active => \A q \in Queues : Windows(q)) /\ dev \in Devices
    BY <1>2 DEF RingInv, RegisterInv
  <2>d. dev' = dev /\ Queues' = Queues /\ (dev = "net" => RX \in Queues)
    BY <2>t, Writers, QueuesFact DEF Queues
  <2>s. StreamInv /\ GotInv /\ (cc.active => PipeInv)
    BY <1>2 DEF FrameInv
  <2>a. cc.active => cc'.active
    BY ActiveStays
  <2>act. ASSUME cc.active, drv'.phase # "reset", StreamInv', GotInv', PipeInv' PROVE FrameInv'
    BY <2>act, <2>a DEF FrameInv
  <2>1. CASE Calm
    <3>p. drv'.phase # "reset" /\ drv'.got = drv.got /\ drv'.last = drv.last
      BY <2>1 DEF Calm
    <3>1. StreamInv' /\ Delivered' = Delivered
      BY <2>1, <2>d, <2>s, <2>t, StreamStep DEF Calm
    <3>2. GotInv'
      BY <2>s, <3>1, <3>p DEF GotInv
    <3>3. CASE cc.active
      <4>1. \A q \in Queues : Given(q)' = Given(q) /\ \A i : Entry(q, i)' = Entry(q, i)
        BY <2>1, <3>3 DEF Calm, Given, Entry
      <4>2. PipeInv'
        BY <2>d, <2>s, <3>1, <3>3, <3>p, <4>1, PipeSame
      <4>. QED
        BY <2>act, <3>1, <3>2, <3>3, <3>p, <4>2
    <3>4. CASE ~cc.active
      <4>1. net.begun = 0 /\ net.inbox = <<>> /\ loop.frame = 0 /\ drv.got = <<>>
        BY <1>2, <3>4 DEF FrameInv
      <4>2. Untouched
        BY <2>1, <2>t, <3>4 DEF Calm, ReadHeader, ReadBody, PasstSends, ProbeInv
      <4>3. Delivered = 0
        <5>1. net.sent \in Nat /\ net.sent = 0
          BY <2>s, <2>t, <4>1 DEF StreamInv, SharedType, NetType
        <5>0. Len(<<>>) = 0
          OBVIOUS
        <5>2. Len(net.inbox) = 0
          BY <4>1, <5>0, Zenon
        <5>3. Read = (0 + 0) - 0
          BY <4>1, <5>1, <5>2, Zenon DEF Read
        <5>4. (0 + 0) - 0 = 0
          OBVIOUS
        <5>5. Read = 0
          BY <5>3, <5>4, Zenon
        <5>. QED
          BY <4>1, <5>5 DEF Delivered
      <4>4. \A q \in Queues : Given(q)' = 0
        <5>1. Minus(0, 0) = 0
          <6>1. 0 \in Indices
            BY <2>t, ModulusFact DEF Indices
          <6>. QED
            BY <2>t, <6>1, Distances, Zenon
        <5>2. \A q \in Queues : queues'[q].nextUsed = 0 /\ drv'.last[q] = 0
          BY <2>1, <2>t, <3>4 DEF Calm, ProbeInv
        <5>. QED
          BY <5>1, <5>2 DEF Given
      <4>5. PipeInv'
        <5>1. \A q \in Queues : 0..(Given(q)' - 1) = {}
          BY <4>4
        <5>2. 1..Delivered' = {}
          BY <3>1, <4>3
        <5>. QED
          BY <2>d, <5>1, <5>2 DEF PipeInv
      <4>. QED
        BY <3>1, <3>2, <3>p, <4>1, <4>2, <4>5 DEF FrameInv, Untouched
    <3>. QED
      BY <3>3, <3>4
  <2>2. ASSUME cc.active, NEW q \in Queues, NEW h, NEW c \in ChainOf(q), Publish(q, h, c) PROVE FrameInv'
    <3>1. /\ Elsewhere(q) /\ queues' = queues /\ drv'.phase = drv.phase /\ drv'.last = drv.last
          /\ ring'[q].used = ring[q].used
      BY <2>2, <2>t, PublishEffect, Zenon
    <3>2. Untouched /\ drv'.got = drv.got
      <4>1. drv \in DriverType
        BY <2>t DEF SharedType
      <4>. QED
        BY <2>2, <4>1 DEF Publish, Untouched, DriverType
    <3>3. \A p \in Queues : ring'[p].used = ring[p].used
      BY <3>1 DEF Elsewhere
    <3>4. \A p \in Queues : Given(p)' = Given(p) /\ \A i : Entry(p, i)' = Entry(p, i)
      BY <3>1, <3>3 DEF Given, Entry
    <3>5. StreamInv' /\ Delivered' = Delivered
      BY <2>d, <2>s, <2>t, <3>2, StreamStep
    <3>6. GotInv' /\ PipeInv'
      BY <2>2, <2>d, <2>s, <3>2, <3>4, <3>5, PipeSame
    <3>. QED
      BY <1>2, <2>2, <2>act, <3>1, <3>5, <3>6
  <2>3. CASE cc.active /\ Available(loop.q) # 0 /\ Serve
    <3>1. PICK q \in Queues : q = loop.q
      BY <2>t DEF SharedType, LoopType
    <3>2. StreamInv' /\ GotInv' /\ PipeInv'
      BY <2>3, <2>s, <2>t, <3>1, ServeFrames
    <3>. QED
      BY <1>2, <2>3, <2>act, <3>2 DEF Serve
  <2>4. ASSUME cc.active, NEW q \in Queues, Collect(q) PROVE FrameInv'
    <3>1. StreamInv' /\ GotInv' /\ PipeInv'
      BY <2>4, <2>s, <2>t, CollectFrames
    <3>2. drv'.phase = drv.phase
      BY <2>4, <2>t, CollectEffect, Zenon
    <3>. QED
      BY <1>2, <2>4, <2>act, <3>1, <3>2
  <2>5. CASE cc.active /\ AdvanceUsed
    <3>t. ring \in [Queues -> RingType] /\ loop \in LoopType
      BY <2>t DEF SharedType
    <3>1. /\ Untouched /\ drv' = drv /\ queues' = queues
          /\ \A p \in Queues : ring'[p].used = ring[p].used
      <4>1. loop' = [loop EXCEPT !.pc = "notify"] /\ net' = net /\ drv' = drv /\ queues' = queues
        BY <2>5 DEF AdvanceUsed
      <4>2. \A p \in Queues : ring'[p].used = ring[p].used
        BY <2>5, <3>t DEF AdvanceUsed, RingType
      <4>. QED
        BY <3>t, <4>1, <4>2 DEF LoopType, Untouched
    <3>2. \A p \in Queues : Given(p)' = Given(p) /\ \A i : Entry(p, i)' = Entry(p, i)
      BY <3>1 DEF Given, Entry
    <3>3. StreamInv' /\ Delivered' = Delivered
      BY <2>d, <2>s, <2>t, <3>1, StreamStep
    <3>4. GotInv' /\ PipeInv'
      BY <2>5, <2>d, <2>s, <3>1, <3>2, <3>3, PipeSame
    <3>. QED
      BY <1>2, <2>5, <2>act, <3>1, <3>3, <3>4
  <2>6. CASE Reset
    BY <2>6 DEF Reset, NewDriver, FrameInv
  <2>. QED
    BY <1>2, <2>1, <2>2, <2>3, <2>4, <2>5, <2>6, <2>t, Steps
<1>. QED
  BY <1>1, <1>2

(* Init satisfies the invariant.                                           *)
LEMMA InitInv == Init => IInv
<1>. SUFFICES ASSUME Init PROVE IInv
  OBVIOUS
<1>d. dev \in Devices /\ MaxSize[dev] \in Nat \ {0} /\ Modulus \in Nat /\ Modulus > 1
  BY ModulusFact DEF Init
<1>q. Queues \subseteq {RX, TX} /\ 0 \in Queues
  BY <1>d, QueuesFact
<1>0. 0 \in Indices
  BY <1>d DEF Indices
<1>1. NewQueue \in QueueType
  BY <1>d, <1>0 DEF NewQueue, QueueType, Addresses
<1>2. cc \in ConfigType /\ ~cc.active
  BY DEF Init, NewConfig, ConfigType
<1>3. RegisterInv
  BY <1>d, <1>1, <1>2 DEF Init, RegisterInv
<1>4. NewRing \in RingType
  <2>1. [i \in Slots |-> Blank] \in [Slots -> Slots \cup {Blank}]
    OBVIOUS
  <2>2. [i \in Slots |-> Unused] \in [Slots -> [id : Slots \cup {Blank}, status : Statuses, len : Int]]
    BY DEF Unused, Statuses
  <2>3. [i \in Slots |-> <<>>] \in [Slots -> ChainValues]
    BY DEF ChainValues
  <2>4. NewRing = [avail |-> [i \in Slots |-> Blank], availIdx |-> 0, usedEvent |-> 0,
                   used |-> [i \in Slots |-> Unused], usedIdx |-> 0, availEvent |-> 0, chain |-> [i \in Slots |-> <<>>]]
    BY DEF NewRing, Slots
  <2>. QED
    BY <1>0, <2>1, <2>2, <2>3, <2>4 DEF RingType
<1>5. NewDriver \in DriverType
  BY <1>0 DEF NewDriver, DriverType
<1>6. NewLoop \in LoopType
  BY <1>q DEF NewLoop, LoopType
<1>7. NewNet \in NetType /\ Len(NewNet.outbox) <= Room
  BY VirtioAssumption DEF NewNet, NetType
<1>8. SharedType
  BY <1>4, <1>5, <1>6, <1>7 DEF Init, SharedType
<1>9. ProbeInv
  <2>1. drv.phase = "probe" /\ loop.pc = "wait" /\ ~loop.on
    BY DEF Init, NewDriver, NewLoop
  <2>2. ASSUME NEW q \in Queues
        PROVE  /\ ring[q].availIdx = 0 /\ ring[q].usedIdx = 0 /\ queues[q].nextAvail = 0 /\ queues[q].nextUsed = 0
               /\ drv.out[q] = {} /\ drv.last[q] = 0
    <3>1. ring[q] = NewRing /\ queues[q] = NewQueue /\ drv = NewDriver /\ q \in {RX, TX}
      BY <1>q DEF Init
    <3>. QED
      BY <3>1 DEF NewRing, NewQueue, NewDriver
  <2>. QED
    BY <2>1, <2>2 DEF ProbeInv
<1>10. FrameInv
  <2>1. /\ net.begun = 0 /\ net.sent = 0 /\ net.inbox = <<>> /\ net.rx = 0 /\ loop.frame = 0
        /\ drv.got = <<>> /\ drv.phase # "reset"
    BY DEF Init, NewNet, NewLoop, NewDriver
  <2>2. Read = 0 /\ Len(net.inbox) = 0 /\ 0 % 2 = 0
    <3>1. Len(<<>>) = 0 /\ (0 + 0) - 0 = 0 /\ 0 % 2 = 0
      OBVIOUS
    <3>2. Len(net.inbox) = 0
      BY <2>1, <3>1, Zenon
    <3>3. Read = (0 + 0) - 0
      BY <2>1, <3>2, Zenon DEF Read
    <3>. QED
      BY <3>1, <3>2, <3>3, Zenon
  <2>3. StreamInv
    BY <2>1, <2>2 DEF StreamInv
  <2>4. GotInv
    BY <2>1 DEF GotInv
  <2>. QED
    BY <1>2, <2>1, <2>3, <2>4 DEF FrameInv
<1>. QED
  BY <1>2, <1>3, <1>8, <1>9, <1>10 DEF IInv, RingInv

(* The inductive invariant: what the registers keep of an active device,   *)
(* the two windows of heads of each of its queues, and the frames on their *)
(* way from passt to the guest.                                            *)
THEOREM Ordered == Spec => []IInv
<1>1. IInv /\ [Next]_vars => IInv'
  BY RegisterStep, RingStep, FrameStep DEF IInv
<1>. QED
  BY <1>1, InitInv, PTL DEF Spec

(* A device that is active works on the rings its driver configured: no    *)
(* order of register writes, a reset and a second set-up included, moves   *)
(* the addresses under a ring that was resolved.                           *)
THEOREM RingsNeverMove == Spec => []RingsMatch
<1>1. IInv => RingsMatch
  BY DEF IInv, RegisterInv, RingsMatch
<1>. QED
  BY <1>1, Ordered, PTL

(* Whatever the device has answered and the driver has not yet collected   *)
(* is a head the driver gave, none of them twice, and never more heads     *)
(* wait than the queue holds: for every size initialize accepts, across    *)
(* the wrapping of the indices, however the two sides interleave.          *)
LEMMA HeadsOrdered == IInv => HeadsFaithful
<1>. SUFFICES ASSUME IInv, Live, NEW q \in Queues
              PROVE  LET k == Minus(queues[q].nextUsed, drv.last[q])
                         slot(i) == ring[q].used[Plus(drv.last[q], i) % queues[q].size].id
                     IN /\ Available(q) <= queues[q].size
                        /\ \A i \in 0..(k - 1) : slot(i) \in drv.out[q]
                        /\ \A i, j \in 0..(k - 1) : i # j => slot(i) # slot(j)
  BY DEF HeadsFaithful
<1>1. SharedType /\ RegisterInv /\ cc.active /\ Windows(q)
  BY DEF IInv, RingInv, ProbeInv, Live
<1>2. Waiting(q) + Given(q) <= queues[q].size /\ Waiting(q) \in Nat /\ Given(q) \in Nat /\ queues[q].size \in Nat
  BY <1>1, WindowFacts
<1>3. Available(q) <= queues[q].size
  <2>1. Available(q) = Waiting(q)
    BY DEF Available, Waiting
  <2>. QED
    BY <1>2, <2>1
<1>4. /\ \A i \in 0..(Given(q) - 1) : Id(q, i) \in drv.out[q]
      /\ \A i, j \in 0..(Given(q) - 1) : i # j => Id(q, i) # Id(q, j)
  BY <1>1 DEF Windows
<1>. QED
  BY <1>3, <1>4 DEF Given, Id, Entry

(* No frame that passt sent is torn, reordered or left out before one that *)
(* the guest received, however the stream was cut into pieces.             *)
LEMMA FramesOrdered == IInv => FramesFaithful
<1>. SUFFICES ASSUME IInv PROVE FramesFaithful
  OBVIOUS
<1>1. CASE drv.got = <<>>
  BY <1>1 DEF FramesFaithful
<1>2. CASE drv.got # <<>>
  <2>1. drv.phase # "reset" /\ cc.active /\ SharedType /\ StreamInv /\ GotInv /\ PipeInv /\ dev \in Devices
    BY <1>2 DEF IInv, FrameInv, RingInv, RegisterInv
  <2>2. Delivered \in Nat /\ net.sent \in Nat /\ Delivered <= net.sent /\ drv.got \in Seq(Int)
    BY <2>1, StreamFacts DEF SharedType, DriverType
  <2>3. dev = "net" /\ RX \in Queues
    <3>1. Len(drv.got) >= 1 /\ 1 \in DOMAIN drv.got
      BY <1>2, <2>2
    <3>2. Delivered >= 1
      BY <2>1, <2>2, <3>1 DEF GotInv
    <3>3. net.sent >= 1 /\ net.begun # 0
      BY <2>1, <2>2, <3>2 DEF StreamInv
    <3>. QED
      BY <2>1, <3>3, QueuesFact DEF StreamInv
  <2>4. \A i \in DOMAIN drv.got : drv.got[i] \in 1..net.sent \ Big
    BY <2>1, <2>2 DEF GotInv
  <2>5. ASSUME NEW i \in DOMAIN drv.got, NEW n \in 1..net.sent, n < drv.got[i], n \notin Big PROVE n \in Range(drv.got)
    <3>. SUFFICES ASSUME n \notin Range(drv.got) PROVE FALSE
      OBVIOUS
    <3>1. n \in 1..Delivered \ Big /\ drv.got[i] \in Nat
      BY <2>1, <2>2, <2>5 DEF GotInv
    <3>2. PICK k \in 0..(Given(RX) - 1) : Entry(RX, k).len = n
      BY <2>1, <2>3, <3>1 DEF PipeInv
    <3>3. EntryInv(RX, k) /\ IsRx(RX)
      BY <2>1, <2>3, <3>2 DEF PipeInv, IsRx
    <3>4. drv.got[i] < n
      BY <3>1, <3>2, <3>3 DEF EntryInv
    <3>. QED
      BY <2>5, <3>1, <3>4
  <2>. QED
    BY <2>1, <2>4, <2>5 DEF GotInv, FramesFaithful
<1>. QED
  BY <1>1, <1>2

(* What crosses the rings is what was put in: no head is answered twice or *)
(* made up, no frame torn, reordered or lost on the way (add_used, pop,    *)
(* advance_used_ring_idx, try_read_frame), for queues of every size the    *)
(* device accepts and any number of frames.                                *)
THEOREM RingsAreFaithful == Spec => []Faithful
<1>1. IInv => Faithful
  BY HeadsOrdered, FramesOrdered DEF Faithful
<1>. QED
  BY <1>1, Ordered, PTL

(***************************************************************************)
(* Wake-ups.  The device and the driver each stop the events of the other  *)
(* and sleep; the invariant WakeInv says for each queue why the one that   *)
(* sleeps will be woken for what the other has put in the ring.            *)
(***************************************************************************)
(* The message table: registered vectors fire at once, and no vector of a  *)
(* queue is left pending unmasked.                                         *)
MsixType ==
    [enabled : BOOLEAN, masked : BOOLEAN, entry : [Vectors -> BOOLEAN], pba : [Vectors -> BOOLEAN],
     irqfd : [Vectors -> BOOLEAN], eventfd : [Vectors -> BOOLEAN],
     config : {0, NoVector}, queue : [Queues -> (Vectors \ {0}) \cup {NoVector}]]
TableType == [m : MsixType, irq : [Vectors -> BOOLEAN]]
Sound(s) ==
    /\ s \in TableType
    /\ s.m.enabled /\ ~s.m.masked => \A v \in Vectors : ~s.m.entry[v] => s.m.irqfd[v]
    /\ \A v \in Vectors \ {0} : ~s.m.eventfd[v] /\ (s.m.pba[v] => s.m.masked \/ s.m.entry[v])
MsixInv ==
    /\ Sound(Interrupts)
    /\ \A v \in Vectors \ {0} : msix.pba[v] => cc.active
    /\ cc.active => /\ cc.step = 4 /\ ~cc.failed /\ ~cc.needsReset /\ msix.enabled
                    /\ \A q \in Queues : msix.queue[q] \in Vectors \ {0}

(* The loop is at work on queue q; it will still look at what is available *)
(* there; it has to: the receive queue is waited for by a frame only.      *)
AtQueue(q) == loop.pc # "wait" /\ loop.q = q
Looking(q) == loop.pc \in {"read", "pop", "again"} /\ loop.q = q
Wanted(q) == ~Stalled(q) /\ (IsRx(q) => loop.frame # 0)
Unannounced(q) == Minus(ring[q].availIdx, drv.told[q])

(* Available heads are looked for, announced, or will be: the driver has   *)
(* told of none of them, so its next notification is asked for.  A queue   *)
(* that has stopped at a head is not looked for any more.                  *)
KickInv(q) ==
    /\ queues[q].suppress = cc.eventIdx
    /\ Wanted(q) /\ ~Looking(q) =>
         /\ queues[q].suppress => ring[q].availEvent = queues[q].nextAvail
         /\ kick[q] \/ Waiting(q) <= Unannounced(q)
    /\ loop.pc = "again" /\ loop.q = q => ring[q].availEvent = queues[q].nextAvail

(* The driver handles, or will be brought to handle, what is used.         *)
Coming(q) ==
    LET v == msix.queue[q] IN drv.poll[q] # "idle" \/ irq[v] \/ msix.pba[v]
Asks == loop.any \/ IsRx(loop.q)
Fresh(q) == Minus(queues[q].nextUsed, ring[q].usedIdx)

(* Used heads are all published but in a round under way; the published    *)
(* ones are collected, coming, or about to be notified of.                 *)
TellInv(q) ==
    /\ drv.poll[q] # "poll" => ring[q].usedEvent = drv.last[q]
    /\ ~AtQueue(q) \/ loop.pc = "notify" => Fresh(q) = 0
    /\ AtQueue(q) /\ loop.pc # "notify" /\ queues[q].suppress => queues[q].added = Fresh(q)
    /\ AtQueue(q) /\ ~Asks => Fresh(q) = 0
    /\ ~AtQueue(q) \/ ~Asks => (queues[q].suppress => queues[q].added = 0)
    /\ \/ Coming(q)
       \/ drv.last[q] = ring[q].usedIdx
       \/ /\ AtQueue(q) /\ loop.pc = "notify" /\ Asks
          /\ queues[q].suppress => Given(q) <= queues[q].added

(* Before the device is active both sides are at the beginning.            *)
FreshInv ==
    ~cc.active => \A q \in Queues :
        /\ ring[q].availEvent = 0 /\ ring[q].usedEvent = 0 /\ queues[q].added = 0
        /\ drv.told[q] = 0 /\ drv.poll[q] = "idle"

WakeInv ==
    drv.phase # "reset" =>
      /\ MsixInv /\ FreshInv /\ kick \in [Queues -> BOOLEAN] /\ (loop.pc = "read" => IsRx(loop.q))
      /\ cc.active => \A q \in Queues : KickInv(q) /\ TellInv(q)

(* One vector is like another: what the operations on the table do to it.  *)
Same(s, r) ==
    /\ r \in TableType
    /\ r.m.config = s.m.config /\ r.m.queue = s.m.queue

(* The fields of a table.                                                  *)
LEMMA TableFields == ASSUME NEW s \in TableType
  PROVE /\ s.m \in MsixType /\ s.irq \in [Vectors -> BOOLEAN]
        /\ s.m.enabled \in BOOLEAN /\ s.m.masked \in BOOLEAN
        /\ s.m.entry \in [Vectors -> BOOLEAN] /\ s.m.pba \in [Vectors -> BOOLEAN]
        /\ s.m.irqfd \in [Vectors -> BOOLEAN] /\ s.m.eventfd \in [Vectors -> BOOLEAN]
BY DEF TableType, MsixType

(* Register routes the vectors and takes what their eventfds held.         *)
LEMMA RegisterIs == ASSUME NEW s \in TableType, NEW V \in SUBSET Vectors
  PROVE LET r == Register(s, V) IN
        /\ Same(s, r) /\ r.m.enabled = s.m.enabled /\ r.m.masked = s.m.masked
        /\ r.m.entry = s.m.entry /\ r.m.pba = s.m.pba
        /\ \A v \in Vectors : /\ r.m.irqfd[v] <=> s.m.irqfd[v] \/ v \in V
                              /\ r.m.eventfd[v] <=> s.m.eventfd[v] /\ v \notin V
                              /\ r.irq[v] <=> s.irq[v] \/ (v \in V /\ s.m.eventfd[v])
<1>. DEFINE f == [v \in Vectors |-> s.m.irqfd[v] \/ v \in V]
            e == [v \in Vectors |-> s.m.eventfd[v] /\ v \notin V]
            i == [v \in Vectors |-> s.irq[v] \/ (v \in V /\ s.m.eventfd[v])]
<1>1. f \in [Vectors -> BOOLEAN] /\ e \in [Vectors -> BOOLEAN] /\ i \in [Vectors -> BOOLEAN]
  OBVIOUS
<1>2. Register(s, V) = [m |-> [s.m EXCEPT !.irqfd = f, !.eventfd = e], irq |-> i]
  BY DEF Register
<1>3. \A v \in Vectors : /\ f[v] <=> s.m.irqfd[v] \/ v \in V
                         /\ e[v] <=> s.m.eventfd[v] /\ v \notin V
                         /\ i[v] <=> s.irq[v] \/ (v \in V /\ s.m.eventfd[v])
  OBVIOUS
<1>. HIDE DEF f, e, i
<1>4. [m |-> [s.m EXCEPT !.irqfd = f, !.eventfd = e], irq |-> i] \in TableType
  BY <1>1 DEF TableType, MsixType
<1>5. LET r == [m |-> [s.m EXCEPT !.irqfd = f, !.eventfd = e], irq |-> i] IN
      /\ r.m.enabled = s.m.enabled /\ r.m.masked = s.m.masked /\ r.m.config = s.m.config /\ r.m.queue = s.m.queue
      /\ r.m.entry = s.m.entry /\ r.m.pba = s.m.pba /\ r.m.eventfd = e /\ r.irq = i /\ r.m.irqfd = f
  BY DEF TableType, MsixType
<1>. QED
  BY <1>2, <1>3, <1>4, <1>5 DEF Same

(* Unregister only takes vectors off the irqfds.                           *)
LEMMA UnregisterIs == ASSUME NEW s \in TableType, NEW V \in SUBSET Vectors
  PROVE LET r == Unregister(s, V) IN
        /\ Same(s, r) /\ r.m.enabled = s.m.enabled /\ r.m.masked = s.m.masked
        /\ r.m.entry = s.m.entry /\ r.m.pba = s.m.pba /\ r.m.eventfd = s.m.eventfd /\ r.irq = s.irq
        /\ \A v \in Vectors : r.m.irqfd[v] <=> s.m.irqfd[v] /\ v \notin V
<1>. DEFINE f == [v \in Vectors |-> s.m.irqfd[v] /\ v \notin V]
<1>1. f \in [Vectors -> BOOLEAN]
  OBVIOUS
<1>2. Unregister(s, V) = [s EXCEPT !.m.irqfd = f]
  BY DEF Unregister
<1>3. \A v \in Vectors : f[v] <=> s.m.irqfd[v] /\ v \notin V
  OBVIOUS
<1>. HIDE DEF f
<1>4. [s EXCEPT !.m.irqfd = f] \in TableType
  BY <1>1 DEF TableType, MsixType
<1>5. LET r == [s EXCEPT !.m.irqfd = f] IN
      /\ r.m.enabled = s.m.enabled /\ r.m.masked = s.m.masked /\ r.m.config = s.m.config /\ r.m.queue = s.m.queue
      /\ r.m.entry = s.m.entry /\ r.m.pba = s.m.pba /\ r.m.eventfd = s.m.eventfd /\ r.irq = s.irq /\ r.m.irqfd = f
  BY DEF TableType, MsixType
<1>. QED
  BY <1>2, <1>3, <1>4, <1>5 DEF Same

(* Inject interrupts, or leaves it to the eventfd without an irqfd.        *)
LEMMA InjectIs == ASSUME NEW s \in TableType, NEW V \in SUBSET Vectors
  PROVE LET r == Inject(s, V) IN
        /\ Same(s, r) /\ r.m.enabled = s.m.enabled /\ r.m.masked = s.m.masked
        /\ r.m.entry = s.m.entry /\ r.m.pba = s.m.pba /\ r.m.irqfd = s.m.irqfd
        /\ \A v \in Vectors : /\ r.m.eventfd[v] <=> s.m.eventfd[v] \/ (v \in V /\ ~s.m.irqfd[v])
                              /\ r.irq[v] <=> s.irq[v] \/ (v \in V /\ s.m.irqfd[v])
<1>. DEFINE e == [v \in Vectors |-> s.m.eventfd[v] \/ (v \in V /\ ~s.m.irqfd[v])]
            i == [v \in Vectors |-> s.irq[v] \/ (v \in V /\ s.m.irqfd[v])]
<1>1. e \in [Vectors -> BOOLEAN] /\ i \in [Vectors -> BOOLEAN]
  OBVIOUS
<1>2. Inject(s, V) = [m |-> [s.m EXCEPT !.eventfd = e], irq |-> i]
  BY DEF Inject
<1>3. \A v \in Vectors : /\ e[v] <=> s.m.eventfd[v] \/ (v \in V /\ ~s.m.irqfd[v])
                         /\ i[v] <=> s.irq[v] \/ (v \in V /\ s.m.irqfd[v])
  OBVIOUS
<1>. HIDE DEF e, i
<1>. QED
  BY <1>1, <1>2, <1>3 DEF Same, TableType, MsixType

(* InjectAndClear injects and clears the pending bits.                     *)
LEMMA InjectAndClearIs == ASSUME NEW s \in TableType, NEW V \in SUBSET Vectors
  PROVE LET r == InjectAndClear(s, V) IN
        /\ Same(s, r) /\ r.m.enabled = s.m.enabled /\ r.m.masked = s.m.masked
        /\ r.m.entry = s.m.entry /\ r.m.irqfd = s.m.irqfd
        /\ \A v \in Vectors : /\ r.m.eventfd[v] <=> s.m.eventfd[v] \/ (v \in V /\ ~s.m.irqfd[v])
                              /\ r.irq[v] <=> s.irq[v] \/ (v \in V /\ s.m.irqfd[v])
                              /\ r.m.pba[v] <=> s.m.pba[v] /\ v \notin V
<1>. DEFINE i == Inject(s, V)
            p == [v \in Vectors |-> i.m.pba[v] /\ v \notin V]
<1>1. p \in [Vectors -> BOOLEAN]
  OBVIOUS
<1>2. InjectAndClear(s, V) = [i EXCEPT !.m.pba = p]
  BY DEF InjectAndClear
<1>3. \A v \in Vectors : p[v] <=> i.m.pba[v] /\ v \notin V
  OBVIOUS
<1>4. /\ Same(s, i) /\ i.m.enabled = s.m.enabled /\ i.m.masked = s.m.masked
      /\ i.m.entry = s.m.entry /\ i.m.pba = s.m.pba /\ i.m.irqfd = s.m.irqfd
      /\ \A v \in Vectors : /\ i.m.eventfd[v] <=> s.m.eventfd[v] \/ (v \in V /\ ~s.m.irqfd[v])
                            /\ i.irq[v] <=> s.irq[v] \/ (v \in V /\ s.m.irqfd[v])
  BY InjectIs
<1>. HIDE DEF i, p
<1>5. [i EXCEPT !.m.pba = p] \in TableType
  BY <1>1, <1>4 DEF Same, TableType, MsixType
<1>6. LET r == [i EXCEPT !.m.pba = p] IN
      /\ r.m.enabled = i.m.enabled /\ r.m.masked = i.m.masked /\ r.m.config = i.m.config /\ r.m.queue = i.m.queue
      /\ r.m.entry = i.m.entry /\ r.m.irqfd = i.m.irqfd /\ r.m.eventfd = i.m.eventfd /\ r.irq = i.irq /\ r.m.pba = p
  BY <1>4 DEF Same, TableType, MsixType
<1>. QED
  BY <1>2, <1>3, <1>4, <1>5, <1>6 DEF Same

(* The table stays sound, and what a queue's vector has to tell is kept.   *)
Keeps(s, r) ==
    /\ Sound(r) /\ Same(s, r)
    /\ \A v \in Vectors \ {0} : s.irq[v] \/ s.m.pba[v] => r.irq[v] \/ r.m.pba[v]

(* Vectors of queues are pending only while messages are enabled.          *)
NonePending(s) == \A v \in Vectors \ {0} : ~s.m.pba[v]

(* set_msg_ctl loses no vector, enabling, masking or neither.              *)
LEMMA SetMsgCtlKeeps ==
  ASSUME NEW s, Sound(s), NEW e \in BOOLEAN, NEW m \in BOOLEAN, NonePending(s) \/ (s.m.enabled /\ e)
  PROVE  LET r == SetMsgCtl(s, e, m) IN Keeps(s, r) /\ r.m.enabled = e /\ (NonePending(s) => NonePending(r))
<1>. DEFINE old == s.m
            on == {v \in Vectors : ~old.entry[v]}
            new == [s EXCEPT !.m.enabled = e, !.m.masked = m]
            routed == IF old.masked = m /\ old.enabled = e THEN new
                      ELSE IF e /\ ~m THEN Unregister(Register(new, on), Vectors \ on)
                      ELSE IF old.enabled \/ ~old.masked THEN Unregister(new, Vectors)
                      ELSE new
            P == {v \in on : old.pba[v]}
            r == IF old.masked /\ ~m THEN InjectAndClear(routed, P) ELSE routed
<1>1. SetMsgCtl(s, e, m) = r
  BY DEF SetMsgCtl
<1>2. s \in TableType
  BY DEF Sound
<1>3. /\ new \in TableType /\ Same(s, new) /\ new.m.enabled = e /\ new.m.masked = m /\ new.m.entry = s.m.entry
      /\ new.m.pba = s.m.pba /\ new.m.irqfd = s.m.irqfd /\ new.m.eventfd = s.m.eventfd /\ new.irq = s.irq
  BY <1>2 DEF Same, TableType, MsixType
<1>. HIDE DEF new
<1>4. on \in SUBSET Vectors /\ Vectors \ on \in SUBSET Vectors /\ P \in SUBSET Vectors
      /\ \A v \in Vectors : v \in on <=> ~s.m.entry[v]
  OBVIOUS
<1>4a. \A v \in Vectors : v \in P <=> ~s.m.entry[v] /\ s.m.pba[v]
  OBVIOUS
<1>. HIDE DEF on, P
<1>5. /\ Same(s, routed) /\ routed.m.enabled = e /\ routed.m.masked = m /\ routed.m.entry = s.m.entry
      /\ routed.m.pba = s.m.pba
      /\ \A v \in Vectors \ {0} : ~routed.m.eventfd[v] /\ (routed.irq[v] <=> s.irq[v])
      /\ e /\ ~m => \A v \in Vectors : ~s.m.entry[v] => routed.m.irqfd[v]
  <2>0. \A v \in Vectors \ {0} : ~s.m.eventfd[v]
    BY DEF Sound
  <2>1. CASE old.masked = m /\ old.enabled = e
    <3>1. routed = new
      BY <2>1
    <3>. QED
      BY <1>3, <2>0, <2>1, <3>1 DEF Sound
  <2>2. CASE ~(old.masked = m /\ old.enabled = e) /\ e /\ ~m
    <3>. DEFINE g == Register(new, on)
    <3>1. routed = Unregister(g, Vectors \ on)
      BY <2>2
    <3>2. /\ Same(new, g) /\ g.m.enabled = new.m.enabled /\ g.m.masked = new.m.masked
          /\ g.m.entry = new.m.entry /\ g.m.pba = new.m.pba
          /\ \A v \in Vectors : /\ g.m.irqfd[v] <=> new.m.irqfd[v] \/ v \in on
                                /\ g.m.eventfd[v] <=> new.m.eventfd[v] /\ v \notin on
                                /\ g.irq[v] <=> new.irq[v] \/ (v \in on /\ new.m.eventfd[v])
      BY <1>3, <1>4, RegisterIs
    <3>. HIDE DEF g
    <3>3. g \in TableType
      BY <3>2 DEF Same
    <3>4. /\ Same(g, routed) /\ routed.m.enabled = g.m.enabled /\ routed.m.masked = g.m.masked
          /\ routed.m.entry = g.m.entry /\ routed.m.pba = g.m.pba /\ routed.m.eventfd = g.m.eventfd
          /\ routed.irq = g.irq
          /\ \A v \in Vectors : routed.m.irqfd[v] <=> g.m.irqfd[v] /\ v \notin Vectors \ on
      <4>. DEFINE u == Unregister(g, Vectors \ on)
      <4>1. /\ Same(g, u) /\ u.m.enabled = g.m.enabled /\ u.m.masked = g.m.masked
            /\ u.m.entry = g.m.entry /\ u.m.pba = g.m.pba /\ u.m.eventfd = g.m.eventfd /\ u.irq = g.irq
            /\ \A v \in Vectors : u.m.irqfd[v] <=> g.m.irqfd[v] /\ v \notin Vectors \ on
        BY <1>4, <3>3, UnregisterIs
      <4>. HIDE DEF u, routed
      <4>2. routed = u
        BY <3>1 DEF u
      <4>. QED
        BY <4>1, <4>2
    <3>. HIDE DEF routed
    <3>. QED
      BY <1>3, <1>4, <2>0, <3>2, <3>4 DEF Same
  <2>3. CASE ~(old.masked = m /\ old.enabled = e) /\ ~(e /\ ~m) /\ (old.enabled \/ ~old.masked)
    <3>1. routed = Unregister(new, Vectors)
      BY <2>3
    <3>2. /\ Same(new, routed) /\ routed.m.enabled = new.m.enabled /\ routed.m.masked = new.m.masked
          /\ routed.m.entry = new.m.entry /\ routed.m.pba = new.m.pba /\ routed.m.eventfd = new.m.eventfd
          /\ routed.irq = new.irq
      BY <1>3, <3>1, UnregisterIs
    <3>. HIDE DEF routed
    <3>. QED
      BY <1>3, <2>0, <2>3, <3>2 DEF Same
  <2>4. CASE ~(old.masked = m /\ old.enabled = e) /\ ~(e /\ ~m) /\ ~(old.enabled \/ ~old.masked)
    <3>1. routed = new
      BY <2>4
    <3>. QED
      BY <1>3, <2>0, <2>4, <3>1
  <2>. QED
    BY <2>1, <2>2, <2>3, <2>4
<1>. HIDE DEF routed
<1>6. routed \in TableType
  BY <1>5 DEF Same
<1>7. CASE ~(old.masked /\ ~m)
  <2>1. r = routed
    BY <1>7
  <2>2. \A v \in Vectors \ {0} : s.m.pba[v] => m \/ s.m.entry[v]
    BY <1>7 DEF Sound
  <2>3. Sound(r)
    BY <1>5, <1>6, <2>1, <2>2 DEF Sound
  <2>. QED
    BY <1>1, <1>5, <2>1, <2>3 DEF Keeps, NonePending
<1>8. CASE old.masked /\ ~m
  <2>1. r = InjectAndClear(routed, P)
    BY <1>8
  <2>2. /\ Same(routed, r) /\ r.m.enabled = routed.m.enabled /\ r.m.masked = routed.m.masked
        /\ r.m.entry = routed.m.entry /\ r.m.irqfd = routed.m.irqfd
        /\ \A v \in Vectors : /\ r.m.eventfd[v] <=> routed.m.eventfd[v] \/ (v \in P /\ ~routed.m.irqfd[v])
                              /\ r.irq[v] <=> routed.irq[v] \/ (v \in P /\ routed.m.irqfd[v])
                              /\ r.m.pba[v] <=> routed.m.pba[v] /\ v \notin P
    BY <1>4, <1>6, <2>1, InjectAndClearIs
  <2>. HIDE DEF r
  <2>3. Same(s, r) /\ r \in TableType
    BY <1>5, <2>2 DEF Same
  <2>4. \A v \in Vectors \ {0} : v \in P => routed.m.irqfd[v]
    BY <1>4a, <1>5, <1>8 DEF NonePending
  <2>5. Sound(r)
    BY <1>4a, <1>5, <2>2, <2>3, <2>4 DEF Sound
  <2>6. \A v \in Vectors \ {0} : s.irq[v] \/ s.m.pba[v] => r.irq[v] \/ r.m.pba[v]
    BY <1>5, <2>2, <2>4
  <2>. QED
    BY <1>1, <1>5, <2>2, <2>3, <2>5, <2>6 DEF Keeps, NonePending
<1>. QED
  BY <1>7, <1>8

(* write_table loses no vector, of an entry masked or unmasked.            *)
LEMMA WriteTableKeeps ==
  ASSUME NEW s, Sound(s), NEW v \in Vectors, NEW masked \in BOOLEAN, NonePending(s) \/ s.m.enabled
  PROVE  LET r == WriteTable(s, v, masked) IN
         Keeps(s, r) /\ r.m.enabled = s.m.enabled /\ (NonePending(s) => NonePending(r))
<1>. DEFINE new == [s EXCEPT !.m.entry[v] = masked]
            live == s.m.enabled /\ ~s.m.masked /\ ~masked
            routed == IF s.m.entry[v] # masked /\ live THEN Register(new, {v}) ELSE new
            r == IF live /\ s.m.entry[v] /\ s.m.pba[v] THEN InjectAndClear(routed, {v}) ELSE routed
<1>1. WriteTable(s, v, masked) = r
  BY DEF WriteTable
<1>2. s \in TableType /\ {v} \in SUBSET Vectors
  BY DEF Sound
<1>e. s.m.entry \in [Vectors -> BOOLEAN]
  BY <1>2, TableFields
<1>3. /\ new \in TableType /\ Same(s, new) /\ new.m.enabled = s.m.enabled /\ new.m.masked = s.m.masked
      /\ new.m.entry = [s.m.entry EXCEPT ![v] = masked]
      /\ new.m.pba = s.m.pba /\ new.m.irqfd = s.m.irqfd /\ new.m.eventfd = s.m.eventfd /\ new.irq = s.irq
  <2>1. [s.m.entry EXCEPT ![v] = masked] \in [Vectors -> BOOLEAN]
    BY <1>e
  <2>2. new = [s EXCEPT !.m.entry = [s.m.entry EXCEPT ![v] = masked]]
    BY <1>2 DEF TableType, MsixType
  <2>. DEFINE e == [s.m.entry EXCEPT ![v] = masked]
  <2>. HIDE DEF e, new
  <2>. QED
    BY <1>2, <2>1, <2>2 DEF e, Same, TableType, MsixType
<1>. HIDE DEF new
<1>4. /\ new.m.entry[v] <=> masked
      /\ \A w \in Vectors \ {v} : new.m.entry[w] <=> s.m.entry[w]
  BY <1>e, <1>3
<1>5. /\ Same(s, routed) /\ routed.m.enabled = s.m.enabled /\ routed.m.masked = s.m.masked
      /\ routed.m.entry = new.m.entry /\ routed.m.pba = s.m.pba
      /\ \A w \in Vectors \ {0} : ~routed.m.eventfd[w] /\ (routed.irq[w] <=> s.irq[w])
      /\ s.m.enabled /\ ~s.m.masked => \A w \in Vectors : ~new.m.entry[w] => routed.m.irqfd[w]
  <2>0. \A w \in Vectors \ {0} : ~s.m.eventfd[w]
    BY DEF Sound
  <2>1. s.m.enabled /\ ~s.m.masked => \A w \in Vectors : ~s.m.entry[w] => s.m.irqfd[w]
    BY DEF Sound
  <2>2. CASE ~((s.m.entry[v] # masked) /\ live)
    <3>1. routed = new
      BY <2>2
    <3>2. s.m.enabled /\ ~s.m.masked /\ ~masked => ~s.m.entry[v]
      BY <1>e, <2>2
    <3>. QED
      BY <1>3, <1>4, <2>0, <2>1, <3>1, <3>2
  <2>3. CASE (s.m.entry[v] # masked) /\ live
    <3>. DEFINE g == Register(new, {v})
    <3>1. routed = g
      BY <2>3
    <3>2. /\ Same(new, g) /\ g.m.enabled = new.m.enabled /\ g.m.masked = new.m.masked
          /\ g.m.entry = new.m.entry /\ g.m.pba = new.m.pba
          /\ \A w \in Vectors : /\ g.m.irqfd[w] <=> new.m.irqfd[w] \/ w \in {v}
                                /\ g.m.eventfd[w] <=> new.m.eventfd[w] /\ w \notin {v}
                                /\ g.irq[w] <=> new.irq[w] \/ (w \in {v} /\ new.m.eventfd[w])
      BY <1>2, <1>3, RegisterIs
    <3>. HIDE DEF g, routed
    <3>. QED
      BY <1>3, <1>4, <2>0, <2>1, <3>1, <3>2 DEF Same
  <2>. QED
    BY <2>2, <2>3
<1>. HIDE DEF routed
<1>6. routed \in TableType
  BY <1>5 DEF Same
<1>p. \A w \in Vectors \ {0} : s.m.pba[w] => s.m.masked \/ s.m.entry[w]
  BY DEF Sound
<1>7. CASE ~(live /\ s.m.entry[v] /\ s.m.pba[v])
  <2>1. r = routed
    BY <1>7
  <2>2. \A w \in Vectors \ {0} : routed.m.pba[w] => routed.m.masked \/ routed.m.entry[w]
    <3>. SUFFICES ASSUME NEW w \in Vectors \ {0}, s.m.pba[w] PROVE s.m.masked \/ new.m.entry[w]
      BY <1>5
    <3>1. CASE w # v
      BY <1>4, <1>p, <3>1
    <3>2. CASE w = v
      <4>. SUFFICES ASSUME ~s.m.masked, ~masked PROVE FALSE
        BY <1>4, <3>2
      <4>1. s.m.entry[v]
        BY <1>p, <3>2
      <4>2. ~s.m.enabled
        BY <1>7, <3>2, <4>1
      <4>. QED
        BY <4>2 DEF NonePending
    <3>. QED
      BY <3>1, <3>2
  <2>3. Sound(r)
    BY <1>5, <1>6, <2>1, <2>2 DEF Sound
  <2>. QED
    BY <1>1, <1>5, <2>1, <2>3 DEF Keeps, NonePending
<1>8. CASE live /\ s.m.entry[v] /\ s.m.pba[v]
  <2>1. r = InjectAndClear(routed, {v})
    BY <1>8
  <2>2. /\ Same(routed, r) /\ r.m.enabled = routed.m.enabled /\ r.m.masked = routed.m.masked
        /\ r.m.entry = routed.m.entry /\ r.m.irqfd = routed.m.irqfd
        /\ \A w \in Vectors : /\ r.m.eventfd[w] <=> routed.m.eventfd[w] \/ (w \in {v} /\ ~routed.m.irqfd[w])
                              /\ r.irq[w] <=> routed.irq[w] \/ (w \in {v} /\ routed.m.irqfd[w])
                              /\ r.m.pba[w] <=> routed.m.pba[w] /\ w \notin {v}
    BY <1>2, <1>6, <2>1, InjectAndClearIs
  <2>. HIDE DEF r
  <2>3. Same(s, r) /\ r \in TableType
    BY <1>5, <2>2 DEF Same
  <2>4. routed.m.irqfd[v]
    BY <1>4, <1>5, <1>8
  <2>5. Sound(r)
    BY <1>4, <1>5, <1>p, <2>2, <2>3, <2>4 DEF Sound
  <2>6. \A w \in Vectors \ {0} : s.irq[w] \/ s.m.pba[w] => r.irq[w] \/ r.m.pba[w]
    BY <1>5, <2>2, <2>4
  <2>. QED
    BY <1>1, <1>5, <2>2, <2>3, <2>5, <2>6 DEF Keeps, NonePending
<1>. QED
  BY <1>7, <1>8

(* A trigger is taken at once or stays pending.                            *)
LEMMA TriggerKeeps ==
  ASSUME NEW s, Sound(s), NEW v \in Vectors \cup {NoVector}, v \in {0, NoVector} \/ s.m.enabled
  PROVE  LET r == Trigger(s, v) IN
         /\ Keeps(s, r) /\ r.m.enabled = s.m.enabled
         /\ v \in {0, NoVector} /\ NonePending(s) => NonePending(r)
         /\ v \in Vectors \ {0} => r.irq[v] \/ r.m.pba[v]
<1>. DEFINE r == Trigger(s, v)
            h == [s EXCEPT !.m.pba[v] = TRUE]
<1>1. s \in TableType /\ Same(s, s)
  BY DEF Sound, Same
<1>p. s.m.pba \in [Vectors -> BOOLEAN]
  BY <1>1, TableFields
<1>0. NoVector \notin Vectors
  BY DEF NoVector, Vectors
<1>2. CASE v = NoVector
  BY <1>0, <1>1, <1>2 DEF Trigger, Keeps
<1>3. CASE v # NoVector /\ (s.m.masked \/ s.m.entry[v])
  <2>1. r = h
    BY <1>3 DEF Trigger
  <2>2. /\ h \in TableType /\ Same(s, h) /\ h.m.enabled = s.m.enabled /\ h.m.masked = s.m.masked /\ h.m.entry = s.m.entry
        /\ h.m.pba = [s.m.pba EXCEPT ![v] = TRUE]
        /\ h.m.irqfd = s.m.irqfd /\ h.m.eventfd = s.m.eventfd /\ h.irq = s.irq
    <3>1. [s.m.pba EXCEPT ![v] = TRUE] \in [Vectors -> BOOLEAN]
      BY <1>p
    <3>2. h = [s EXCEPT !.m.pba = [s.m.pba EXCEPT ![v] = TRUE]]
      BY <1>1 DEF TableType, MsixType
    <3>. DEFINE e == [s.m.pba EXCEPT ![v] = TRUE]
    <3>. HIDE DEF e, h
    <3>. QED
      BY <1>1, <3>1, <3>2 DEF e, Same, TableType, MsixType
  <2>3. /\ v \in Vectors => h.m.pba[v]
        /\ \A w \in Vectors \ {v} : h.m.pba[w] <=> s.m.pba[w]
    BY <1>p, <2>2
  <2>. HIDE DEF h, r
  <2>4. Sound(h)
    BY <1>3, <2>2, <2>3 DEF Sound
  <2>5. \A w \in Vectors \ {0} : s.irq[w] \/ s.m.pba[w] => h.irq[w] \/ h.m.pba[w]
    BY <2>2, <2>3
  <2>6. v \in {0, NoVector} /\ NonePending(s) => NonePending(h)
    BY <1>3, <2>3 DEF NonePending
  <2>. QED
    BY <1>3, <2>1, <2>2, <2>3, <2>4, <2>5, <2>6 DEF Keeps, r
<1>4. CASE v # NoVector /\ ~(s.m.masked \/ s.m.entry[v])
  <2>1. r = Inject(s, {v}) /\ {v} \in SUBSET Vectors /\ v \in Vectors
    BY <1>4 DEF Trigger
  <2>2. /\ Same(s, r) /\ r.m.enabled = s.m.enabled /\ r.m.masked = s.m.masked
        /\ r.m.entry = s.m.entry /\ r.m.pba = s.m.pba /\ r.m.irqfd = s.m.irqfd
        /\ \A w \in Vectors : /\ r.m.eventfd[w] <=> s.m.eventfd[w] \/ (w \in {v} /\ ~s.m.irqfd[w])
                              /\ r.irq[w] <=> s.irq[w] \/ (w \in {v} /\ s.m.irqfd[w])
    BY <1>1, <2>1, InjectIs
  <2>. HIDE DEF r
  <2>3. v # 0 => s.m.irqfd[v]
    BY <1>4, <2>1 DEF Sound
  <2>4. Sound(r)
    BY <2>2, <2>3 DEF Sound, Same
  <2>5. \A w \in Vectors \ {0} : s.irq[w] \/ s.m.pba[w] => r.irq[w] \/ r.m.pba[w]
    BY <2>2
  <2>. QED
    BY <2>1, <2>2, <2>3, <2>4, <2>5 DEF Keeps, NonePending, r
<1>. QED
  BY <1>2, <1>3, <1>4

(* The steps that write registers, and the guest's own, keep the table.    *)
(* ActivateOk is only taken with every vector of a queue in place.         *)
Activates == ~cc.active /\ cc'.active
ReadyVectors == msix.enabled /\ \A q \in Queues : msix.queue[q] # NoVector

(* A table that is set is the table.                                       *)
LEMMA TakesTable == ASSUME NEW r \in TableType, SetInterrupts(r) PROVE Interrupts' = r
BY DEF SetInterrupts, Interrupts, TableType

(* There is a vector for the configuration.                                *)
LEMMA ZeroVector == ASSUME dev \in Devices PROVE 0 \in Vectors
<1>1. IsFiniteSet({0}) /\ IsFiniteSet({0} \cup {1})
  <2>1. IsFiniteSet({0})
    BY FS_Singleton
  <2>. QED
    BY <2>1, FS_AddElement
<1>2. {RX, TX} = {0} \cup {1} /\ {0} = {0}
  BY DEF RX, TX
<1>3. IsFiniteSet(Queues)
  BY <1>1, <1>2 DEF Queues
<1>4. Cardinality(Queues) \in Nat
  BY <1>3, FS_CardinalityType
<1>. QED
  BY <1>4 DEF Vectors

(* A status keeps the table, and activates with the last step only.        *)
LEMMA StatusKeeps ==
  ASSUME RegisterInv, Sound(Interrupts), NEW n \in 0..4, WriteStatus(n)
  PROVE  /\ dev' = dev /\ Keeps(Interrupts, Interrupts') /\ msix'.enabled = msix.enabled
         /\ NonePending(Interrupts) => NonePending(Interrupts')
         /\ Activates => ActivateOk /\ cc'.step = 4 /\ ~cc'.failed /\ ~cc'.needsReset
                         /\ NeedsActivation(SetDeviceStatus(cc, n))
<1>t. cc \in ConfigType /\ Interrupts = [m |-> msix, irq |-> irq] /\ Interrupts.m = msix /\ Interrupts.irq = irq
      /\ Interrupts \in TableType /\ Same(Interrupts, Interrupts)
  BY DEF RegisterInv, Interrupts, Sound, Same
<1>1. CASE UNCHANGED <<msix, irq>>
  <2>1. Interrupts' = Interrupts
    BY <1>1 DEF Interrupts
  <2>2. Keeps(Interrupts, Interrupts')
    BY <1>t, <2>1 DEF Keeps
  <2>3. Activates => ActivateOk /\ NeedsActivation(SetDeviceStatus(cc, n))
    <3>1. SetDeviceStatus(cc, n).active = cc.active
      BY <1>t, StatusFact
    <3>2. ActivateFails => cc'.active = cc.active
      <4>1. 4 \in 0..4
        OBVIOUS
      <4>2. SetDeviceStatus(cc, 4).active = cc.active /\ SetDeviceStatus(cc, 4) \in ConfigType
        BY <1>t, <4>1, StatusFact, Zenon
      <4>. QED
        BY <4>2 DEF ActivateFails, ConfigType
    <3>. QED
      BY <3>1, <3>2 DEF WriteStatus, Activates
  <2>4. ActivateOk /\ NeedsActivation(SetDeviceStatus(cc, n)) => cc'.step = 4 /\ ~cc'.failed /\ ~cc'.needsReset
    BY <1>t DEF ActivateOk, NeedsActivation, SetDeviceStatus, At, ConfigType
  <2>. QED
    BY <1>1, <1>t, <2>1, <2>2, <2>3, <2>4 DEF WriteStatus
<1>2. CASE ActivateFails
  <2>1. msix.config \in {0, NoVector}
    BY <1>t DEF TableType, MsixType
  <2>2. msix.config \in Vectors \cup {NoVector}
    BY <2>1, ZeroVector DEF RegisterInv
  <2>. DEFINE r == Trigger(Interrupts, msix.config)
  <2>3. /\ Keeps(Interrupts, r) /\ r.m.enabled = msix.enabled
        /\ NonePending(Interrupts) => NonePending(r)
    BY <1>t, <2>1, <2>2, TriggerKeeps
  <2>4. SetInterrupts(r)
    BY <1>2 DEF ActivateFails
  <2>. HIDE DEF r
  <2>5. Interrupts' = r
    BY <2>3, <2>4, TakesTable DEF Keeps, Same
  <2>6. ~Activates
    <3>1. 4 \in 0..4
      OBVIOUS
    <3>2. SetDeviceStatus(cc, 4).active = cc.active /\ SetDeviceStatus(cc, 4) \in ConfigType
      BY <1>t, <3>1, StatusFact, Zenon
    <3>. QED
      BY <1>2, <3>2 DEF ActivateFails, ConfigType, Activates
  <2>7. r.m = msix'
    BY <2>4 DEF SetInterrupts
  <2>. QED
    BY <2>3, <2>5, <2>6, <2>7 DEF WriteStatus
<1>. QED
  BY <1>1, <1>2 DEF WriteStatus, ActivateOk

(* Before the activation only registers are written, and the table; the    *)
(* status that activates is the last one, with all vectors in place.       *)
LEMMA ProbeSteps ==
  ASSUME RegisterInv, RingInv, drv.phase # "reset", ~cc.active, [Next]_vars
  PROVE  /\ UNCHANGED <<dev, ring, drv, kick, loop>>
         /\ \/ \E n \in 0..4 : WriteStatus(n) /\ (NeedsActivation(SetDeviceStatus(cc, n)) => ReadyVectors)
            \/ /\ cc'.active = cc.active /\ UNCHANGED <<msix, irq>>
               /\ \A q \in Queues : queues'[q].added = queues[q].added
            \/ \E q \in Queues, v \in {1, 2, 9} : WriteVector(q, v)
            \/ WriteConfigVector(0)
            \/ \E e, m \in BOOLEAN : WriteMsgCtl(e, m)
            \/ \E v \in Vectors : WriteEntry(v, FALSE)
<1>. DEFINE Idle == UNCHANGED <<dev, ring, drv, kick, loop>>
            Kept == /\ cc'.active = cc.active /\ UNCHANGED <<msix, irq>>
                    /\ \A q \in Queues : queues'[q].added = queues[q].added
<1>1. cc \in ConfigType /\ queues \in [Queues -> QueueType] /\ ~Live /\ loop.pc = "wait" /\ ~loop.on
  BY DEF RegisterInv, RingInv, ProbeInv, Live
<1>2. ASSUME NEW n \in 0..4, WriteStatus(n) PROVE Idle
  BY <1>2 DEF WriteStatus
<1>3. ASSUME NEW n \in 0..3, WriteStatus(n), Probing \/ n = 0 PROVE ~NeedsActivation(SetDeviceStatus(cc, n))
  BY <1>1, <1>3 DEF Probing, NeedsActivation, SetDeviceStatus, At, ConfigType
<1>4. ASSUME NEW q \in Queues, NEW new \in QueueType, UpdateQueueField(q, new), new.added = queues[q].added PROVE Idle /\ Kept
  BY <1>1, <1>4 DEF UpdateQueueField
<1>5. CASE Probe
  <2>1. CASE ProbeStatus
    <3>1. PICK n \in 0..3 : WriteStatus(n) /\ Probing
      BY <2>1 DEF ProbeStatus
    <3>2. n \in 0..4
      BY <3>1
    <3>. QED
      BY <1>2, <1>3, <3>1, <3>2
  <2>2. CASE ProbeReady
    <3>1. 4 \in 0..4 /\ WriteStatus(4) /\ ReadyVectors
      BY <2>2 DEF ProbeReady, ReadyVectors
    <3>. QED
      BY <1>2, <3>1, Zenon
  <2>3. CASE ProbeFeatures
    BY <1>1, <2>3 DEF ProbeFeatures, WriteFeatures, ConfigType
  <2>4. CASE ProbeQueue
    <3>. PICK q \in Queues :
           \/ \E n \in Sizes[dev] : WriteQueueSize(q, n)
           \/ \E p \in Parts[dev], a \in {"good", "bad"} : queues[q].addr[p] # "good" /\ WriteQueueAddress(q, p, a)
           \/ WriteQueueEnable(q)
      BY <2>4 DEF ProbeQueue
    <3>1. CASE \E n \in Sizes[dev] : WriteQueueSize(q, n)
      <4>1. PICK n \in Sizes[dev] : WriteQueueSize(q, n)
        BY <3>1
      <4>2. n \in Nat
        BY <4>1, VirtioAssumption DEF RegisterInv
      <4>. QED
        BY <1>1, <1>4, <4>1, <4>2 DEF WriteQueueSize, QueueType
    <3>2. CASE \E p \in Parts[dev], a \in {"good", "bad"} : WriteQueueAddress(q, p, a)
      BY <1>1, <1>4, <3>2 DEF WriteQueueAddress, QueueType, Addresses
    <3>3. CASE WriteQueueEnable(q)
      BY <1>1, <1>4, <3>3 DEF WriteQueueEnable, QueueType
    <3>. QED
      BY <3>1, <3>2, <3>3
  <2>5. CASE ProbeVectors
    BY <2>5 DEF ProbeVectors, WriteVector, WriteConfigVector
  <2>6. CASE ProbeMsix
    BY <2>6 DEF ProbeMsix, WriteMsgCtl, WriteEntry
  <2>7. CASE ProbeEnds
    BY <2>7 DEF ProbeEnds
  <2>8. CASE ProbeFails
    BY <1>1, <2>8 DEF ProbeFails, WriteFailed, ConfigType
  <2>9. CASE ProbeAgain
    <3>1. WriteStatus(0) /\ 0 \in 0..3 /\ 0 \in 0..4 /\ 0 = 0
      BY <2>9 DEF ProbeAgain
    <3>. QED
      BY <1>2, <1>3, <3>1, Zenon
  <2>. QED
    BY <1>5, <2>1, <2>2, <2>3, <2>4, <2>5, <2>6, <2>7, <2>8, <2>9 DEF Probe
<1>6. CASE Driver
  BY <1>1, <1>6 DEF Driver, Mask, UnmaskAll, Request, OfferBuffer, SendFrame, Publish, Reset, SetUpAgain,
       UnmaskEntry, TakeInterrupt, Kick, Collect, Arm, Rest
<1>7. CASE Device
  BY <1>1, <1>7 DEF Device, ProcessActivateEvent, ProcessPasst, ProcessQueueEvent, Working, TakeDeferred,
       ReadHeader, ReadBody, ReadNothing, Pop, PopNothing, EnableNotification, PopAgain, StillNothing, PopStray,
       AdvanceUsed, Notify
<1>8. CASE Passt
  BY <1>8 DEF Passt, PasstSends, PasstTakes, PasstExits
<1>9. CASE UNCHANGED vars
  BY <1>9 DEF vars
<1>. QED
  BY <1>5, <1>6, <1>7, <1>8, <1>9 DEF Next

(* At the activation both sides are at the beginning.                      *)
LEMMA ActivationWakes ==
  ASSUME RegisterInv, SharedType, ProbeInv, FreshInv, ~cc.active, ActivateOk, UNCHANGED <<dev, ring, drv, kick, loop>>,
         NEW q \in Queues
  PROVE  KickInv(q)' /\ TellInv(q)'
<1>1. /\ ring[q].availEvent = 0 /\ ring[q].usedEvent = 0 /\ queues[q].added = 0
      /\ drv.told[q] = 0 /\ drv.poll[q] = "idle" /\ ring[q].availIdx = 0 /\ ring[q].usedIdx = 0
      /\ queues[q].nextAvail = 0 /\ queues[q].nextUsed = 0 /\ drv.last[q] = 0 /\ loop.pc = "wait"
  BY DEF FreshInv, ProbeInv
<1>2. queues[q] \in QueueType /\ cc \in ConfigType
  BY DEF RegisterInv
<1>3. queues'[q] = [queues[q] EXCEPT !.ptr = queues[q].addr, !.suppress = cc.eventIdx]
  BY DEF ActivateOk
<1>4. /\ queues'[q].added = 0 /\ queues'[q].nextAvail = 0 /\ queues'[q].nextUsed = 0
      /\ queues'[q].suppress = cc.eventIdx
  BY <1>1, <1>2, <1>3 DEF QueueType
<1>5. cc'.eventIdx = cc.eventIdx
  BY <1>2 DEF ActivateOk, SetDeviceStatus, ConfigType
<1>6. Minus(0, 0) = 0
  <2>1. 0 \in Indices /\ dev \in Devices
    BY ModulusFact DEF Indices, RegisterInv
  <2>. QED
    BY <2>1, Distances, Zenon
<1>7. Waiting(q)' = 0 /\ Unannounced(q)' = 0 /\ Fresh(q)' = 0
  BY <1>1, <1>4, <1>6 DEF Waiting, Unannounced, Fresh
<1>8. KickInv(q)'
  BY <1>1, <1>4, <1>5, <1>7 DEF KickInv
<1>9. TellInv(q)'
  BY <1>1, <1>4, <1>7 DEF TellInv, AtQueue
<1>. QED
  BY <1>8, <1>9

(* Every step before the activation, and the activation.                   *)
LEMMA WakeBefore ==
  ASSUME RegisterInv, RingInv, WakeInv, drv.phase # "reset", ~cc.active, [Next]_vars
  PROVE  WakeInv'
<1>1. SharedType /\ ProbeInv /\ MsixInv /\ FreshInv /\ loop.pc = "wait"
  BY DEF RingInv, ProbeInv, WakeInv
<1>2. UNCHANGED <<dev, ring, drv, kick, loop>>
  BY ProbeSteps
<1>3. Queues' = Queues /\ Vectors' = Vectors /\ cc \in ConfigType /\ queues \in [Queues -> QueueType]
  BY <1>2 DEF Queues, Vectors, RegisterInv
<1>t. Interrupts.m = msix /\ Interrupts.irq = irq /\ Interrupts \in TableType /\ Sound(Interrupts) /\ NonePending(Interrupts)
  BY <1>1 DEF MsixInv, Interrupts, Sound, NonePending
<1>tt. Interrupts'.m = msix' /\ Interrupts'.irq = irq'
  BY DEF Interrupts
<1>4. ASSUME Sound(Interrupts'), NonePending(Interrupts'), ~cc'.active,
             \A q \in Queues : queues'[q].added = queues[q].added
      PROVE  WakeInv'
  <2>1. Sound(Interrupts)'
    <3>1. \A v \in Vectors \ {0} : ~Interrupts'.m.eventfd[v]
      BY <1>4 DEF Sound
    <3>. QED
      BY <1>2, <1>3, <1>4 DEF Sound, TableType, MsixType
  <2>2. \A v \in Vectors \ {0} : ~msix'.pba[v]
    BY <1>4, <1>tt DEF NonePending
  <2>3. MsixInv'
    BY <1>3, <1>4, <2>1, <2>2 DEF MsixInv
  <2>4. FreshInv'
    BY <1>1, <1>2, <1>3, <1>4 DEF FreshInv
  <2>. QED
    BY <1>1, <1>2, <1>3, <1>4, <2>3, <2>4 DEF WakeInv
<1>5. ASSUME NEW n \in 0..4, WriteStatus(n), NeedsActivation(SetDeviceStatus(cc, n)) => ReadyVectors PROVE WakeInv'
  <2>1. /\ Keeps(Interrupts, Interrupts') /\ msix'.enabled = msix.enabled /\ NonePending(Interrupts')
        /\ Activates => ActivateOk /\ cc'.step = 4 /\ ~cc'.failed /\ ~cc'.needsReset
                        /\ NeedsActivation(SetDeviceStatus(cc, n))
    BY <1>5, <1>t, StatusKeeps
  <2>2. CASE Activates
    <3>1. ActivateOk /\ ReadyVectors /\ Sound(Interrupts') /\ msix'.queue = msix.queue
      BY <1>5, <1>t, <1>tt, <2>1, <2>2 DEF Keeps, Same
    <3>2. \A q \in Queues : KickInv(q)' /\ TellInv(q)'
      BY <1>1, <1>2, <3>1, ActivationWakes
    <3>3. \A q \in Queues : msix.queue[q] \in Vectors \ {0}
      BY <1>t, <3>1 DEF ReadyVectors, TableType, MsixType
    <3>4. Sound(Interrupts)'
      BY <1>2, <1>3, <3>1 DEF Sound, TableType, MsixType
    <3>5. MsixInv'
      BY <1>3, <1>tt, <2>1, <2>2, <3>1, <3>3, <3>4 DEF MsixInv, ReadyVectors, NonePending
    <3>6. cc'.active
      BY <2>2 DEF Activates
    <3>. QED
      BY <1>1, <1>2, <1>3, <3>2, <3>5, <3>6 DEF WakeInv, FreshInv
  <2>3. CASE ~Activates
    <3>1. ~cc'.active
      <4>1. cc'.active \in BOOLEAN
        BY <1>5, RegisterStep DEF RegisterInv, ConfigType
      <4>. QED
        BY <2>3 DEF Activates
    <3>2. ~ActivateOk
      <4>1. SetDeviceStatus(cc, 4) \in ConfigType
        <5>1. 4 \in 0..4
          OBVIOUS
        <5>. QED
          BY <1>3, <5>1, StatusFact, Zenon
      <4>. QED
        BY <3>1, <4>1 DEF ActivateOk, ConfigType
    <3>3. queues' = queues
      BY <1>5, <3>2 DEF WriteStatus, ActivateFails
    <3>. QED
      BY <1>4, <2>1, <3>1, <3>3 DEF Keeps
  <2>. QED
    BY <2>2, <2>3
<1>6. CASE /\ cc'.active = cc.active /\ UNCHANGED <<msix, irq>>
           /\ \A q \in Queues : queues'[q].added = queues[q].added
  <2>1. Interrupts' = Interrupts
    BY <1>6 DEF Interrupts
  <2>. QED
    BY <1>4, <1>6, <1>t, <2>1
<1>7. ASSUME NEW q \in Queues, NEW v \in {1, 2, 9}, WriteVector(q, v) PROVE WakeInv'
  <2>. DEFINE w == IF v \in Vectors THEN v ELSE NoVector
              f == [msix.queue EXCEPT ![q] = w]
  <2>1. w \in (Vectors \ {0}) \cup {NoVector}
    OBVIOUS
  <2>2. msix \in MsixType /\ msix.queue \in [Queues -> (Vectors \ {0}) \cup {NoVector}]
    BY <1>t DEF TableType, MsixType
  <2>3. f \in [Queues -> (Vectors \ {0}) \cup {NoVector}]
    BY <2>1, <2>2
  <2>4. msix' = [msix EXCEPT !.queue = f]
    BY <1>7, <2>2 DEF WriteVector, MsixType
  <2>. HIDE DEF f
  <2>5. /\ msix' \in MsixType /\ msix'.enabled = msix.enabled /\ msix'.masked = msix.masked /\ msix'.entry = msix.entry
        /\ msix'.pba = msix.pba /\ msix'.irqfd = msix.irqfd /\ msix'.eventfd = msix.eventfd
    BY <2>2, <2>3, <2>4 DEF MsixType
  <2>6. UNCHANGED <<irq, cc, queues>>
    BY <1>7 DEF WriteVector
  <2>7. Interrupts' \in TableType
    BY <1>t, <2>5, <2>6 DEF TableType, Interrupts
  <2>8. Sound(Interrupts') /\ NonePending(Interrupts')
    BY <1>t, <1>tt, <2>5, <2>7 DEF Sound, NonePending
  <2>. QED
    BY <1>4, <2>6, <2>8
<1>8. CASE WriteConfigVector(0)
  <2>1. msix \in MsixType
    BY <1>t DEF TableType
  <2>2. /\ msix' \in MsixType /\ msix'.enabled = msix.enabled /\ msix'.masked = msix.masked /\ msix'.entry = msix.entry
        /\ msix'.pba = msix.pba /\ msix'.irqfd = msix.irqfd /\ msix'.eventfd = msix.eventfd
    BY <1>8, <2>1 DEF MsixType, WriteConfigVector
  <2>3. UNCHANGED <<irq, cc, queues>>
    BY <1>8 DEF WriteConfigVector
  <2>4. Interrupts' \in TableType
    BY <1>t, <2>2, <2>3 DEF TableType, Interrupts
  <2>5. Sound(Interrupts') /\ NonePending(Interrupts')
    BY <1>t, <1>tt, <2>2, <2>4 DEF Sound, NonePending
  <2>. QED
    BY <1>4, <2>3, <2>5
<1>9. ASSUME NEW e \in BOOLEAN, NEW m \in BOOLEAN, WriteMsgCtl(e, m) PROVE WakeInv'
  <2>. DEFINE r == SetMsgCtl(Interrupts, e, m)
  <2>1. Keeps(Interrupts, r) /\ NonePending(r)
    BY <1>t, SetMsgCtlKeeps
  <2>2. SetInterrupts(r) /\ UNCHANGED <<cc, queues>>
    BY <1>9 DEF WriteMsgCtl
  <2>. HIDE DEF r
  <2>3. Interrupts' = r
    BY <2>1, <2>2, TakesTable DEF Keeps, Same
  <2>. QED
    BY <1>4, <2>1, <2>2, <2>3 DEF Keeps
<1>10. ASSUME NEW v \in Vectors, WriteEntry(v, FALSE) PROVE WakeInv'
  <2>. DEFINE r == WriteTable(Interrupts, v, FALSE)
  <2>1. Keeps(Interrupts, r) /\ NonePending(r)
    BY <1>t, WriteTableKeeps
  <2>2. SetInterrupts(r) /\ UNCHANGED <<cc, queues>>
    BY <1>10 DEF WriteEntry
  <2>. HIDE DEF r
  <2>3. Interrupts' = r
    BY <2>1, <2>2, TakesTable DEF Keeps, Same
  <2>. QED
    BY <1>4, <2>1, <2>2, <2>3 DEF Keeps
<1>. QED
  BY <1>5, <1>6, <1>7, <1>8, <1>9, <1>10, ProbeSteps

(* Once the device is active only the guest, the event loop and passt move.*)
Still == UNCHANGED <<queues, ring, kick, loop, msix, irq>>
         /\ drv'.told = drv.told /\ drv'.last = drv.last /\ drv'.poll = drv.poll

(* The steps that are left then, and none of them writes a register.       *)
LEMMA ActiveSteps ==
  ASSUME RegisterInv, RingInv, MsixInv, drv.phase # "reset", drv'.phase # "reset", cc.active, [Next]_vars
  PROVE  /\ UNCHANGED <<dev, cc>>
         /\ \/ Still
            \/ Mask \/ UnmaskAll \/ \E v \in 0..2 : UnmaskEntry(v) \/ TakeInterrupt(v)
            \/ \E q \in Queues : \E h : \E c \in ChainOf(q) : Publish(q, h, c)
            \/ \E q \in Queues : Kick(q) \/ Collect(q) \/ Arm(q) \/ Rest(q)
            \/ ProcessActivateEvent \/ ProcessPasst \/ Working
            \/ \E q \in Queues : ProcessQueueEvent(q)
<1>. DEFINE Goal ==
         /\ UNCHANGED <<dev, cc>>
         /\ \/ Still
            \/ Mask \/ UnmaskAll \/ \E v \in 0..2 : UnmaskEntry(v) \/ TakeInterrupt(v)
            \/ \E q \in Queues : \E h : \E c \in ChainOf(q) : Publish(q, h, c)
            \/ \E q \in Queues : Kick(q) \/ Collect(q) \/ Arm(q) \/ Rest(q)
            \/ ProcessActivateEvent \/ ProcessPasst \/ Working
            \/ \E q \in Queues : ProcessQueueEvent(q)
<1>1. cc.step = 4 /\ ~cc.failed /\ ~cc.needsReset /\ dev \in Devices /\ drv \in DriverType
  BY DEF MsixInv, RegisterInv, RingInv, SharedType
<1>q. dev \in {"block", "net"} /\ (dev = "block" => Queues = {0}) /\ (dev = "net" => Queues = {RX, TX})
  BY <1>1, QueuesFact
<1>2. CASE Probe
  <2>1. ~Probing
    BY <1>1 DEF Probing
  <2>2. ProbeEnds
    BY <1>1, <1>2, <2>1 DEF Probe, ProbeStatus, ProbeReady, ProbeFeatures, ProbeQueue, ProbeVectors, ProbeMsix,
         ProbeFails, ProbeAgain
  <2>3. Still /\ UNCHANGED <<dev, cc>>
    BY <1>1, <2>2 DEF ProbeEnds, Still, DriverType
  <2>. QED
    BY <2>3
<1>3. CASE Driver
  <2>1. CASE Mask \/ UnmaskAll \/ \E v \in 0..2 : UnmaskEntry(v) \/ TakeInterrupt(v)
    <3>1. UNCHANGED <<dev, cc>>
      BY <2>1 DEF Mask, UnmaskAll, UnmaskEntry, TakeInterrupt, WriteMsgCtl, WriteEntry
    <3>. QED
      BY <2>1, <3>1
  <2>2. ASSUME NEW q \in Queues, NEW h, NEW c \in ChainOf(q), Publish(q, h, c) PROVE Goal
    <3>1. UNCHANGED <<dev, cc>>
      BY <2>2 DEF Publish
    <3>. QED
      BY <2>2, <3>1
  <2>3. CASE Request
    <3>0. PICK h \in DOMAIN Chains : \E c \in Chains[h] : dev = "block" /\ Publish(0, h, c)
      BY <2>3 DEF Request
    <3>1. PICK c \in Chains[h] : dev = "block" /\ Publish(0, h, c)
      BY <3>0
    <3>2. c \in ChainOf(0) /\ 0 \in Queues
      BY <1>q, <3>1, VirtioAssumption DEF ChainOf
    <3>. QED
      BY <2>2, <3>1, <3>2
  <2>4. CASE OfferBuffer
    <3>1. PICK h : dev = "net" /\ Publish(RX, h, 0)
      BY <2>4 DEF OfferBuffer
    <3>2. 0 \in ChainOf(RX) /\ RX \in Queues
      BY <1>q, <3>1 DEF ChainOf
    <3>. QED
      BY <2>2, <3>1, <3>2
  <2>5. CASE SendFrame
    <3>1. PICK h : dev = "net" /\ Publish(TX, h, drv.sent + 1)
      BY <2>5 DEF SendFrame
    <3>2. drv.sent + 1 \in ChainOf(TX) /\ TX \in Queues
      BY <1>1, <1>q, <3>1 DEF ChainOf, DriverType
    <3>. QED
      BY <2>2, <3>1, <3>2
  <2>6. ASSUME NEW q \in {RX, TX}, Kick(q) \/ Collect(q) \/ Arm(q) \/ Rest(q) PROVE Goal
    <3>1. UNCHANGED <<dev, cc>> /\ q \in Queues
      BY <2>6 DEF Kick, Collect, Arm, Rest
    <3>. QED
      BY <2>6, <3>1
  <2>7. ~Reset /\ ~SetUpAgain
    BY <1>1 DEF Reset, SetUpAgain, NewDriver
  <2>. QED
    BY <1>3, <2>1, <2>2, <2>3, <2>4, <2>5, <2>6, <2>7 DEF Driver
<1>4. CASE Device
  <2>1. UNCHANGED <<dev, cc>>
    <3>1. CASE ProcessActivateEvent \/ ProcessPasst \/ \E q \in Queues : ProcessQueueEvent(q)
      BY <3>1 DEF ProcessActivateEvent, ProcessPasst, ProcessQueueEvent
    <3>2. CASE Working
      <4>1. CASE TakeDeferred \/ ReadHeader \/ ReadBody \/ ReadNothing
        BY <4>1 DEF TakeDeferred, ReadHeader, ReadBody, ReadNothing
      <4>2. CASE Pop \/ PopAgain
        BY <4>2 DEF Pop, PopAgain, Serve
      <4>3. CASE PopNothing \/ EnableNotification \/ StillNothing \/ PopStray \/ AdvanceUsed \/ Notify
        BY <4>3 DEF PopNothing, EnableNotification, StillNothing, PopStray, AdvanceUsed, Notify
      <4>. QED
        BY <3>2, <4>1, <4>2, <4>3 DEF Working
    <3>. QED
      BY <1>4, <3>1, <3>2 DEF Device
  <2>. QED
    BY <1>4, <2>1 DEF Device
<1>5. CASE Passt
  BY <1>5 DEF Passt, PasstSends, PasstTakes, PasstExits, Still
<1>6. CASE UNCHANGED vars
  BY <1>6 DEF vars, Still
<1>. QED
  BY <1>2, <1>3, <1>4, <1>5, <1>6 DEF Next

(* What a queue has stopped at stays.                                      *)
LEMMA StalledSame ==
  ASSUME NEW q, dev' = dev, queues'[q].nextAvail = queues[q].nextAvail, queues'[q].size = queues[q].size,
         ring'[q].availIdx = ring[q].availIdx, ring'[q].avail = ring[q].avail, ring'[q].chain = ring[q].chain
  PROVE  Stalled(q)' <=> Stalled(q)
BY DEF Stalled, Stray, Available, HeadOf

(* What leaves the reasons to be woken as they are.                        *)
LEMMA KickSame ==
  ASSUME NEW q, KickInv(q), dev' = dev, cc'.eventIdx = cc.eventIdx, queues'[q].suppress = queues[q].suppress,
         queues'[q].nextAvail = queues[q].nextAvail, ring'[q].availIdx = ring[q].availIdx,
         ring'[q].availEvent = ring[q].availEvent, drv'.told[q] = drv.told[q], kick[q] => kick'[q],
         Wanted(q)' /\ ~Looking(q)' => Wanted(q) /\ ~Looking(q),
         loop'.pc = "again" /\ loop'.q = q => loop.pc = "again" /\ loop.q = q
  PROVE  KickInv(q)'
<1>1. Waiting(q)' = Waiting(q) /\ Unannounced(q)' = Unannounced(q)
  BY DEF Waiting, Unannounced
<1>2. queues'[q].suppress = cc'.eventIdx
  BY DEF KickInv
<1>3. Wanted(q)' /\ ~Looking(q)' =>
         /\ queues'[q].suppress => ring'[q].availEvent = queues'[q].nextAvail
         /\ kick'[q] \/ Waiting(q)' <= Unannounced(q)'
  BY <1>1 DEF KickInv
<1>4. loop'.pc = "again" /\ loop'.q = q => ring'[q].availEvent = queues'[q].nextAvail
  BY DEF KickInv
<1>. QED
  BY <1>2, <1>3, <1>4 DEF KickInv

(* What leaves the reasons for an interrupt as they are.                   *)
LEMMA TellSame ==
  ASSUME NEW q, TellInv(q), dev' = dev, queues'[q].suppress = queues[q].suppress,
         queues'[q].nextUsed = queues[q].nextUsed, queues'[q].added = queues[q].added,
         ring'[q].usedIdx = ring[q].usedIdx, ring'[q].usedEvent = ring[q].usedEvent,
         drv'.last[q] = drv.last[q], drv'.poll[q] = drv.poll[q], Coming(q) => Coming(q)', AtQueue(q)' <=> AtQueue(q),
         AtQueue(q) => (loop'.pc = "notify" <=> loop.pc = "notify") /\ (Asks' <=> Asks)
  PROVE  TellInv(q)'
<1>1. Fresh(q)' = Fresh(q) /\ Given(q)' = Given(q)
  BY DEF Fresh, Given
<1>2. drv'.poll[q] # "poll" => ring'[q].usedEvent = drv'.last[q]
  BY DEF TellInv
<1>3. ~AtQueue(q)' \/ loop'.pc = "notify" => Fresh(q)' = 0
  BY <1>1 DEF TellInv
<1>4. AtQueue(q)' /\ loop'.pc # "notify" /\ queues'[q].suppress => queues'[q].added = Fresh(q)'
  BY <1>1 DEF TellInv
<1>5. AtQueue(q)' /\ ~Asks' => Fresh(q)' = 0
  BY <1>1 DEF TellInv
<1>6. ~AtQueue(q)' \/ ~Asks' => (queues'[q].suppress => queues'[q].added = 0)
  BY <1>1 DEF TellInv
<1>7. \/ Coming(q)'
      \/ drv'.last[q] = ring'[q].usedIdx
      \/ /\ AtQueue(q)' /\ loop'.pc = "notify" /\ Asks'
         /\ queues'[q].suppress => Given(q)' <= queues'[q].added
  BY <1>1 DEF TellInv
<1>. QED
  BY <1>2, <1>3, <1>4, <1>5, <1>6, <1>7 DEF TellInv

(* The table of an active device.                                          *)
LEMMA TableStep ==
  ASSUME MsixInv, cc.active, UNCHANGED <<dev, cc>>, Sound(Interrupts'), msix'.enabled, msix'.queue = msix.queue
  PROVE  MsixInv'
<1>1. Queues' = Queues /\ Vectors' = Vectors
  BY DEF Queues, Vectors
<1>2. Sound(Interrupts)'
  BY <1>1 DEF Sound, TableType, MsixType
<1>3. cc'.active /\ cc'.step = 4 /\ ~cc'.failed /\ ~cc'.needsReset
  BY DEF MsixInv
<1>4. \A q \in Queues : msix'.queue[q] \in Vectors \ {0}
  BY DEF MsixInv
<1>. QED
  BY <1>1, <1>2, <1>3, <1>4 DEF MsixInv

(* A step that leaves the table alone keeps it.                            *)
LEMMA TableSame == ASSUME MsixInv, cc.active, UNCHANGED <<dev, cc, msix, irq>> PROVE MsixInv'
<1>1. Interrupts' = Interrupts
  BY DEF Interrupts
<1>2. Sound(Interrupts') /\ msix'.enabled
  BY <1>1 DEF MsixInv
<1>. QED
  BY <1>2, TableStep

(* A step that loses no vector keeps what is coming.                       *)
LEMMA TableKeeps ==
  ASSUME MsixInv, cc.active, UNCHANGED <<dev, cc>>, NEW r, Keeps(Interrupts, r), r.m.enabled, SetInterrupts(r)
  PROVE  MsixInv' /\ \A q \in Queues : drv'.poll[q] = drv.poll[q] /\ Coming(q) => Coming(q)'
<1>1. r \in TableType /\ Sound(r)
  BY DEF Keeps, Sound
<1>2. Interrupts' = r /\ msix' = r.m /\ irq' = r.irq /\ Interrupts.m = msix /\ Interrupts.irq = irq
  <2>1. Interrupts' = r
    BY <1>1, TakesTable
  <2>. QED
    BY <2>1 DEF SetInterrupts, Interrupts
<1>3. msix'.queue = msix.queue
  BY <1>2 DEF Keeps, Same
<1>4. MsixInv'
  BY <1>1, <1>2, <1>3, TableStep
<1>5. ASSUME NEW q \in Queues, drv'.poll[q] = drv.poll[q], Coming(q) PROVE Coming(q)'
  <2>. DEFINE v == msix.queue[q]
  <2>1. v \in Vectors \ {0} /\ msix'.queue[q] = v
    BY <1>3 DEF MsixInv
  <2>2. irq[v] \/ msix.pba[v] => irq'[v] \/ msix'.pba[v]
    BY <1>2, <2>1 DEF Keeps
  <2>3. drv.poll[q] # "idle" \/ irq[v] \/ msix.pba[v]
    BY <1>5 DEF Coming
  <2>4. drv'.poll[q] # "idle" \/ irq'[v] \/ msix'.pba[v]
    BY <1>5, <2>2, <2>3
  <2>. HIDE DEF v
  <2>. QED
    BY <2>1, <2>4 DEF Coming
<1>. QED
  BY <1>4, <1>5

(* An active device, and what wakes its two sides.                         *)
Awake == MsixInv /\ (loop.pc = "read" => IsRx(loop.q)) /\ \A q \in Queues : KickInv(q) /\ TellInv(q)

(* The parts of Awake, after a step.                                       *)
LEMMA AwakeIs ==
  ASSUME MsixInv', UNCHANGED dev, loop'.pc = "read" => IsRx(loop'.q), \A q \in Queues : KickInv(q)' /\ TellInv(q)'
  PROVE  Awake'
<1>1. Queues' = Queues
  BY DEF Queues
<1>2. loop'.pc = "read" => IsRx(loop.q)'
  BY DEF IsRx
<1>. QED
  BY <1>1, <1>2 DEF Awake

(* A step of passt, or none.                                               *)
LEMMA StillAwake == ASSUME Awake, cc.active, UNCHANGED <<dev, cc>>, Still PROVE Awake'
<1>1. MsixInv'
  BY TableSame DEF Awake, Still
<1>2. ASSUME NEW q \in Queues PROVE KickInv(q)'
  <2>1. Wanted(q)' = Wanted(q) /\ Looking(q)' = Looking(q)
    BY StalledSame DEF Still, Wanted, Looking, IsRx
  <2>. QED
    BY <2>1, KickSame DEF Awake, Still
<1>3. ASSUME NEW q \in Queues PROVE TellInv(q)'
  <2>1. Coming(q)' = Coming(q) /\ AtQueue(q)' = AtQueue(q) /\ Asks' = Asks
    BY DEF Still, Coming, AtQueue, Asks, IsRx
  <2>. QED
    BY <2>1, TellSame DEF Awake, Still
<1>. QED
  BY <1>1, <1>2, <1>3, AwakeIs DEF Awake, Still

(* The guest masks or unmasks.                                             *)
LEMMA MaskAwake ==
  ASSUME Awake, cc.active, UNCHANGED <<dev, cc, queues, ring, kick, loop>>, NEW r, Keeps(Interrupts, r), r.m.enabled,
         SetInterrupts(r), drv'.told = drv.told, drv'.last = drv.last, drv'.poll = drv.poll
  PROVE  Awake'
<1>1. MsixInv' /\ \A q \in Queues : drv'.poll[q] = drv.poll[q] /\ Coming(q) => Coming(q)'
  BY TableKeeps DEF Awake
<1>2. ASSUME NEW q \in Queues PROVE KickInv(q)'
  <2>1. Wanted(q)' = Wanted(q) /\ Looking(q)' = Looking(q)
    BY StalledSame DEF Wanted, Looking, IsRx
  <2>. QED
    BY <2>1, KickSame DEF Awake
<1>3. ASSUME NEW q \in Queues PROVE TellInv(q)'
  <2>1. AtQueue(q)' = AtQueue(q) /\ Asks' = Asks
    BY DEF AtQueue, Asks, IsRx
  <2>2. Coming(q) => Coming(q)'
    BY <1>1
  <2>. QED
    BY <2>1, <2>2, TellSame DEF Awake
<1>. QED
  BY <1>1, <1>2, <1>3, AwakeIs DEF Awake

(* Masking and unmasking keep both sides awake.                            *)
LEMMA TableAwake ==
  ASSUME Awake, cc.active, drv \in DriverType, UNCHANGED <<dev, cc>>, Mask \/ UnmaskAll \/ \E v \in 0..2 : UnmaskEntry(v)
  PROVE  Awake'
<1>1. Sound(Interrupts) /\ Interrupts.m = msix /\ msix.enabled
  BY DEF Awake, MsixInv, Interrupts
<1>d. UNCHANGED <<queues, ring, kick, loop>> /\ drv'.told = drv.told /\ drv'.last = drv.last /\ drv'.poll = drv.poll
  <2>1. CASE Mask
    BY <2>1 DEF Mask, WriteMsgCtl, WriteEntry, DriverType
  <2>2. CASE UnmaskAll \/ \E v \in 0..2 : UnmaskEntry(v)
    BY <2>2 DEF UnmaskAll, UnmaskEntry, WriteMsgCtl, WriteEntry
  <2>. QED
    BY <2>1, <2>2
<1>2. ASSUME NEW v \in Vectors, NEW masked \in BOOLEAN, WriteEntry(v, masked) PROVE Awake'
  <2>. DEFINE r == WriteTable(Interrupts, v, masked)
  <2>1. Keeps(Interrupts, r) /\ r.m.enabled
    BY <1>1, WriteTableKeeps
  <2>2. SetInterrupts(r)
    BY <1>2 DEF WriteEntry
  <2>. HIDE DEF r
  <2>. QED
    BY <1>d, <2>1, <2>2, MaskAwake
<1>3. ASSUME NEW masked \in BOOLEAN, WriteMsgCtl(TRUE, masked) PROVE Awake'
  <2>. DEFINE r == SetMsgCtl(Interrupts, TRUE, masked)
  <2>1. Keeps(Interrupts, r) /\ r.m.enabled = TRUE
    BY <1>1, SetMsgCtlKeeps
  <2>2. SetInterrupts(r)
    BY <1>3 DEF WriteMsgCtl
  <2>. HIDE DEF r
  <2>. QED
    BY <1>d, <2>1, <2>2, MaskAwake
<1>. QED
  BY <1>2, <1>3 DEF Mask, UnmaskAll, UnmaskEntry

(* An interrupt wakes the driver for every queue of its vector.            *)
LEMMA TakeInterruptAwake ==
  ASSUME Awake, cc.active, dev \in Devices, drv \in DriverType, NEW v, TakeInterrupt(v)
  PROVE  Awake'
<1>1. UNCHANGED <<dev, cc, queues, ring, kick, loop, msix>> /\ v \in Vectors
  BY DEF TakeInterrupt
<1>2. Sound(Interrupts) /\ Interrupts.m = msix /\ msix.enabled /\ irq \in [Vectors -> BOOLEAN]
      /\ Interrupts'.m = msix /\ Interrupts \in TableType
  BY <1>1 DEF Awake, MsixInv, Interrupts, Sound, TableType
<1>3. irq' = [irq EXCEPT ![v] = FALSE]
  BY DEF TakeInterrupt
<1>4. Interrupts' \in TableType
  BY <1>1, <1>2, <1>3 DEF Interrupts, TableType
<1>5. MsixInv'
  <2>1. Sound(Interrupts')
    BY <1>2, <1>4 DEF Sound
  <2>. QED
    BY <1>1, <1>2, <2>1, TableStep DEF Awake
<1>6. ASSUME NEW q \in Queues
      PROVE  /\ drv'.told[q] = drv.told[q] /\ drv'.last[q] = drv.last[q]
             /\ drv'.poll[q] = IF msix.queue[q] = v THEN "poll" ELSE drv.poll[q]
  <2>1. q \in {RX, TX}
    BY QueuesFact
  <2>. QED
    BY <2>1 DEF TakeInterrupt, DriverType
<1>7. ASSUME NEW q \in Queues PROVE KickInv(q)'
  <2>1. Wanted(q)' = Wanted(q) /\ Looking(q)' = Looking(q)
    BY <1>1, StalledSame DEF Wanted, Looking, IsRx
  <2>. QED
    BY <1>1, <1>6, <2>1, KickSame DEF Awake
<1>8. ASSUME NEW q \in Queues PROVE TellInv(q)'
  <2>1. AtQueue(q)' = AtQueue(q) /\ Asks' = Asks
    BY <1>1 DEF AtQueue, Asks, IsRx
  <2>2. CASE msix.queue[q] = v
    <3>1. drv'.poll[q] = "poll" /\ Coming(q)'
      BY <1>6, <2>2 DEF Coming
    <3>2. Fresh(q)' = Fresh(q)
      BY <1>1 DEF Fresh
    <3>. QED
      BY <1>1, <2>1, <3>1, <3>2 DEF Awake, TellInv
  <2>3. CASE msix.queue[q] # v
    <3>1. drv'.poll[q] = drv.poll[q] /\ msix.queue[q] \in Vectors
      BY <1>6, <2>3 DEF Awake, MsixInv
    <3>2. irq'[msix.queue[q]] = irq[msix.queue[q]]
      BY <1>2, <1>3, <2>3, <3>1
    <3>3. Coming(q)' = Coming(q)
      BY <1>1, <3>1, <3>2 DEF Coming
    <3>. QED
      BY <1>1, <1>6, <2>1, <3>1, <3>3, TellSame DEF Awake
  <2>. QED
    BY <2>2, <2>3
<1>. QED
  BY <1>1, <1>5, <1>7, <1>8, AwakeIs DEF Awake

(* The guest at work on one of its queues.                                 *)
GuestAlone == UNCHANGED <<dev, cc, queues, loop, msix, irq>>

(* A queue whose available side the guest leaves alone.                    *)
LEMMA GuestKick ==
  ASSUME Awake, GuestAlone, NEW q \in Queues, ring'[q].availIdx = ring[q].availIdx, ring'[q].availEvent = ring[q].availEvent,
         ring'[q].avail = ring[q].avail, ring'[q].chain = ring[q].chain, drv'.told[q] = drv.told[q], kick[q] => kick'[q]
  PROVE  KickInv(q)'
<1>1. Wanted(q)' = Wanted(q) /\ Looking(q)' = Looking(q)
  BY StalledSame DEF GuestAlone, Wanted, Looking, IsRx
<1>. QED
  BY <1>1, KickSame DEF Awake, GuestAlone

(* A queue whose used side the guest leaves alone.                         *)
LEMMA GuestTell ==
  ASSUME Awake, GuestAlone, NEW q \in Queues, ring'[q].usedIdx = ring[q].usedIdx, ring'[q].usedEvent = ring[q].usedEvent,
         drv'.last[q] = drv.last[q], drv'.poll[q] = drv.poll[q]
  PROVE  TellInv(q)'
<1>1. AtQueue(q)' = AtQueue(q) /\ Asks' = Asks /\ Coming(q)' = Coming(q)
  BY DEF GuestAlone, AtQueue, Asks, Coming, IsRx
<1>. QED
  BY <1>1, TellSame DEF Awake, GuestAlone

(* It is enough to look at the queue the guest works on.                   *)
LEMMA GuestAwake ==
  ASSUME Awake, cc.active, GuestAlone, NEW q \in Queues, KickInv(q)', TellInv(q)',
         \A p \in Queues \ {q} : /\ ring'[p] = ring[p] /\ (kick[p] => kick'[p]) /\ drv'.told[p] = drv.told[p]
                                 /\ drv'.last[p] = drv.last[p] /\ drv'.poll[p] = drv.poll[p]
  PROVE  Awake'
<1>1. MsixInv'
  BY TableSame DEF Awake, GuestAlone
<1>2. ASSUME NEW p \in Queues PROVE KickInv(p)' /\ TellInv(p)'
  <2>1. CASE p = q
    BY <2>1
  <2>2. CASE p # q
    BY <2>2, GuestKick, GuestTell
  <2>. QED
    BY <2>1, <2>2
<1>3. dev' = dev /\ (loop'.pc = "read" => IsRx(loop'.q))
  BY DEF GuestAlone, Awake
<1>. QED
  BY <1>1, <1>2, <1>3, AwakeIs

(* There is room in the queue for a head the driver has.                   *)
LEMMA PublishRoom ==
  ASSUME RegisterInv, SharedType, cc.active, NEW q \in Queues, Windows(q), NEW h \in 0..(queues[q].size - 1) \ drv.out[q]
  PROVE  Waiting(q) + Given(q) + 1 <= queues[q].size
<1>. DEFINE n == queues[q].size
            S == drv.out[q] \cup {h}
<1>1. n \in Nat \ {0} /\ IsFiniteSet(drv.out[q]) /\ Waiting(q) \in Nat /\ Given(q) \in Nat
  BY WindowFacts
<1>2. drv.out[q] \subseteq 0..(n - 1) /\ Cardinality(drv.out[q]) = Waiting(q) + Given(q)
  BY DEF Windows
<1>3. Cardinality(S) = Cardinality(drv.out[q]) + 1
  BY <1>1, FS_AddElement
<1>4. IsFiniteSet(0..(n - 1)) /\ Cardinality(0..(n - 1)) = n
  <2>1. 0 \in Int /\ n - 1 \in Int /\ (n - 1) - 0 + 1 = n /\ ~(0 > n - 1)
    BY <1>1
  <2>2. IsFiniteSet(0..(n - 1)) /\ Cardinality(0..(n - 1)) = IF 0 > n - 1 THEN 0 ELSE (n - 1) - 0 + 1
    BY <2>1, FS_Interval
  <2>. QED
    BY <2>1, <2>2
<1>5. S \in SUBSET (0..(n - 1))
  BY <1>2
<1>. HIDE DEF S
<1>6. Cardinality(S) <= Cardinality(0..(n - 1))
  BY <1>4, <1>5, FS_Subset
<1>. USE DEF S
<1>. QED
  BY <1>1, <1>2, <1>3, <1>4, <1>6

(* A chain more waits, and one more is not announced.                      *)
LEMMA PublishAwake ==
  ASSUME RegisterInv, SharedType, cc.active, Awake, NEW q \in Queues, Windows(q),
         NEW h, NEW c \in ChainOf(q), Publish(q, h, c)
  PROVE  Awake'
<1>t. ring \in [Queues -> RingType] /\ drv \in DriverType /\ dev \in Devices /\ q \in {RX, TX}
  BY WindowFacts DEF SharedType
<1>1. GuestAlone /\ kick' = kick /\ drv'.told = drv.told /\ drv'.last = drv.last /\ drv'.poll = drv.poll
  BY <1>t DEF Publish, GuestAlone, DriverType
<1>2. \A p \in Queues \ {q} : ring'[p] = ring[p]
  BY <1>t DEF Publish
<1>3. /\ ring'[q].availEvent = ring[q].availEvent /\ ring'[q].usedEvent = ring[q].usedEvent
      /\ ring'[q].usedIdx = ring[q].usedIdx /\ ring'[q].availIdx = Plus(ring[q].availIdx, 1)
  BY <1>t DEF Publish, RingType
<1>4. TellInv(q)'
  BY <1>1, <1>3, GuestTell
<1>5. KickInv(q)'
  <2>. DEFINE b == ring[q].availIdx
              k == queues[q].nextAvail
              t == drv.told[q]
  <2>1. b \in Indices /\ k \in Indices /\ t \in Indices
    BY <1>t, WindowFacts DEF DriverType
  <2>2. Waiting(q)' = Waiting(q) + 1 /\ Waiting(q) \in Nat
    <3>1. h \in 0..(queues[q].size - 1) \ drv.out[q]
      BY DEF Publish
    <3>2. Waiting(q) + Given(q) + 1 <= queues[q].size
      BY <3>1, PublishRoom
    <3>3. Waiting(q) \in Nat /\ Given(q) \in Nat /\ queues[q].size \in Nat /\ queues[q].size < Modulus /\ Modulus \in Nat
      BY WindowFacts, ModulusFact
    <3>4. Waiting(q) + 1 < Modulus
      BY <3>2, <3>3
    <3>5. Minus(Plus(b, 1), k) = Minus(b, k) + 1
      BY <1>t, <2>1, <3>4, Distances DEF Waiting
    <3>. QED
      BY <1>1, <1>3, <3>3, <3>5 DEF Waiting, GuestAlone
  <2>3. Unannounced(q)' = Unannounced(q) + 1 /\ Unannounced(q) \in Nat
    <3>1. Minus(b, t) < Modulus - 1 /\ Modulus \in Nat
      BY <1>t, ModulusFact DEF Publish
    <3>2. Minus(b, t) \in Indices
      BY <1>t, <2>1, MinusIs
    <3>3. Minus(b, t) + 1 < Modulus /\ Minus(b, t) \in Nat
      BY <3>1, <3>2 DEF Indices
    <3>4. Minus(Plus(b, 1), t) = Minus(b, t) + 1
      BY <1>t, <2>1, <3>3, Distances
    <3>. QED
      BY <1>1, <1>3, <3>3, <3>4 DEF Unannounced
  <2>4. Waiting(q) <= Unannounced(q) => Waiting(q)' <= Unannounced(q)'
    BY <2>2, <2>3
  <2>5. (Wanted(q)' => Wanted(q)) /\ Looking(q)' = Looking(q)
    BY <1>1, PublishWindows DEF GuestAlone, Wanted, Looking, IsRx
  <2>6. KickInv(q) /\ cc' = cc /\ queues' = queues /\ loop' = loop
    BY <1>1 DEF Awake, GuestAlone
  <2>. QED
    BY <1>1, <1>3, <2>4, <2>5, <2>6 DEF KickInv
<1>. QED
  BY <1>1, <1>2, <1>4, <1>5, GuestAwake

(* A notification that is not asked for announces nothing that waits.      *)
LEMMA KickAwake ==
  ASSUME RegisterInv, SharedType, cc.active, Awake, NEW q \in Queues, Windows(q), Kick(q), kick \in [Queues -> BOOLEAN]
  PROVE  Awake'
<1>t. drv \in DriverType /\ dev \in Devices /\ q \in {RX, TX}
  BY WindowFacts DEF SharedType
<1>. DEFINE b == ring[q].availIdx
            asked == \/ ~cc.eventIdx
                     \/ Minus(Minus(b, ring[q].availEvent), 1) < Minus(b, drv.told[q])
<1>1. GuestAlone /\ ring' = ring /\ drv'.last = drv.last /\ drv'.poll = drv.poll /\ drv'.told = [drv.told EXCEPT ![q] = b]
  BY <1>t DEF Kick, GuestAlone, DriverType
<1>2. kick' = [kick EXCEPT ![q] = kick[q] \/ asked]
  BY DEF Kick
<1>3. drv'.told[q] = b /\ \A p \in Queues \ {q} : drv'.told[p] = drv.told[p]
  <2>1. Queues \subseteq {RX, TX} /\ drv.told \in [{RX, TX} -> Indices]
    BY <1>t, QueuesFact DEF DriverType
  <2>. QED
    BY <1>1, <2>1
<1>4. (kick'[q] <=> kick[q] \/ asked) /\ \A p \in Queues \ {q} : kick'[p] = kick[p]
  BY <1>2
<1>. HIDE DEF asked
<1>5. TellInv(q)'
  BY <1>1, GuestTell
<1>6. KickInv(q)'
  <2>1. Wanted(q)' = Wanted(q) /\ Looking(q)' = Looking(q) /\ Waiting(q)' = Waiting(q)
    BY <1>1, StalledSame DEF GuestAlone, Wanted, Looking, IsRx, Waiting
  <2>2. KickInv(q) /\ cc' = cc /\ queues' = queues /\ loop' = loop
    BY <1>1 DEF Awake, GuestAlone
  <2>3. ASSUME Wanted(q), ~Looking(q), ~kick'[q] PROVE Waiting(q) = 0
    <3>1. ~kick[q] /\ ~asked
      BY <1>4, <2>3
    <3>2. Waiting(q) <= Unannounced(q) /\ (queues[q].suppress => ring[q].availEvent = queues[q].nextAvail)
      BY <2>2, <2>3, <3>1 DEF KickInv
    <3>3. queues[q].suppress
      BY <2>2, <3>1 DEF KickInv, asked
    <3>4. ~(Minus(Waiting(q), 1) < Unannounced(q))
      BY <3>1, <3>2, <3>3 DEF asked, Waiting, Unannounced
    <3>5. Waiting(q) \in Indices /\ 1 \in Indices /\ Unannounced(q) \in Indices /\ Modulus \in Nat
      <4>1. b \in Indices /\ queues[q].nextAvail \in Indices /\ drv.told[q] \in Indices
        BY <1>t, WindowFacts DEF DriverType
      <4>2. Waiting(q) \in Indices /\ Unannounced(q) \in Indices
        BY <1>t, <4>1, MinusIs, Zenon DEF Waiting, Unannounced
      <4>3. Modulus \in Nat /\ Modulus > 1
        BY <1>t, ModulusFact
      <4>. QED
        BY <4>2, <4>3 DEF Indices
    <3>6. Waiting(q) # 0 => Minus(Waiting(q), 1) = Waiting(q) - 1
      <4>1. Minus(Waiting(q), 1) = IF Waiting(q) >= 1 THEN Waiting(q) - 1 ELSE Waiting(q) - 1 + Modulus
        BY <1>t, <3>5, MinusIs
      <4>. QED
        BY <3>5, <4>1 DEF Indices
    <3>. QED
      BY <3>2, <3>4, <3>5, <3>6 DEF Indices
  <2>4. Unannounced(q)' \in Nat
    <3>1. b \in Indices
      BY WindowFacts
    <3>2. Minus(b, b) \in Indices
      BY <1>t, <3>1, MinusIs
    <3>. QED
      BY <1>1, <1>3, <3>2 DEF Unannounced, Indices
  <2>5. Wanted(q) /\ ~Looking(q) => kick'[q] \/ Waiting(q) <= Unannounced(q)'
    BY <2>3, <2>4
  <2>. QED
    BY <1>1, <2>1, <2>2, <2>5 DEF KickInv
<1>. QED
  BY <1>1, <1>3, <1>4, <1>5, <1>6, GuestAwake

(* The driver collects, asks for the next interrupt, looks again, rests.   *)
LEMMA CollectAwake ==
  ASSUME RegisterInv, SharedType, cc.active, Awake, NEW q \in Queues, Windows(q), Collect(q) \/ Arm(q) \/ Rest(q)
  PROVE  Awake'
<1>t. ring \in [Queues -> RingType] /\ drv \in DriverType /\ dev \in Devices /\ q \in {RX, TX} /\ Queues \subseteq {RX, TX}
  BY WindowFacts, QueuesFact DEF SharedType
<1>1. GuestAlone /\ kick' = kick
  BY DEF Collect, Arm, Rest, GuestAlone
<1>2. drv'.told = drv.told
  BY <1>t DEF Collect, Arm, Rest, DriverType
<1>3. \A p \in Queues \ {q} : ring'[p] = ring[p] /\ drv'.last[p] = drv.last[p] /\ drv'.poll[p] = drv.poll[p]
  <2>1. CASE Collect(q)
    BY <1>t, <2>1 DEF Collect, DriverType
  <2>2. CASE Arm(q)
    BY <1>t, <2>2 DEF Arm, DriverType
  <2>3. CASE Rest(q)
    BY <1>t, <2>3 DEF Rest, DriverType
  <2>. QED
    BY <2>1, <2>2, <2>3
<1>4. /\ ring'[q].availIdx = ring[q].availIdx /\ ring'[q].availEvent = ring[q].availEvent
      /\ ring'[q].usedIdx = ring[q].usedIdx /\ ring'[q].avail = ring[q].avail /\ ring'[q].chain = ring[q].chain
  BY <1>t DEF Collect, Arm, Rest, RingType
<1>5. KickInv(q)'
  BY <1>1, <1>2, <1>4, GuestKick
<1>6. AtQueue(q)' = AtQueue(q) /\ Asks' = Asks /\ Fresh(q)' = Fresh(q) /\ TellInv(q) /\ queues' = queues /\ loop' = loop
  BY <1>1, <1>4 DEF GuestAlone, AtQueue, Asks, IsRx, Fresh, Awake
<1>7. CASE Collect(q)
  <2>1. drv'.poll[q] = "poll"
    BY <1>7, <1>t DEF Collect, DriverType
  <2>2. Coming(q)'
    BY <2>1 DEF Coming
  <2>. QED
    BY <1>1, <1>2, <1>3, <1>5, <1>6, <2>1, <2>2, GuestAwake DEF TellInv
<1>8. CASE Arm(q)
  <2>1. drv'.poll[q] = "armed" /\ drv'.last[q] = drv.last[q] /\ ring'[q].usedEvent = drv.last[q]
    BY <1>8, <1>t DEF Arm, DriverType, RingType
  <2>2. Coming(q)'
    BY <2>1 DEF Coming
  <2>. QED
    BY <1>1, <1>2, <1>3, <1>5, <1>6, <2>1, <2>2, GuestAwake DEF TellInv
<1>9. CASE Rest(q)
  <2>1. /\ drv.poll[q] = "armed" /\ drv'.last[q] = drv.last[q] /\ ring' = ring /\ drv.last[q] = ring[q].usedIdx
    BY <1>9, <1>t DEF Rest, DriverType
  <2>2. ring'[q].usedEvent = drv'.last[q] /\ drv'.last[q] = ring'[q].usedIdx
    BY <1>6, <2>1 DEF TellInv
  <2>. QED
    BY <1>1, <1>2, <1>3, <1>5, <1>6, <2>2, GuestAwake DEF TellInv
<1>. QED
  BY <1>7, <1>8, <1>9

(* The event loop moves on, and nothing but it.                            *)
LoopAlone == UNCHANGED <<dev, cc, queues, ring, drv, msix, irq>>
Served(q) == Waiting(q) = 0 /\ (queues[q].suppress => ring[q].availEvent = queues[q].nextAvail)

(* What is enough for a move of the loop to keep both sides awake.         *)
LEMMA LoopMoves ==
  ASSUME RegisterInv, SharedType, cc.active, \A q \in Queues : Windows(q), Awake, LoopAlone,
         loop'.pc = "read" => IsRx(loop'.q), loop'.pc # "again", loop'.pc # "notify", loop.pc # "notify",
         \A q \in Queues : /\ (kick[q] => kick'[q]) \/ Looking(q)'
                           /\ Wanted(q)' /\ ~Looking(q)' => (Wanted(q) /\ ~Looking(q)) \/ Served(q)
                           /\ AtQueue(q) => AtQueue(q)' /\ (Asks' <=> Asks)
  PROVE  Awake'
<1>1. MsixInv'
  BY TableSame DEF Awake, LoopAlone
<1>2. ASSUME NEW q \in Queues PROVE KickInv(q)'
  <2>1. KickInv(q) /\ queues' = queues /\ ring' = ring /\ cc' = cc
    BY DEF Awake, LoopAlone
  <2>2. Waiting(q)' = Waiting(q) /\ Unannounced(q)' = Unannounced(q)
    BY DEF Waiting, Unannounced, LoopAlone
  <2>3. Unannounced(q) \in Nat
    <3>1. dev \in Devices /\ drv.told[q] \in Indices /\ ring[q].availIdx \in Indices
      BY WindowFacts DEF SharedType, DriverType
    <3>2. Unannounced(q) \in Indices
      BY <3>1, MinusIs, Zenon DEF Unannounced
    <3>. QED
      BY <3>2 DEF Indices
  <2>4. ASSUME Wanted(q)', ~Looking(q)'
        PROVE  /\ queues'[q].suppress => ring'[q].availEvent = queues'[q].nextAvail
               /\ kick'[q] \/ Waiting(q)' <= Unannounced(q)'
    <3>1. CASE Served(q)
      BY <2>1, <2>2, <2>3, <3>1 DEF Served
    <3>2. CASE Wanted(q) /\ ~Looking(q)
      BY <2>1, <2>2, <2>4, <3>2 DEF KickInv
    <3>. QED
      BY <2>4, <3>1, <3>2
  <2>. QED
    BY <2>1, <2>4 DEF KickInv
<1>3. ASSUME NEW q \in Queues PROVE TellInv(q)'
  <2>1. TellInv(q) /\ queues' = queues /\ ring' = ring /\ drv' = drv
    BY DEF Awake, LoopAlone
  <2>2. Fresh(q)' = Fresh(q) /\ (Coming(q)' <=> Coming(q))
    BY DEF Fresh, Coming, LoopAlone
  <2>3. CASE ~AtQueue(q)
    BY <2>1, <2>2, <2>3 DEF TellInv
  <2>4. CASE AtQueue(q)
    BY <2>1, <2>2, <2>4 DEF TellInv
  <2>. QED
    BY <2>3, <2>4
<1>4. dev' = dev
  BY DEF LoopAlone
<1>. QED
  BY <1>1, <1>2, <1>3, <1>4, AwakeIs

(* The loop wakes, reads from passt, and leaves a queue that is empty or   *)
(* has stopped.                                                            *)
LEMMA LoopAwake ==
  ASSUME RegisterInv, SharedType, cc.active, \A q \in Queues : Windows(q), Awake, kick \in [Queues -> BOOLEAN],
         \/ ProcessActivateEvent \/ ProcessPasst \/ TakeDeferred \/ ReadHeader \/ ReadBody \/ ReadNothing
         \/ PopNothing \/ StillNothing \/ PopStray \/ \E q \in Queues : ProcessQueueEvent(q)
  PROVE  Awake'
<1>t. loop \in LoopType /\ dev \in Devices
  BY DEF SharedType, RegisterInv
<1>1. LoopAlone
  BY DEF ProcessActivateEvent, ProcessPasst, TakeDeferred, ReadHeader, ReadBody, ReadNothing, PopNothing, StillNothing,
     PopStray, ProcessQueueEvent, LoopAlone
<1>r. \A q : IsRx(q)' = IsRx(q)
  BY <1>1 DEF IsRx, LoopAlone
<1>s. \A q : Stalled(q)' <=> Stalled(q)
  BY <1>1, StalledSame DEF LoopAlone
<1>q. \A q \in Queues : q # TX => (dev = "block" \/ IsRx(q))
  BY <1>t, QueuesFact DEF IsRx
<1>2. CASE ProcessActivateEvent
  <2>1. loop'.pc = loop.pc /\ loop'.q = loop.q /\ loop'.any = loop.any /\ loop'.frame = loop.frame /\ kick' = kick
        /\ loop.pc = "wait"
    BY <1>t, <1>2 DEF ProcessActivateEvent, LoopType
  <2>. QED
    BY <1>1, <1>r, <1>s, <2>1, LoopMoves DEF Wanted, Looking, AtQueue, Asks
<1>3. CASE ProcessPasst
  <2>1. loop'.pc = "read" /\ loop'.q = RX /\ loop'.frame = loop.frame /\ kick' = kick /\ loop.pc = "wait" /\ dev = "net"
    BY <1>t, <1>3 DEF ProcessPasst, LoopType
  <2>2. \A q \in Queues : /\ (Wanted(q)' <=> Wanted(q)) /\ ~Looking(q) /\ ~AtQueue(q)
    BY <1>r, <1>s, <2>1 DEF Wanted, Looking, AtQueue
  <2>3. IsRx(loop'.q)
    BY <2>1 DEF IsRx
  <2>. QED
    BY <1>1, <2>1, <2>2, <2>3, LoopMoves
<1>4. ASSUME NEW q \in Queues, ProcessQueueEvent(q) PROVE Awake'
  <2>1. /\ loop'.pc = (IF dev = "block" \/ q = TX THEN "pop" ELSE "read") /\ loop'.q = q
        /\ loop'.frame = loop.frame /\ loop.pc = "wait"
    BY <1>t, <1>4 DEF ProcessQueueEvent, LoopType
  <2>2. \A p \in Queues : /\ (Wanted(p)' <=> Wanted(p)) /\ ~Looking(p) /\ ~AtQueue(p)
    BY <1>r, <1>s, <2>1 DEF Wanted, Looking, AtQueue
  <2>3. loop'.pc = "read" => IsRx(loop'.q)
    BY <1>q, <2>1
  <2>4. Looking(q)'
    BY <2>1 DEF Looking
  <2>5. \A p \in Queues \ {q} : kick[p] => kick'[p]
    BY <1>4 DEF ProcessQueueEvent
  <2>. QED
    BY <1>1, <2>1, <2>2, <2>3, <2>4, <2>5, LoopMoves
<1>5. CASE TakeDeferred \/ ReadHeader \/ ReadBody
  <2>1. /\ loop.pc = "read" /\ loop'.q = loop.q /\ loop'.any = loop.any /\ kick' = kick /\ loop'.pc \in {"read", "pop"}
    BY <1>t, <1>5 DEF TakeDeferred, ReadHeader, ReadBody, LoopType
  <2>2. \A p \in Queues : /\ Looking(p)' = Looking(p) /\ AtQueue(p)' = AtQueue(p)
    BY <2>1 DEF Looking, AtQueue
  <2>3. IsRx(loop.q) /\ (Asks' <=> Asks)
    BY <1>r, <2>1 DEF Awake, Asks
  <2>4. \A p \in Queues : ~Looking(p) => p # loop.q
    BY <2>1 DEF Looking
  <2>5. \A p \in Queues : p # loop.q => (Wanted(p)' <=> Wanted(p))
    BY <1>r, <1>s, <1>t, <2>3, QueuesFact DEF Wanted, IsRx
  <2>. QED
    BY <1>1, <2>1, <2>2, <2>3, <2>4, <2>5, LoopMoves
<1>6. CASE ReadNothing
  <2>1. /\ loop.pc = "read" /\ loop'.q = loop.q /\ loop'.any = loop.any /\ kick' = kick /\ loop'.pc = "publish"
        /\ loop.frame = 0 /\ loop'.frame = 0
    BY <1>t, <1>6 DEF ReadNothing, LoopType
  <2>2. IsRx(loop.q) /\ (Asks' <=> Asks)
    BY <1>r, <2>1 DEF Awake, Asks
  <2>3. \A p \in Queues : AtQueue(p)' = AtQueue(p) /\ (Wanted(p)' <=> Wanted(p))
    BY <1>r, <1>s, <2>1 DEF AtQueue, Wanted
  <2>4. \A p \in Queues : Wanted(p) => ~Looking(p)
    BY <2>1, <2>2 DEF Looking, Wanted
  <2>. QED
    BY <1>1, <2>1, <2>2, <2>3, <2>4, LoopMoves
<1>7. CASE PopNothing \/ StillNothing
  <2>1. /\ loop.pc \in {"pop", "again"} /\ loop'.q = loop.q /\ loop'.any = loop.any /\ kick' = kick /\ loop'.pc = "publish"
        /\ loop'.frame = loop.frame
    BY <1>t, <1>7 DEF PopNothing, StillNothing, LoopType
  <2>2. Asks' <=> Asks
    BY <1>r, <2>1 DEF Asks
  <2>3. \A p \in Queues : AtQueue(p)' = AtQueue(p) /\ (Wanted(p)' <=> Wanted(p))
    BY <1>r, <1>s, <2>1 DEF AtQueue, Wanted
  <2>4. \A p \in Queues : Looking(p) => Served(p)
    <3>. SUFFICES ASSUME NEW p \in Queues, Looking(p) PROVE Served(p)
      OBVIOUS
    <3>1. p = loop.q /\ KickInv(p)
      BY DEF Looking, Awake
    <3>2. Waiting(p) = 0
      BY <1>7, <3>1 DEF PopNothing, StillNothing, Available, Waiting
    <3>3. queues[p].suppress => ring[p].availEvent = queues[p].nextAvail
      BY <1>7, <3>1 DEF PopNothing, StillNothing, KickInv
    <3>. QED
      BY <3>2, <3>3 DEF Served
  <2>. QED
    BY <1>1, <2>1, <2>2, <2>3, <2>4, LoopMoves
<1>8. CASE PopStray
  <2>1. /\ loop.pc \in {"pop", "again"} /\ loop'.q = loop.q /\ loop'.any = loop.any /\ kick' = kick /\ loop'.pc = "publish"
        /\ loop'.frame = loop.frame /\ Stalled(loop.q)
    BY <1>t, <1>8 DEF PopStray, LoopType
  <2>2. Asks' <=> Asks
    BY <1>r, <2>1 DEF Asks
  <2>3. \A p \in Queues : AtQueue(p)' = AtQueue(p) /\ (Wanted(p)' <=> Wanted(p))
    BY <1>r, <1>s, <2>1 DEF AtQueue, Wanted
  <2>4. \A p \in Queues : Wanted(p) => ~Looking(p)
    BY <2>1 DEF Looking, Wanted
  <2>. QED
    BY <1>1, <2>1, <2>2, <2>3, <2>4, LoopMoves
<1>. QED
  BY <1>2, <1>3, <1>4, <1>5, <1>6, <1>7, <1>8

(* The event index is moved before the queue is looked at once more.       *)
LEMMA EnableAwake ==
  ASSUME RegisterInv, SharedType, cc.active, Awake, EnableNotification
  PROVE  Awake'
<1>. DEFINE q == loop.q
<1>t. loop \in LoopType /\ q \in Queues /\ ring \in [Queues -> RingType]
  BY DEF SharedType, LoopType
<1>1. UNCHANGED <<dev, cc, queues, drv, kick, msix, irq>>
  BY DEF EnableNotification
<1>2. /\ loop.pc = "pop" /\ loop'.pc = "again" /\ loop'.q = q /\ loop'.any = loop.any /\ loop'.frame = loop.frame
  BY <1>t DEF EnableNotification, LoopType
<1>3. /\ ring'[q].availEvent = queues[q].nextAvail
      /\ \A p \in Queues : /\ ring'[p].availIdx = ring[p].availIdx /\ ring'[p].usedIdx = ring[p].usedIdx
                           /\ ring'[p].usedEvent = ring[p].usedEvent
                           /\ ring'[p].avail = ring[p].avail /\ ring'[p].chain = ring[p].chain
      /\ \A p \in Queues \ {q} : ring'[p] = ring[p]
  BY <1>t DEF EnableNotification, RingType
<1>. HIDE DEF q
<1>4. MsixInv'
  BY <1>1, TableSame DEF Awake
<1>5. ASSUME NEW p \in Queues PROVE KickInv(p)' /\ TellInv(p)'
  <2>1. /\ (Looking(p)' <=> Looking(p)) /\ (Wanted(p)' <=> Wanted(p)) /\ (AtQueue(p)' <=> AtQueue(p)) /\ (Asks' <=> Asks)
        /\ (Coming(p)' <=> Coming(p)) /\ KickInv(p) /\ TellInv(p)
    BY <1>1, <1>2, <1>3, StalledSame DEF Looking, Wanted, AtQueue, Asks, Coming, IsRx, Awake, q
  <2>2. TellInv(p)'
    BY <1>1, <1>2, <1>3, <2>1, TellSame
  <2>3. CASE p # q
    BY <1>1, <1>2, <1>3, <2>1, <2>2, <2>3, KickSame
  <2>4. CASE p = q
    <3>1. Looking(p)' /\ ring'[p].availEvent = queues'[p].nextAvail
      BY <1>1, <1>2, <1>3, <2>4 DEF Looking
    <3>. QED
      BY <1>1, <2>1, <2>2, <3>1 DEF KickInv
  <2>. QED
    BY <2>3, <2>4
<1>. QED
  BY <1>1, <1>2, <1>4, <1>5, AwakeIs

(* What is answered and not yet published is part of what is given.        *)
LEMMA FreshFacts ==
  ASSUME RegisterInv, SharedType, cc.active, NEW q \in Queues, Windows(q)
  PROVE  /\ Fresh(q) \in Nat /\ Fresh(q) <= Given(q) /\ Given(q) < Modulus
         /\ drv.last[q] = ring[q].usedIdx => Fresh(q) = Given(q)
         /\ Fresh(q) = 0 => queues[q].nextUsed = ring[q].usedIdx
<1>. DEFINE u == queues[q].nextUsed
            l == drv.last[q]
            x == ring[q].usedIdx
<1>1. dev \in Devices /\ u \in Indices /\ l \in Indices /\ x \in Indices /\ Modulus \in Nat
  BY WindowFacts, ModulusFact
<1>2. Minus(u, l) = (IF u >= l THEN u - l ELSE u - l + Modulus) /\ Minus(u, l) \in Indices
  BY <1>1, MinusIs
<1>3. Minus(x, l) = (IF x >= l THEN x - l ELSE x - l + Modulus)
  BY <1>1, MinusIs
<1>4. Minus(u, x) = (IF u >= x THEN u - x ELSE u - x + Modulus) /\ Minus(u, x) \in Indices
  BY <1>1, MinusIs
<1>5. Minus(x, l) <= Minus(u, l)
  BY DEF Windows, Given
<1>6. Fresh(q) = Minus(u, x) /\ Given(q) = Minus(u, l)
  BY DEF Fresh, Given
<1>. HIDE DEF u, l, x
<1>7. Fresh(q) \in Nat /\ Fresh(q) <= Given(q) /\ Given(q) < Modulus
  BY <1>1, <1>2, <1>3, <1>4, <1>5, <1>6 DEF Indices
<1>8. l = x => Fresh(q) = Given(q)
  BY <1>6
<1>9. Fresh(q) = 0 => u = x
  BY <1>1, <1>4, <1>6 DEF Indices
<1>. QED
  BY <1>7, <1>8, <1>9 DEF u, l, x

(* A chain is served: one more is fresh, and the loop looks on.            *)
LEMMA ServeAwake ==
  ASSUME RegisterInv, SharedType, cc.active, \A q \in Queues : Windows(q), Awake, Available(loop.q) # 0, Serve,
         loop.pc \in {"pop", "again"}
  PROVE  Awake'
<1>q. PICK q \in Queues : q = loop.q
  BY DEF SharedType, LoopType
<1>t. /\ loop \in LoopType /\ ring \in [Queues -> RingType] /\ queues \in [Queues -> QueueType]
      /\ dev \in Devices
  BY DEF SharedType, LoopType, RegisterInv
<1>1. UNCHANGED <<dev, cc, drv, kick, msix, irq>>
  BY DEF Serve
<1>2. /\ \A p \in Queues : /\ ring'[p].availIdx = ring[p].availIdx /\ ring'[p].usedIdx = ring[p].usedIdx
                           /\ ring'[p].usedEvent = ring[p].usedEvent /\ ring'[p].availEvent = ring[p].availEvent
      /\ \A p \in Queues \ {q} : ring'[p] = ring[p]
  <2>1. ASSUME NEW st, NEW l, ring' = Answered(q, st, l), NEW p \in Queues
        PROVE  /\ ring'[p].availIdx = ring[p].availIdx /\ ring'[p].usedIdx = ring[p].usedIdx
               /\ ring'[p].usedEvent = ring[p].usedEvent /\ ring'[p].availEvent = ring[p].availEvent
               /\ p # q => ring'[p] = ring[p]
    <3>1. CASE p # q
      BY <1>q, <1>t, <2>1, <3>1 DEF Answered
    <3>2. CASE p = q
      <4>. DEFINE h == HeadOf(q)
                  x == queues[q].nextAvail % queues[q].size
                  y == queues[q].nextUsed % queues[q].size
                  e == [id |-> h, status |-> st, len |-> l]
                  a == [ring[q].avail EXCEPT ![x] = Blank]
                  u == [ring[q].used EXCEPT ![y] = e]
                  g == [ring[q].chain EXCEPT ![h] = <<>>]
      <4>1. ring' = [ring EXCEPT ![q].used[y] = e, ![q].avail[x] = Blank, ![q].chain[h] = <<>>]
        BY <2>1 DEF Answered
      <4>2. ring[q] \in RingType
        BY <1>q, <1>t
      <4>. HIDE DEF h, x, y, e
      <4>3. ring' = [ring EXCEPT ![q] = [ring[q] EXCEPT !.used = u, !.avail = a, !.chain = g]]
        BY <1>q, <1>t, <4>1, <4>2 DEF RingType
      <4>. HIDE DEF a, u, g
      <4>. QED
        BY <1>q, <1>t, <3>2, <4>2, <4>3 DEF RingType
    <3>. QED
      BY <3>1, <3>2
  <2>2. \E st, l : ring' = Answered(q, st, l)
    <3>1. CASE dev = "block" /\ ServeBlock
      <4>1. q = 0
        BY <1>q, <1>t, <3>1, QueuesFact
      <4>. QED
        BY <3>1, <4>1 DEF ServeBlock
    <3>2. CASE dev = "net" /\ loop.q = RX /\ ServeRx
      BY <1>q, <3>2 DEF ServeRx
    <3>3. CASE dev = "net" /\ loop.q = TX /\ ServeTx
      BY <1>q, <3>3 DEF ServeTx
    <3>. QED
      BY <3>1, <3>2, <3>3 DEF Serve
  <2>. QED
    BY <2>1, <2>2
<1>3. /\ queues'[q].suppress = queues[q].suppress /\ queues'[q].nextUsed = Plus(queues[q].nextUsed, 1)
      /\ queues'[q].added = Plus(queues[q].added, 1)
      /\ \A p \in Queues \ {q} : queues'[p] = queues[p]
  BY <1>q, <1>t DEF Serve, Taken, QueueType
<1>4. /\ loop.q = q /\ loop'.q = q /\ loop'.pc \in {"pop", "read"} /\ (loop'.pc = "read" => IsRx(q))
      /\ (loop'.any \/ IsRx(q)) /\ (IsRx(q) \/ loop'.frame = loop.frame)
  BY <1>q, <1>t DEF Serve, ServeBlock, ServeRx, ServeTx, IsRx, LoopType
<1>5. MsixInv'
  BY <1>1, TableSame DEF Awake
<1>6. ASSUME NEW p \in Queues \ {q} PROVE KickInv(p)' /\ TellInv(p)'
  <2>1. ~AtQueue(p) /\ ~Looking(p) /\ ~AtQueue(p)' /\ ~Looking(p)'
    BY <1>q, <1>4 DEF AtQueue, Looking
  <2>2. Wanted(p)' <=> Wanted(p)
    <3>1. IsRx(p) => ~IsRx(q)
      BY <1>6 DEF IsRx
    <3>. QED
      BY <1>1, <1>2, <1>3, <1>4, <3>1, StalledSame DEF Wanted, IsRx
  <2>3. (Coming(p)' <=> Coming(p)) /\ KickInv(p) /\ TellInv(p)
    BY <1>1 DEF Coming, Awake
  <2>4. loop'.pc # "again"
    BY <1>4
  <2>5. KickInv(p)'
    BY <1>1, <1>2, <1>3, <2>1, <2>2, <2>3, <2>4, KickSame
  <2>6. TellInv(p)'
    BY <1>1, <1>2, <1>3, <2>1, <2>3, TellSame
  <2>. QED
    BY <2>5, <2>6
<1>7. KickInv(q)'
  <2>1. KickInv(q)
    BY <1>q, <1>t DEF Awake
  <2>. QED
    BY <1>1, <1>3, <1>4, <2>1 DEF KickInv, Looking
<1>8. TellInv(q)'
  <2>1. TellInv(q) /\ AtQueue(q) /\ loop.pc # "notify" /\ AtQueue(q)' /\ loop'.pc # "notify" /\ Asks'
    BY <1>q, <1>1, <1>4, <1>t DEF Awake, AtQueue, Asks, IsRx
  <2>2. Coming(q)' <=> Coming(q)
    BY <1>1 DEF Coming
  <2>3. queues[q].suppress => queues[q].added = Fresh(q)
    BY <2>1 DEF TellInv
  <2>4. Windows(q) /\ q \in Queues
    BY <1>q, <1>t
  <2>5. Fresh(q) \in Nat /\ Fresh(q) + 1 < Modulus
    <3>1. Waiting(q) # 0
      BY <1>q DEF Available, Waiting
    <3>2. Waiting(q) \in Nat /\ Given(q) \in Nat /\ Waiting(q) + Given(q) <= queues[q].size
          /\ queues[q].size \in Nat /\ queues[q].size < Modulus /\ Modulus \in Nat
      BY <2>4, WindowFacts, ModulusFact
    <3>3. Fresh(q) \in Nat /\ Fresh(q) <= Given(q)
      BY <2>4, FreshFacts
    <3>. QED
      BY <3>1, <3>2, <3>3
  <2>6. Fresh(q)' = Fresh(q) + 1
    <3>1. queues[q].nextUsed \in Indices /\ ring[q].usedIdx \in Indices
      BY <2>4, WindowFacts
    <3>2. Minus(Plus(queues[q].nextUsed, 1), ring[q].usedIdx) = Minus(queues[q].nextUsed, ring[q].usedIdx) + 1
      BY <1>q, <1>t, <2>5, <3>1, Distances DEF Fresh
    <3>. QED
      BY <1>2, <1>3, <2>4, <3>2 DEF Fresh
  <2>7. queues[q].suppress => queues'[q].added = Fresh(q)'
    <3>1. Fresh(q) \in Indices /\ Modulus \in Nat
      BY <1>q, <1>t, <2>5, ModulusFact DEF Indices
    <3>2. 1 < Modulus /\ 1 \in Nat
      BY <1>q, <1>t, ModulusFact
    <3>3. Plus(Fresh(q), 1) = Fresh(q) + 1
      BY <1>q, <1>t, <2>5, <3>1, <3>2, PlusIs
    <3>. QED
      BY <1>3, <2>3, <2>6, <3>3
  <2>8. Coming(q) \/ drv.last[q] = ring[q].usedIdx
    BY <2>1 DEF TellInv
  <2>9. drv' = drv /\ ring'[q].usedIdx = ring[q].usedIdx /\ ring'[q].usedEvent = ring[q].usedEvent
    BY <1>1, <1>2, <2>4
  <2>. QED
    BY <1>3, <2>1, <2>2, <2>7, <2>8, <2>9 DEF TellInv
<1>9. \A p \in Queues : KickInv(p)' /\ TellInv(p)'
  BY <1>6, <1>7, <1>8
<1>10. loop'.pc = "read" => IsRx(loop'.q)
  BY <1>4
<1>. QED
  BY <1>1, <1>5, <1>9, <1>10, AwakeIs

(* What is fresh is published: it is for the driver to be told of.         *)
LEMMA AdvanceAwake ==
  ASSUME RegisterInv, SharedType, cc.active, \A q \in Queues : Windows(q), Awake, AdvanceUsed
  PROVE  Awake'
<1>q. PICK q \in Queues : q = loop.q
  BY DEF SharedType, LoopType
<1>t. loop \in LoopType /\ ring \in [Queues -> RingType] /\ dev \in Devices
  BY DEF SharedType, LoopType, RegisterInv
<1>1. UNCHANGED <<dev, cc, queues, drv, kick, msix, irq>>
  BY DEF AdvanceUsed
<1>2. /\ loop.pc = "publish" /\ loop'.pc = "notify" /\ loop'.q = q /\ loop'.any = loop.any /\ loop'.frame = loop.frame
  BY <1>q, <1>t DEF AdvanceUsed, LoopType
<1>3. /\ ring'[q].usedIdx = queues[q].nextUsed
      /\ \A p \in Queues : /\ ring'[p].availIdx = ring[p].availIdx /\ ring'[p].availEvent = ring[p].availEvent
                           /\ ring'[p].usedEvent = ring[p].usedEvent
                           /\ ring'[p].avail = ring[p].avail /\ ring'[p].chain = ring[p].chain
      /\ \A p \in Queues \ {q} : ring'[p] = ring[p]
  BY <1>q, <1>t DEF AdvanceUsed, RingType
<1>4. MsixInv'
  BY <1>1, TableSame DEF Awake
<1>w. Windows(q)
  BY <1>q, <1>t
<1>5. ASSUME NEW p \in Queues PROVE KickInv(p)'
  <2>1. /\ (Looking(p)' <=> Looking(p)) /\ (Wanted(p)' <=> Wanted(p)) /\ KickInv(p)
    BY <1>1, <1>2, <1>3, <1>q, StalledSame DEF Looking, Wanted, IsRx, Awake
  <2>. QED
    BY <1>1, <1>2, <1>3, <2>1, KickSame
<1>6. ASSUME NEW p \in Queues \ {q} PROVE TellInv(p)'
  <2>1. /\ ~AtQueue(p)' /\ ~AtQueue(p) /\ (Coming(p)' <=> Coming(p)) /\ TellInv(p)
    BY <1>1, <1>2, <1>q DEF AtQueue, Coming, Awake
  <2>. QED
    BY <1>1, <1>3, <2>1, TellSame
<1>7. TellInv(q)'
  <2>1. /\ AtQueue(q) /\ AtQueue(q)' /\ (Asks' <=> Asks) /\ (Coming(q)' <=> Coming(q)) /\ TellInv(q)
    BY <1>1, <1>2, <1>q, <1>t DEF AtQueue, Asks, IsRx, Coming, Awake
  <2>2. /\ queues[q].suppress => queues[q].added = Fresh(q)
        /\ ~Asks => Fresh(q) = 0 /\ (queues[q].suppress => queues[q].added = 0)
        /\ Coming(q) \/ drv.last[q] = ring[q].usedIdx
    BY <1>2, <2>1 DEF TellInv
  <2>3. drv.last[q] = ring[q].usedIdx => Fresh(q) = Given(q)
    BY <1>q, <1>t, <1>w, FreshFacts
  <2>4. Fresh(q) = 0 => queues[q].nextUsed = ring[q].usedIdx
    BY <1>q, <1>t, <1>w, FreshFacts
  <2>5. Fresh(q)' = 0
    <3>1. queues[q].nextUsed \in Indices
      BY <1>q, <1>t, <1>w, WindowFacts
    <3>2. Minus(queues[q].nextUsed, queues[q].nextUsed) = 0
      BY <1>q, <1>t, <3>1, Distances
    <3>. QED
      BY <1>1, <1>3, <3>2 DEF Fresh
  <2>6. Given(q)' = Given(q)
    BY <1>1 DEF Given
  <2>7. /\ Given(q) \in Nat
    BY <1>q, <1>t, <1>w, WindowFacts
  <2>8. \/ Coming(q)'
        \/ drv'.last[q] = ring'[q].usedIdx
        \/ /\ AtQueue(q)' /\ loop'.pc = "notify" /\ Asks'
           /\ queues'[q].suppress => Given(q)' <= queues'[q].added
    <3>1. CASE Coming(q)
      BY <2>1, <3>1
    <3>2. CASE drv.last[q] = ring[q].usedIdx /\ Asks
      BY <1>1, <1>2, <2>1, <2>2, <2>3, <2>6, <2>7, <3>2
    <3>3. CASE drv.last[q] = ring[q].usedIdx /\ ~Asks
      BY <1>1, <1>3, <2>2, <2>4, <3>3
    <3>. QED
      BY <2>2, <3>1, <3>2, <3>3
  <2>9. drv'.poll[q] # "poll" => ring'[q].usedEvent = drv'.last[q]
    <3>1. ring'[q].usedEvent = ring[q].usedEvent
      BY <1>q, <1>3, <1>t
    <3>. QED
      BY <1>1, <2>1, <3>1 DEF TellInv
  <2>. QED
    BY <1>1, <1>2, <2>1, <2>2, <2>5, <2>8, <2>9 DEF TellInv
<1>8. \A p \in Queues : KickInv(p)' /\ TellInv(p)'
  BY <1>5, <1>6, <1>7
<1>. QED
  BY <1>1, <1>2, <1>4, <1>8, AwakeIs

(* The driver is told when the index it asked for has been passed, and     *)
(* that is whenever there is something it does not know of.                *)
LEMMA NotifyAwake ==
  ASSUME RegisterInv, SharedType, cc.active, \A q \in Queues : Windows(q), Awake, Notify
  PROVE  Awake'
<1>q. PICK q \in Queues : q = loop.q
  BY DEF SharedType, LoopType
<1>t. loop \in LoopType /\ queues \in [Queues -> QueueType] /\ dev \in Devices
  BY DEF SharedType, RegisterInv
<1>1. UNCHANGED <<dev, cc, ring, drv, kick>> /\ loop.pc = "notify"
  BY DEF Notify
<1>2. loop'.pc = "wait" /\ loop'.q = q /\ loop'.frame = loop.frame
  BY <1>q, <1>t DEF Notify, LoopType
<1>3. /\ SetInterrupts(IF Asks /\ PrepareKick(q) THEN Trigger(Interrupts, msix.queue[q]) ELSE Interrupts)
      /\ queues' = IF Asks /\ queues[q].suppress THEN [queues EXCEPT ![q].added = 0] ELSE queues
  BY <1>q DEF Notify, Asks, IsRx
<1>4. /\ \A p \in Queues : /\ queues'[p].suppress = queues[p].suppress /\ queues'[p].nextAvail = queues[p].nextAvail
                           /\ queues'[p].nextUsed = queues[p].nextUsed /\ queues'[p].size = queues[p].size
      /\ \A p \in Queues \ {q} : queues'[p].added = queues[p].added
      /\ queues[q].suppress => IF Asks THEN queues'[q].added = 0 ELSE queues'[q].added = queues[q].added
  BY <1>t, <1>3 DEF QueueType
<1>5. /\ MsixInv' /\ \A p \in Queues : Coming(p) => Coming(p)'
      /\ Asks /\ PrepareKick(q) => Coming(q)'
  <2>1. Sound(Interrupts) /\ Interrupts.m = msix /\ msix.enabled /\ msix.queue[q] \in Vectors \ {0}
        /\ \A p \in Queues : drv'.poll[p] = drv.poll[p]
    BY <1>1 DEF Awake, MsixInv, Interrupts
  <2>2. CASE ~(Asks /\ PrepareKick(q))
    <3>1. SetInterrupts(Interrupts) /\ Keeps(Interrupts, Interrupts)
      BY <1>3, <2>1, <2>2 DEF Keeps, Same, Sound
    <3>. QED
      BY <1>1, <2>1, <2>2, <3>1, TableKeeps DEF Awake
  <2>3. CASE Asks /\ PrepareKick(q)
    <3>. DEFINE v == msix.queue[q]
                r == Trigger(Interrupts, v)
    <3>1. SetInterrupts(r)
      BY <1>3, <2>3
    <3>2. v \in Vectors \cup {NoVector} /\ v \in Vectors \ {0}
      BY <2>1
    <3>3. Keeps(Interrupts, r) /\ r.m.enabled = msix.enabled /\ (r.irq[v] \/ r.m.pba[v])
      BY <2>1, <3>2, TriggerKeeps
    <3>4. msix' = r.m /\ irq' = r.irq /\ r.m.queue = msix.queue
      BY <2>1, <3>1, <3>3 DEF SetInterrupts, Keeps, Same
    <3>. HIDE DEF r
    <3>5. MsixInv' /\ \A p \in Queues : drv'.poll[p] = drv.poll[p] /\ Coming(p) => Coming(p)'
      BY <1>1, <2>1, <3>1, <3>3, TableKeeps DEF Awake
    <3>6. Coming(q)'
      BY <3>3, <3>4 DEF Coming
    <3>. QED
      BY <2>1, <3>5, <3>6
  <2>. QED
    BY <2>2, <2>3
<1>6. ASSUME NEW p \in Queues PROVE KickInv(p)'
  <2>1. /\ ~Looking(p) /\ ~Looking(p)' /\ (Wanted(p)' <=> Wanted(p)) /\ KickInv(p)
    BY <1>1, <1>2, <1>4, StalledSame DEF Looking, Wanted, IsRx, Awake
  <2>. QED
    BY <1>1, <1>2, <1>4, <2>1, KickSame
<1>7. ASSUME NEW p \in Queues \ {q} PROVE TellInv(p)'
  <2>1. /\ ~AtQueue(p)' /\ ~AtQueue(p) /\ TellInv(p)
    BY <1>1, <1>2, <1>q DEF AtQueue, Awake
  <2>. QED
    BY <1>1, <1>4, <1>5, <2>1, TellSame
<1>8. TellInv(q)'
  <2>1. AtQueue(q) /\ ~AtQueue(q)' /\ TellInv(q)
    BY <1>1, <1>2, <1>q DEF AtQueue, Awake
  <2>2. /\ drv.poll[q] # "poll" => ring[q].usedEvent = drv.last[q]
        /\ Fresh(q) = 0
        /\ ~Asks => (queues[q].suppress => queues[q].added = 0)
    BY <1>1, <2>1 DEF TellInv
  <2>3. Fresh(q)' = 0
    BY <1>1, <1>4, <2>2 DEF Fresh
  <2>4. queues'[q].suppress => queues'[q].added = 0
    BY <1>4, <2>2
  <2>5. Coming(q)' \/ drv.last[q] = ring[q].usedIdx
    <3>. SUFFICES ASSUME ~Coming(q)', drv.last[q] # ring[q].usedIdx PROVE FALSE
      OBVIOUS
    <3>1. ~Coming(q) /\ (Asks => ~PrepareKick(q))
      BY <1>5
    <3>2. Asks /\ (queues[q].suppress => Given(q) <= queues[q].added)
      BY <2>1, <3>1 DEF TellInv
    <3>3. drv.poll[q] = "idle" /\ ring[q].usedEvent = drv.last[q]
      BY <2>2, <3>1 DEF Coming
    <3>4. queues[q].suppress /\ ~(Minus(Given(q), 1) < queues[q].added) /\ Given(q) <= queues[q].added
      BY <3>1, <3>2, <3>3 DEF PrepareKick, Given
    <3>5. /\ Given(q) \in Indices /\ 1 \in Indices /\ Modulus \in Nat /\ queues[q].added \in Nat
      <4>1. Given(q) \in Nat /\ Given(q) < Modulus /\ Modulus \in Nat /\ Modulus > 1
        BY <1>t, WindowFacts, FreshFacts, ModulusFact
      <4>2. queues[q].added \in Indices
        BY <1>t DEF QueueType
      <4>. QED
        BY <4>1, <4>2 DEF Indices
    <3>6. Minus(Given(q), 1) = IF Given(q) >= 1 THEN Given(q) - 1 ELSE Given(q) - 1 + Modulus
      BY <1>t, <3>5, MinusIs
    <3>7. Given(q) = 0
      BY <3>4, <3>5, <3>6 DEF Indices
    <3>8. queues[q].nextUsed = ring[q].usedIdx
      BY <2>2, FreshFacts
    <3>9. Minus(queues[q].nextUsed, drv.last[q]) > 0
      <4>1. queues[q].nextUsed \in Indices /\ drv.last[q] \in Indices
        BY WindowFacts
      <4>. QED
        BY <1>t, <3>8, <4>1, Distances
    <3>. QED
      BY <3>7, <3>9 DEF Given
  <2>. QED
    BY <1>1, <2>1, <2>2, <2>3, <2>4, <2>5 DEF TellInv
<1>9. \A p \in Queues : KickInv(p)' /\ TellInv(p)'
  BY <1>6, <1>7, <1>8
<1>. QED
  BY <1>1, <1>2, <1>5, <1>9, AwakeIs

(* Every step of an active device keeps both sides awake.                  *)
LEMMA WakeActive ==
  ASSUME RegisterInv, RingInv, WakeInv, drv.phase # "reset", drv'.phase # "reset", cc.active, [Next]_vars
  PROVE  WakeInv'
<1>1. SharedType /\ (\A q \in Queues : Windows(q)) /\ MsixInv /\ kick \in [Queues -> BOOLEAN] /\ Awake /\ dev \in Devices
  BY DEF RingInv, WakeInv, Awake, RegisterInv
<1>2. /\ UNCHANGED <<dev, cc>>
      /\ \/ Still
         \/ Mask \/ UnmaskAll \/ \E v \in 0..2 : UnmaskEntry(v) \/ TakeInterrupt(v)
         \/ \E q \in Queues : \E h : \E c \in ChainOf(q) : Publish(q, h, c)
         \/ \E q \in Queues : Kick(q) \/ Collect(q) \/ Arm(q) \/ Rest(q)
         \/ ProcessActivateEvent \/ ProcessPasst \/ Working
         \/ \E q \in Queues : ProcessQueueEvent(q)
  BY <1>1, ActiveSteps
<1>d. drv \in DriverType
  BY <1>1 DEF SharedType
<1>3. Awake' /\ (kick' = kick \/ \E q \in Queues, b \in BOOLEAN : kick' = [kick EXCEPT ![q] = b])
  <2>1. CASE Still
    BY <1>1, <1>2, <2>1, StillAwake DEF Still
  <2>2. CASE Mask \/ UnmaskAll \/ \E v \in 0..2 : UnmaskEntry(v)
    <3>1. Awake'
      BY <1>1, <1>2, <1>d, <2>2, TableAwake
    <3>2. kick' = kick
      BY <2>2 DEF Mask, UnmaskAll, UnmaskEntry, WriteMsgCtl, WriteEntry
    <3>. QED
      BY <3>1, <3>2
  <2>3. ASSUME NEW v, TakeInterrupt(v) PROVE Awake' /\ kick' = kick
    BY <1>1, <1>d, <2>3, TakeInterruptAwake DEF TakeInterrupt
  <2>4. ASSUME NEW q \in Queues, NEW h, NEW c \in ChainOf(q), Publish(q, h, c) PROVE Awake' /\ kick' = kick
    BY <1>1, <2>4, PublishAwake DEF Publish
  <2>5. ASSUME NEW q \in Queues, Kick(q)
        PROVE  Awake' /\ \E b \in BOOLEAN : kick' = [kick EXCEPT ![q] = b]
    <3>1. Awake'
      BY <1>1, <2>5, KickAwake
    <3>2. \E b : kick' = [kick EXCEPT ![q] = b] /\ b \in BOOLEAN
      BY <1>1, <2>5 DEF Kick
    <3>. QED
      BY <3>1, <3>2
  <2>6. ASSUME NEW q \in Queues, Collect(q) \/ Arm(q) \/ Rest(q) PROVE Awake' /\ kick' = kick
    BY <1>1, <2>6, CollectAwake DEF Collect, Arm, Rest
  <2>7. CASE ProcessActivateEvent \/ ProcessPasst
    BY <1>1, <2>7, LoopAwake DEF ProcessActivateEvent, ProcessPasst
  <2>8. ASSUME NEW q \in Queues, ProcessQueueEvent(q)
        PROVE  Awake' /\ \E b \in BOOLEAN : kick' = [kick EXCEPT ![q] = b]
    BY <1>1, <2>8, LoopAwake DEF ProcessQueueEvent
  <2>9. CASE Working
    <3>1. CASE TakeDeferred \/ ReadHeader \/ ReadBody \/ ReadNothing \/ PopNothing \/ StillNothing \/ PopStray
      BY <1>1, <3>1, LoopAwake DEF TakeDeferred, ReadHeader, ReadBody, ReadNothing, PopNothing, StillNothing, PopStray
    <3>2. CASE Pop \/ PopAgain
      BY <1>1, <3>2, ServeAwake DEF Pop, PopAgain, Serve
    <3>3. CASE EnableNotification
      BY <1>1, <3>3, EnableAwake DEF EnableNotification
    <3>4. CASE AdvanceUsed
      BY <1>1, <3>4, AdvanceAwake DEF AdvanceUsed
    <3>5. CASE Notify
      BY <1>1, <3>5, NotifyAwake DEF Notify
    <3>. QED
      BY <2>9, <3>1, <3>2, <3>3, <3>4, <3>5 DEF Working
  <2>. QED
    BY <1>2, <2>1, <2>2, <2>3, <2>4, <2>5, <2>6, <2>7, <2>8, <2>9
<1>4. Queues' = Queues /\ kick' \in [Queues -> BOOLEAN]
  BY <1>1, <1>2, <1>3 DEF Queues
<1>5. FreshInv'
  BY <1>2 DEF FreshInv
<1>. QED
  BY <1>3, <1>4, <1>5 DEF WakeInv, Awake

(* Every step does.                                                        *)
LEMMA WakeStep == IInv /\ WakeInv /\ [Next]_vars => WakeInv'
<1>. SUFFICES ASSUME IInv, WakeInv, [Next]_vars PROVE WakeInv'
  OBVIOUS
<1>1. CASE drv.phase = "reset"
  BY <1>1, ResetStays DEF WakeInv
<1>2. CASE drv'.phase = "reset"
  BY <1>2 DEF WakeInv
<1>3. CASE drv.phase # "reset" /\ drv'.phase # "reset"
  BY <1>3, WakeBefore, WakeActive DEF IInv
<1>. QED
  BY <1>1, <1>2, <1>3

(* Both sides begin at the beginning.                                      *)
LEMMA WakeInit == Init => WakeInv
<1>. SUFFICES ASSUME Init PROVE WakeInv
  OBVIOUS
<1>d. dev \in Devices /\ Queues \subseteq {RX, TX}
  BY QueuesFact DEF Init
<1>1. /\ msix = NewMsix /\ irq = [v \in Vectors |-> FALSE] /\ ~cc.active /\ loop.pc = "wait"
      /\ kick \in [Queues -> BOOLEAN]
  BY DEF Init, NewConfig, NewLoop
<1>2. msix \in MsixType
  BY <1>1 DEF NewMsix, MsixType
<1>3. Sound(Interrupts)
  <2>1. Interrupts \in TableType
    BY <1>1, <1>2 DEF Interrupts, TableType
  <2>. QED
    BY <1>1, <2>1 DEF Sound, Interrupts, NewMsix
<1>4. \A v \in Vectors \ {0} : ~msix.pba[v]
  BY <1>1 DEF NewMsix
<1>5. FreshInv
  <2>1. \A q \in Queues : ring[q] = NewRing /\ queues[q] = NewQueue /\ drv = NewDriver /\ q \in {RX, TX}
    BY <1>d DEF Init
  <2>. QED
    BY <2>1 DEF FreshInv, NewRing, NewQueue, NewDriver
<1>. QED
  BY <1>1, <1>3, <1>4, <1>5 DEF WakeInv, MsixInv

(* Each side is brought to look at what the other has put in the rings.    *)
THEOREM BothSidesWake == Spec => []WakeInv
BY WakeInit, WakeStep, Ordered, PTL DEF Spec

(* When all is quiet, a queue has nothing left to give or to take.         *)
LEMMA QuietQueues ==
  ASSUME IInv, WakeInv, Quiet, NEW q \in Queues
  PROVE  Given(q) = 0 /\ (Wanted(q) => drv.out[q] = {})
<1>1. /\ RegisterInv /\ SharedType /\ cc.active /\ Windows(q) /\ MsixInv /\ KickInv(q) /\ TellInv(q) /\ dev \in Devices
      /\ ~AtQueue(q) /\ ~Looking(q)
  BY DEF IInv, RegisterInv, RingInv, ProbeInv, WakeInv, Quiet, Live, AtQueue, Looking
<1>2. ~Coming(q)
  <2>1. msix.queue[q] \in Vectors \ {0} /\ Interrupts.m = msix
    BY <1>1 DEF MsixInv, Interrupts
  <2>2. ~irq[msix.queue[q]] /\ ~msix.entry[msix.queue[q]] /\ ~msix.masked /\ drv.poll[q] = "idle"
    BY <2>1 DEF Quiet
  <2>3. ~msix.pba[msix.queue[q]]
    BY <1>1, <2>1, <2>2 DEF MsixInv, Sound
  <2>. QED
    BY <2>2, <2>3 DEF Coming
<1>3. Fresh(q) = 0 /\ drv.last[q] = ring[q].usedIdx
  BY <1>1, <1>2 DEF TellInv
<1>4. Given(q) = 0
  BY <1>1, <1>3, FreshFacts
<1>5. ASSUME Wanted(q) PROVE drv.out[q] = {}
  <2>1. Waiting(q) <= Unannounced(q)
    BY <1>1, <1>5 DEF KickInv, Quiet
  <2>2. Unannounced(q) = 0
    <3>1. ring[q].availIdx \in Indices /\ drv.told[q] = ring[q].availIdx
      BY <1>1, WindowFacts DEF Quiet
    <3>. QED
      BY <1>1, <3>1, Distances DEF Unannounced
  <2>3. Waiting(q) \in Nat /\ IsFiniteSet(drv.out[q])
    BY <1>1, WindowFacts
  <2>4. Cardinality(drv.out[q]) = 0
    BY <1>1, <1>4, <2>1, <2>2, <2>3 DEF Windows
  <2>. QED
    BY <2>3, <2>4, FS_EmptySet
<1>. QED
  BY <1>4, <1>5

(* So nothing is lost between the two sides.                               *)
LEMMA NothingLost == IInv /\ WakeInv => NoLostWakeup
<1>. SUFFICES ASSUME IInv, WakeInv, Quiet
              PROVE  /\ \A q \in Queues :
                            /\ Minus(queues[q].nextUsed, drv.last[q]) = 0
                            /\ (dev = "net" /\ q = RX) \/ Stalled(q) \/ drv.out[q] = {}
                     /\ loop.frame = 0
                     /\ \A n \in 1..net.sent : n \in Big \/ n \in Range(drv.got)
  BY DEF NoLostWakeup
<1>1. RegisterInv /\ SharedType /\ StreamInv /\ PipeInv /\ cc.active /\ dev \in Devices
  BY DEF IInv, RegisterInv, RingInv, ProbeInv, FrameInv, Quiet, Live
<1>2. \A q \in Queues : /\ Minus(queues[q].nextUsed, drv.last[q]) = 0
                        /\ (dev = "net" /\ q = RX) \/ Stalled(q) \/ drv.out[q] = {}
  BY QuietQueues DEF Wanted, IsRx, Given
<1>3. net.begun \in Nat /\ net.sent \in Nat /\ net.begun \in {net.sent, net.sent + 1} /\ Read = net.begun + net.sent
  <2>1. net.inbox = <<>> /\ Len(<<>>) = 0
    BY DEF Quiet
  <2>2. net.begun \in Nat /\ net.sent \in Nat /\ net.begun \in {net.sent, net.sent + 1}
    BY <1>1 DEF StreamInv, SharedType, NetType
  <2>3. Read = (net.begun + net.sent) - 0
    BY <2>1 DEF Read
  <2>. QED
    BY <2>2, <2>3
<1>4. loop.frame = 0
  <2>1. CASE dev = "net"
    <3>. SUFFICES ASSUME loop.frame # 0 PROVE FALSE
      OBVIOUS
    <3>1. RX \in Queues /\ Wanted(RX)
      BY <1>1, <2>1, QueuesFact DEF Wanted, Stalled, Stray
    <3>2. drv.out[RX] = {} /\ drv.out[RX] = 0..(queues[RX].size - 1)
      BY <2>1, <3>1, QuietQueues DEF Quiet
    <3>3. queues[RX].size \in Nat \ {0}
      BY <1>1, <3>1 DEF RegisterInv, GoodSize
    <3>4. 0 \in 0..(queues[RX].size - 1)
      BY <3>3
    <3>. QED
      BY <3>2, <3>4
  <2>2. CASE dev # "net"
    <3>1. net.begun = 0 /\ net.sent = 0
      BY <1>1, <1>3, <2>2 DEF StreamInv
    <3>2. Read = 0
      BY <1>3, <3>1
    <3>. QED
      BY <1>1, <3>2 DEF StreamInv
  <2>. QED
    BY <2>1, <2>2
<1>5. ASSUME NEW n \in 1..net.sent, n \notin Big PROVE n \in Range(drv.got)
  <2>1. dev = "net"
    BY <1>1, <1>3 DEF StreamInv
  <2>2. Delivered = net.sent
    BY <1>3, <1>4 DEF Delivered
  <2>3. RX \in Queues /\ Given(RX) = 0
    BY <1>1, <2>1, QueuesFact, QuietQueues
  <2>. QED
    BY <1>1, <1>5, <2>1, <2>2, <2>3 DEF PipeInv
<1>. QED
  BY <1>2, <1>4, <1>5

(* When both sides sleep nothing is left to do, but in a queue that has    *)
(* stopped at a head leading out of its table: for every size and modulus  *)
(* of the rings, with or without event indices, however the guest masks,   *)
(* batches and delays, neither a notification nor an interrupt is lost     *)
(* (pop_unchecked, try_enable_notification, prepare_kick, trigger,         *)
(* write_table, set_msg_ctl, rx_deferred_frame).                           *)
THEOREM WakeupsArrive == Spec => []NoLostWakeup
BY NothingLost, BothSidesWake, Ordered, PTL
=============================================================================
