------------------------------ MODULE VirtioNet ------------------------------
(***************************************************************************)
(* The virtio-net device (virtio_net.cpp): the TX path that a vCPU runs    *)
(* inside its MMIO write, the RX queue that the network stack fills from   *)
(* its own threads, the RX thread that moves frames into the guest's ring, *)
(* the interrupt, device reset, and ~Net.                                  *)
(*                                                                         *)
(* Net::mtx_ is a plain std::mutex, so a thread that locks it twice waits  *)
(* for itself.  A register access that only reads or writes fields under   *)
(* the lock is one step; guest memory is touched by the guest without it.  *)
(* Every frame fits the buffer the driver posted for it.  Register writes  *)
(* of the two queue addresses and of feature selection are abstracted to   *)
(* Setup.  Notifying a queue that is not ready changes nothing.            *)
(***************************************************************************)
EXTENDS Virtqueue, Sequences

CONSTANTS
    Vcpus,      \* vCPU threads
    Peers,      \* threads of the network stack that send frames to the guest
    MaxTx,      \* bound: frames the guest sends
    MaxRx,      \* bound: frames the stack sends
    MaxReset,   \* bound: times the driver resets the device
    Answered,   \* TX frames the stack answers before guest_tx returns
    Teardown    \* the VM is destroyed

ASSUME NetAssumption ==
    /\ Vcpus \cap Peers = {} /\ "free" \notin Vcpus /\ "rx" \notin Vcpus
    /\ MaxTx \in Nat /\ MaxRx \in Nat /\ MaxReset \in Nat
    /\ Answered \subseteq 1..MaxTx /\ Teardown \in BOOLEAN

VARIABLES
    mtx,        \* owner of mtx_: a vCPU, "rx" or "free"
    pc,         \* where each vCPU and stack thread is
    raised,     \* process_tx's raised (owned by the holder of mtx_)
    txhead,     \* process_tx's head
    rxpc,       \* where rx_flush_func is
    frame,      \* rx_flush_func's frame
    rxQueue,    \* rx_queue_
    stopRx,     \* stop_rx_
    dtor,       \* where ~Net is
    queue,      \* queues_: last_avail and ready of each
    irqStatus,  \* bit 0 of irq_status_
    spi,        \* the device's SPI is pending in the GIC
    ring,       \* guest memory: the rings
    buf,        \* guest memory: the frame in each chain
    owned,      \* driver: chains it has not given to the device
    lastUsed,   \* driver: how far it has collected the used rings
    irqpc,      \* driver: where its interrupt handler is
    txMade, rxMade, resets,     \* frames and resets so far
    handed,     \* TX frames given to guest_tx, in order
    got         \* RX frames the driver collected, in order

devVars    == <<queue, irqStatus, spi>>
rxVars     == <<rxpc, frame, rxQueue, stopRx, dtor>>
txVars     == <<raised, txhead>>
guestVars  == <<ring, buf, owned, lastUsed, irqpc>>
countVars  == <<txMade, rxMade, resets, handed, got>>
vars == <<mtx, pc, txVars, rxVars, devVars, guestVars, countVars>>

Queues  == {"rx", "tx"}
Threads == Vcpus \cup Peers
NewQueue == [last |-> 0, ready |-> FALSE]

Init ==
    /\ mtx = "free"
    /\ pc = [t \in Threads |-> "run"]
    /\ raised = FALSE /\ txhead = 0
    /\ rxpc = "top" /\ frame = 0 /\ rxQueue = <<>>
    /\ stopRx = FALSE /\ dtor = "live"
    /\ queue = [q \in Queues |-> NewQueue]
    /\ irqStatus = 0 /\ spi = FALSE
    /\ ring = [q \in Queues |-> NewRing]
    /\ buf = [q \in Queues |-> [h \in Heads |-> 0]]
    /\ owned = [q \in Queues |-> Heads]
    /\ lastUsed = [q \in Queues |-> 0]
    /\ irqpc = "idle"
    /\ txMade = 0 /\ rxMade = 0 /\ resets = 0
    /\ handed = <<>> /\ got = <<>>

Goto(t, l) == pc' = [pc EXCEPT ![t] = l]
Live == dtor = "live"

(***************************************************************************)
(* The driver.  It posts chains and collects them without the lock.        *)
(***************************************************************************)
\* Probe, and probe after a reset: zeroed rings, queues ready.
Setup ==
    /\ Live /\ mtx = "free" /\ irqpc = "idle"
    /\ ~queue["rx"].ready
    /\ \A v \in Vcpus : pc[v] = "run"
    /\ queue' = [q \in Queues |-> [queue[q] EXCEPT !.ready = TRUE]]
    /\ ring' = [q \in Queues |-> NewRing]
    /\ owned' = [q \in Queues |-> Heads]
    /\ lastUsed' = [q \in Queues |-> 0]
    /\ buf' = [q \in Queues |-> [h \in Heads |-> 0]]
    /\ UNCHANGED <<mtx, pc, txVars, rxVars, irqStatus, spi, irqpc, countVars>>

Give(q, h, n) ==
    /\ ring' = [ring EXCEPT ![q] = Offer(@, h)]
    /\ owned' = [owned EXCEPT ![q] = @ \ {h}]
    /\ buf' = [buf EXCEPT ![q][h] = n]

\* An empty buffer for the device to receive into.
PostRx(h) ==
    /\ Live /\ queue["rx"].ready /\ h \in owned["rx"]
    /\ Give("rx", h, 0)
    /\ UNCHANGED <<mtx, pc, txVars, rxVars, devVars, lastUsed, irqpc, countVars>>

\* A frame to send; the write to QueueNotify follows.
PostTx(v, h) ==
    /\ Live /\ queue["tx"].ready /\ h \in owned["tx"]
    /\ pc[v] = "run" /\ txMade < MaxTx
    /\ Give("tx", h, txMade + 1)
    /\ txMade' = txMade + 1
    /\ Goto(v, "kick")
    /\ UNCHANGED <<mtx, txVars, rxVars, devVars, lastUsed, irqpc, rxMade, resets, handed, got>>

IrqTake ==
    /\ Live /\ irqpc = "idle" /\ spi
    /\ spi' = FALSE /\ irqpc' = "read"
    /\ UNCHANGED <<mtx, pc, txVars, rxVars, queue, irqStatus, ring, buf, owned, lastUsed, countVars>>

Collect(q) ==
    /\ Live /\ irqpc = "collect" /\ lastUsed[q] # ring[q].usedIdx
    /\ LET h == ring[q].used[lastUsed[q] % QSize]
       IN /\ owned' = [owned EXCEPT ![q] = @ \cup {h}]
          /\ buf' = [buf EXCEPT ![q][h] = 0]
          /\ got' = IF q = "rx" THEN Append(got, buf[q][h]) ELSE got
    /\ lastUsed' = [lastUsed EXCEPT ![q] = Bump(@)]
    /\ UNCHANGED <<mtx, pc, txVars, rxVars, devVars, ring, irqpc, txMade, rxMade, resets, handed>>

CollectEnd ==
    /\ Live /\ irqpc = "collect"
    /\ \A q \in Queues : lastUsed[q] = ring[q].usedIdx
    /\ irqpc' = "idle"
    /\ UNCHANGED <<mtx, pc, txVars, rxVars, devVars, ring, buf, owned, lastUsed, countVars>>

(***************************************************************************)
(* Register accesses: one locked step each.                                *)
(***************************************************************************)
\* Net::read of IrqStatus: the handler returns when it is clear.
ReadIrqStatus ==
    /\ Live /\ irqpc = "read" /\ mtx = "free"
    /\ irqpc' = IF irqStatus = 1 THEN "ack" ELSE "idle"
    /\ UNCHANGED <<mtx, pc, txVars, rxVars, devVars, ring, buf, owned, lastUsed, countVars>>

\* Net::write of IrqAck.
WriteIrqAck ==
    /\ Live /\ irqpc = "ack" /\ mtx = "free"
    /\ irqStatus' = 0 /\ irqpc' = "collect"
    /\ UNCHANGED <<mtx, pc, txVars, rxVars, queue, spi, ring, buf, owned, lastUsed, countVars>>

\* Mutant: reset leaves last_avail where it was.
ResetKeepsLast ==
    /\ Live /\ mtx = "free" /\ resets < MaxReset /\ irqpc = "idle"
    /\ queue["rx"].ready
    /\ queue' = [q \in Queues |-> [queue[q] EXCEPT !.ready = FALSE]]
    /\ irqStatus' = 0
    /\ resets' = resets + 1
    /\ UNCHANGED <<mtx, pc, txVars, rxVars, spi, guestVars, txMade, rxMade, handed, got>>

\* Net::write of Status = 0.  The driver keeps interrupt handlers out.
Reset ==
    /\ Live /\ mtx = "free" /\ resets < MaxReset /\ irqpc = "idle"
    /\ queue["rx"].ready
    /\ queue' = [q \in Queues |-> NewQueue]
    /\ irqStatus' = 0
    /\ resets' = resets + 1
    /\ UNCHANGED <<mtx, pc, txVars, rxVars, spi, guestVars, txMade, rxMade, handed, got>>

(***************************************************************************)
(* Net::write of QueueNotify: process_tx, with mtx_ held throughout.       *)
(***************************************************************************)
Notify(v) ==
    /\ pc[v] = "kick" /\ mtx = "free"
    /\ IF queue["tx"].ready
       THEN mtx' = v /\ raised' = FALSE /\ Goto(v, "tx")
       ELSE Goto(v, "run") /\ UNCHANGED <<mtx, raised>>
    /\ UNCHANGED <<txhead, rxVars, devVars, guestVars, countVars>>

\* guest_tx: what the stack does with frame n before it returns.  ARP, ICMP,
\* DHCP, DNS and UDP answer through the TxFn from inside the call, as does TCP
\* with its ACK, FIN and RST; a SYN is answered by a thread of its own.
GuestTx(n) == IF n \in Answered THEN "enq" ELSE "used"

\* The next chain goes to guest_tx.
TakeTx(v) ==
    /\ pc[v] = "tx" /\ queue["tx"].last # ring["tx"].availIdx
    /\ txhead' = NextHead(queue["tx"].last, ring["tx"])
    /\ handed' = Append(handed, buf["tx"][txhead'])
    /\ Goto(v, GuestTx(buf["tx"][txhead']))
    /\ UNCHANGED <<mtx, raised, rxVars, devVars, guestVars, txMade, rxMade, resets, got>>

\* Mutant: last_avail is not advanced.
FinishTxKeepsLast(v) ==
    /\ pc[v] = "used"
    /\ ring' = [ring EXCEPT !["tx"] = PushUsed(@, txhead)]
    /\ raised' = TRUE /\ txhead' = 0
    /\ Goto(v, "tx")
    /\ UNCHANGED <<queue, mtx, rxVars, irqStatus, spi, buf, owned, lastUsed, irqpc, countVars>>

FinishTx(v) ==
    /\ pc[v] = "used"
    /\ ring' = [ring EXCEPT !["tx"] = PushUsed(@, txhead)]
    /\ queue' = [queue EXCEPT !["tx"].last = Bump(@)]
    /\ raised' = TRUE /\ txhead' = 0
    /\ Goto(v, "tx")
    /\ UNCHANGED <<mtx, rxVars, irqStatus, spi, buf, owned, lastUsed, irqpc, countVars>>

\* The ring is empty: one interrupt for the whole batch, and the lock is
\* released on return.
EndTx(v) ==
    /\ pc[v] = "tx" /\ queue["tx"].last = ring["tx"].availIdx
    /\ irqStatus' = IF raised THEN 1 ELSE irqStatus
    /\ spi' = (spi \/ raised)
    /\ mtx' = "free" /\ raised' = FALSE
    /\ Goto(v, "run")
    /\ UNCHANGED <<txhead, rxVars, queue, guestVars, countVars>>

(***************************************************************************)
(* The stack's TxFn, enqueue_rx: called by the stack's threads, and by the *)
(* vCPU that is inside guest_tx.                                           *)
(***************************************************************************)
Produce(p) ==
    /\ dtor # "gone" /\ p \in Peers /\ pc[p] = "run" /\ rxMade < MaxRx
    /\ Goto(p, "enq")
    /\ UNCHANGED <<mtx, txVars, rxVars, devVars, guestVars, countVars>>

\* notify_one: the RX thread, if it is blocked in wait, goes for the lock.
Awaken == rxpc' = IF rxpc = "wait" THEN "lock" ELSE rxpc

\* Mutant: the frame is queued and nobody is told.
EnqueueRxSilently(t) ==
    /\ pc[t] = "enq" /\ mtx = "free"
    /\ rxQueue' = Append(rxQueue, rxMade + 1)
    /\ rxMade' = rxMade + 1
    /\ Goto(t, IF t \in Vcpus THEN "used" ELSE "run")
    /\ UNCHANGED <<rxpc, mtx, txVars, frame, stopRx, dtor, devVars, guestVars, txMade, resets, handed, got>>

EnqueueRx(t) ==
    /\ pc[t] = "enq" /\ mtx = "free"
    /\ rxQueue' = Append(rxQueue, rxMade + 1)
    /\ rxMade' = rxMade + 1
    /\ Awaken
    /\ Goto(t, IF t \in Vcpus THEN "used" ELSE "run")
    /\ UNCHANGED <<mtx, txVars, frame, stopRx, dtor, devVars, guestVars, txMade, resets, handed, got>>

(***************************************************************************)
(* rx_flush_func.  wait(lk, pred) tests the predicate under the lock and   *)
(* then blocks; the two are separate steps because stop_rx_ changes        *)
(* without the lock.                                                       *)
(***************************************************************************)
RxTop ==
    /\ rxpc = "top"
    /\ rxpc' = IF stopRx THEN "done" ELSE "lock"
    /\ UNCHANGED <<mtx, pc, txVars, frame, rxQueue, stopRx, dtor, devVars, guestVars, countVars>>

RxLock ==
    /\ rxpc = "lock" /\ mtx = "free"
    /\ mtx' = "rx" /\ rxpc' = "test"
    /\ UNCHANGED <<pc, txVars, frame, rxQueue, stopRx, dtor, devVars, guestVars, countVars>>

RxStop ==
    /\ rxpc = "test" /\ stopRx
    /\ mtx' = "free" /\ rxpc' = "done"
    /\ UNCHANGED <<pc, txVars, frame, rxQueue, stopRx, dtor, devVars, guestVars, countVars>>

\* Mutant: the frame is copied and left at the front of the queue.
RxPopNothing ==
    /\ rxpc = "test" /\ ~stopRx /\ rxQueue # <<>>
    /\ frame' = Head(rxQueue)
    /\ mtx' = "free" /\ rxpc' = "feed"
    /\ UNCHANGED <<rxQueue, pc, txVars, stopRx, dtor, devVars, guestVars, countVars>>

RxPop ==
    /\ rxpc = "test" /\ ~stopRx /\ rxQueue # <<>>
    /\ frame' = Head(rxQueue) /\ rxQueue' = Tail(rxQueue)
    /\ mtx' = "free" /\ rxpc' = "feed"
    /\ UNCHANGED <<pc, txVars, stopRx, dtor, devVars, guestVars, countVars>>

RxEmpty ==
    /\ rxpc = "test" /\ ~stopRx /\ rxQueue = <<>>
    /\ rxpc' = "block"
    /\ UNCHANGED <<mtx, pc, txVars, frame, rxQueue, stopRx, dtor, devVars, guestVars, countVars>>

RxBlock ==
    /\ rxpc = "block"
    /\ mtx' = "free" /\ rxpc' = "wait"
    /\ UNCHANGED <<pc, txVars, frame, rxQueue, stopRx, dtor, devVars, guestVars, countVars>>

\* do_feed_rx: without a queue or a buffer the frame is dropped.
RxDrop ==
    /\ rxpc = "feed" /\ mtx = "free"
    /\ ~queue["rx"].ready \/ queue["rx"].last = ring["rx"].availIdx
    /\ rxpc' = "top" /\ frame' = 0
    /\ UNCHANGED <<mtx, pc, txVars, rxQueue, stopRx, dtor, devVars, guestVars, countVars>>

RxFeed ==
    /\ rxpc = "feed" /\ mtx = "free"
    /\ queue["rx"].ready /\ queue["rx"].last # ring["rx"].availIdx
    /\ LET h == NextHead(queue["rx"].last, ring["rx"])
       IN /\ buf' = [buf EXCEPT !["rx"][h] = frame]
          /\ ring' = [ring EXCEPT !["rx"] = PushUsed(@, h)]
    /\ queue' = [queue EXCEPT !["rx"].last = Bump(@)]
    /\ mtx' = "rx" /\ rxpc' = "irq" /\ frame' = 0
    /\ UNCHANGED <<pc, txVars, rxQueue, stopRx, dtor, irqStatus, spi, owned, lastUsed, irqpc, countVars>>

\* Mutant: the interrupt is raised without its bit in irq_status_.
RxIrqNoStatus ==
    /\ rxpc = "irq"
    /\ spi' = TRUE
    /\ mtx' = "free" /\ rxpc' = "top"
    /\ UNCHANGED <<irqStatus, pc, txVars, frame, rxQueue, stopRx, dtor, queue, guestVars, countVars>>

RxIrq ==
    /\ rxpc = "irq"
    /\ irqStatus' = 1 /\ spi' = TRUE
    /\ mtx' = "free" /\ rxpc' = "top"
    /\ UNCHANGED <<pc, txVars, frame, rxQueue, stopRx, dtor, queue, guestVars, countVars>>

(***************************************************************************)
(* ~Net, after the vCPU threads have been joined.  The stack's threads are *)
(* still running.                                                          *)
(***************************************************************************)
DtorStop ==
    /\ Teardown /\ Live /\ \A v \in Vcpus : pc[v] = "run"
    /\ stopRx' = TRUE /\ dtor' = "notify"
    /\ UNCHANGED <<mtx, pc, txVars, rxpc, frame, rxQueue, devVars, guestVars, countVars>>

DtorNotify ==
    /\ dtor = "notify"
    /\ Awaken /\ dtor' = "join"
    /\ UNCHANGED <<mtx, pc, txVars, frame, rxQueue, stopRx, devVars, guestVars, countVars>>

DtorJoin ==
    /\ dtor = "join" /\ rxpc = "done"
    /\ dtor' = "gone"
    /\ UNCHANGED <<mtx, pc, txVars, rxpc, frame, rxQueue, stopRx, devVars, guestVars, countVars>>

Driver == \/ Setup \/ IrqTake \/ CollectEnd
          \/ \E h \in Heads : PostRx(h) \/ \E v \in Vcpus : PostTx(v, h)
          \/ \E q \in Queues : Collect(q)
Registers   == ReadIrqStatus \/ WriteIrqAck \/ Reset
ProcessTx(v) == Notify(v) \/ TakeTx(v) \/ FinishTx(v) \/ EndTx(v)
RxFlush == \/ RxTop \/ RxLock \/ RxStop \/ RxPop \/ RxEmpty \/ RxBlock
           \/ RxDrop \/ RxFeed \/ RxIrq
DestroyNet == DtorStop \/ DtorNotify \/ DtorJoin

Next ==
    \/ Driver \/ Registers
    \/ \E v \in Vcpus : ProcessTx(v)
    \/ \E p \in Peers : Produce(p)
    \/ \E t \in Threads : EnqueueRx(t)
    \/ RxFlush \/ DestroyNet

Spec == Init /\ [][Next]_vars

\* Host threads and vCPU threads are scheduled; the guest runs its interrupt
\* handler.  Nothing makes the guest post buffers, send, or reset.
FairSpec ==
    /\ Spec
    /\ WF_vars(RxFlush) /\ WF_vars(DtorNotify) /\ WF_vars(DtorJoin)
    /\ \A v \in Vcpus : WF_vars(ProcessTx(v))
    /\ \A t \in Threads : WF_vars(EnqueueRx(t))
    /\ WF_vars(IrqTake \/ ReadIrqStatus \/ WriteIrqAck \/ CollectEnd)
    /\ \A q \in Queues : WF_vars(Collect(q))

(***************************************************************************)
(* Properties.                                                             *)
(***************************************************************************)
\* The type invariant.
TypeOK ==
    /\ mtx \in Vcpus \cup {"rx", "free"}
    /\ pc \in [Threads -> {"run", "kick", "tx", "enq", "used"}]
    /\ raised \in BOOLEAN /\ txhead \in Heads
    /\ rxpc \in {"top", "lock", "test", "block", "wait", "feed", "irq", "done"}
    /\ frame \in Nat /\ rxQueue \in Seq(Nat \ {0})
    /\ stopRx \in BOOLEAN /\ dtor \in {"live", "notify", "join", "gone"}
    /\ queue \in [Queues -> [last : Indices, ready : BOOLEAN]]
    /\ irqStatus \in {0, 1} /\ spi \in BOOLEAN
    /\ ring \in [Queues -> Rings]
    /\ buf \in [Queues -> [Heads -> Nat]]
    /\ owned \in [Queues -> SUBSET Heads]
    /\ lastUsed \in [Queues -> Indices]
    /\ irqpc \in {"idle", "read", "ack", "collect"}
    /\ txMade \in 0..MaxTx /\ rxMade \in Nat /\ resets \in 0..MaxReset
    /\ handed \in Seq(1..MaxTx) /\ got \in Seq(Nat \ {0})

Increasing(s) == \A i, j \in 1..Len(s) : i < j => s[i] < s[j]

\* A vCPU notifies while another drains the ring, the driver resets, and the
\* RX thread keeps a popped frame across an unlock: still the stack is handed
\* each TX frame at most once and in the order it was posted, and the driver
\* receives each RX frame at most once and in the order it was queued.
InOrder == Increasing(handed) /\ Increasing(got)

\* While a queue is ready every descriptor chain is in exactly one place: with
\* the driver, waiting in the avail ring, in the used ring, or being served.
\* The devices' indices never lose or double a buffer, across their wrap and
\* across a reset.
ChainsAccounted ==
    \A q \in Queues : queue[q].ready =>
        LET unserved    == Unserved(queue[q].last, ring[q])
            uncollected == Uncollected(lastUsed[q], ring[q])
            line == unserved \o uncollected
        IN \A h \in Heads :
             IF h \in owned[q]
             THEN \A i \in 1..Len(line) : line[i] # h
             ELSE \E i \in 1..Len(line) : \A j \in 1..Len(line) : line[j] = h <=> i = j

\* An interrupt is never lost: when a chain waits in a used ring, the
\* interrupt handler is idle and the device is not about to raise one, then
\* the SPI is pending and irq_status_ tells the handler to look.
UsedIsSignalled ==
    \A q \in Queues :
        /\ queue[q].ready /\ lastUsed[q] # ring[q].usedIdx
        /\ irqpc = "idle" /\ mtx = "free" /\ Live
        => spi /\ irqStatus = 1

\* A queued frame does not stay queued: enqueue_rx always finds the RX thread
\* awake or wakes it, and the thread delivers the frame or drops it, unless
\* ~Net has begun.
FramesFlushed ==
    \A n \in 1..MaxRx :
        rxMade >= n ~> \/ /\ \A i \in 1..Len(rxQueue) : rxQueue[i] # n
                          /\ ~(rxpc = "feed" /\ frame = n)
                       \/ ~Live

\* A frame the stack answers gets its answer: the TxFn call returns.
RepliesReachGuest ==
    \A v \in Vcpus : pc[v] = "enq" ~> pc[v] = "run"

\* ~Net returns: the RX thread sees stop_rx_ and is joined.
TeardownEnds == dtor = "notify" ~> dtor = "gone"

\* The members of Net outlive their users: when ~Net destroys rx_queue_ and
\* rx_cv_, before it gets to the stack, no thread of the stack is about to use
\* them in enqueue_rx.
QueueOutlivesStack == dtor = "gone" => \A p \in Peers : pc[p] # "enq"
==============================================================================
