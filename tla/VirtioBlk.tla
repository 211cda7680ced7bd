------------------------------ MODULE VirtioBlk ------------------------------
(***************************************************************************)
(* The virtio-blk device (virtio_block.cpp).  A vCPU that writes           *)
(* QueueNotify drains the request queue itself, with mtx_ held, one        *)
(* pread or pwrite per data descriptor; other vCPUs go on posting requests *)
(* meanwhile, and the guest's interrupt handler collects answers without   *)
(* the lock.                                                               *)
(*                                                                         *)
(* A request is its chain: type, first block, number of data descriptors   *)
(* whose buffer the device can use (one block each), number of those it    *)
(* passes over because gpa_to_hva refuses the address or the length is 0,  *)
(* and, for a write, the value of its blocks; "BAD" is a chain whose first *)
(* descriptor is unusable.  Every other chain ends in a status byte in the *)
(* guest's RAM.  A transfer of the host fails, is complete, or,            *)
(* for a block of Short, moves less than a block; process_rq tests only    *)
(* for the failure.  The lengths reported in the used ring are left out,   *)
(* drivers of this device ignore them; fsync and the bytes of GET_ID have  *)
(* no effect the driver can see.                                           *)
(***************************************************************************)
EXTENDS Virtqueue, Sequences

CONSTANTS
    Vcpus,      \* vCPU threads
    Requests,   \* the requests the driver makes: [type, start, n, skipped, val]
    Values,     \* contents of a block
    Short       \* blocks the host may transfer in part: past the end of the
                \* image, or without room on the host's disk

Types == {"IN", "OUT", "FLUSH", "GET_ID", "OTHER", "BAD"}

ASSUME BlkAssumption ==
    /\ "free" \notin Vcpus /\ Requests # {}
    /\ \A r \in Requests : /\ r.type \in Types /\ r.val \in Values
                           /\ r.start \in Nat /\ r.n \in Nat /\ r.skipped \in Nat

VARIABLES
    mtx,        \* owner of mtx_: a vCPU or "free"
    pc,         \* where each vCPU is
    raised, head, seg, skip, status,  \* locals of process_rq (of the holder of mtx_):
                \* seg blocks transferred, skip buffers passed over
    last, ready,                \* queue_
    irqStatus,  \* bit 0 of irq_status_
    spi,        \* the device's SPI is pending in the GIC
    disk,       \* the image file
    ring,       \* guest memory: the rings
    chain,      \* guest memory: the request in each chain
    answer,     \* guest memory: status byte and data buffers of each chain
    owned,      \* driver: chains not in use
    lastUsed,   \* driver: how far it has collected the used ring
    irqpc,      \* driver: where its interrupt handler is
    before      \* auxiliary: the image when the current request was started

locals    == <<raised, head, seg, skip, status, before>>
devVars   == <<last, ready, irqStatus, spi>>
guestVars == <<ring, chain, answer, owned, lastUsed, irqpc>>
vars == <<mtx, pc, locals, devVars, disk, guestVars>>

Blocks == UNION {{r.start + i - 1 : i \in 1..r.n} : r \in Requests}
Contents == Values \cup {"torn"}
NoAnswer == [status |-> "none", data |-> <<>>]
AnyRequest == CHOOSE r \in Requests : TRUE

Init ==
    /\ mtx = "free" /\ pc = [v \in Vcpus |-> "run"]
    /\ raised = FALSE /\ head = 0 /\ seg = 0 /\ skip = 0 /\ status = "OK"
    /\ last = 0 /\ ready = FALSE
    /\ irqStatus = 0 /\ spi = FALSE
    /\ disk \in [Blocks -> Values] /\ before = disk
    /\ ring = NewRing
    /\ chain = [h \in Heads |-> AnyRequest]
    /\ answer = [h \in Heads |-> NoAnswer]
    /\ owned = Heads /\ lastUsed = 0 /\ irqpc = "idle"

Goto(v, l) == pc' = [pc EXCEPT ![v] = l]

(***************************************************************************)
(* The driver.                                                             *)
(***************************************************************************)
Setup ==
    /\ mtx = "free" /\ irqpc = "idle" /\ ~ready
    /\ \A v \in Vcpus : pc[v] = "run"
    /\ ready' = TRUE
    /\ ring' = NewRing /\ owned' = Heads /\ lastUsed' = 0
    /\ chain' = [h \in Heads |-> AnyRequest]
    /\ answer' = [h \in Heads |-> NoAnswer]
    /\ UNCHANGED <<mtx, pc, locals, last, irqStatus, spi, disk, irqpc>>

\* A request, in the lowest free chain: the device treats all chains alike, so
\* any other choice only gives the same behaviour other names.
Post(v, h, r) ==
    /\ ready /\ pc[v] = "run"
    /\ h \in owned /\ \A g \in owned : h <= g
    /\ chain' = [chain EXCEPT ![h] = r]
    /\ answer' = [answer EXCEPT ![h] = NoAnswer]
    /\ ring' = Offer(ring, h)
    /\ owned' = owned \ {h}
    /\ Goto(v, "kick")
    /\ UNCHANGED <<mtx, locals, devVars, disk, lastUsed, irqpc>>

IrqTake ==
    /\ irqpc = "idle" /\ spi
    /\ spi' = FALSE /\ irqpc' = "read"
    /\ UNCHANGED <<mtx, pc, locals, last, ready, irqStatus, disk, ring, chain, answer, owned, lastUsed>>

Collect ==
    /\ irqpc = "collect" /\ lastUsed # ring.usedIdx
    /\ LET h == ring.used[lastUsed % QSize]
       IN /\ owned' = owned \cup {h}
          /\ chain' = [chain EXCEPT ![h] = AnyRequest]
          /\ answer' = [answer EXCEPT ![h] = NoAnswer]
    /\ lastUsed' = Bump(lastUsed)
    /\ UNCHANGED <<mtx, pc, locals, devVars, disk, ring, irqpc>>

CollectEnd ==
    /\ irqpc = "collect" /\ lastUsed = ring.usedIdx
    /\ irqpc' = "idle"
    /\ UNCHANGED <<mtx, pc, locals, devVars, disk, ring, chain, answer, owned, lastUsed>>

(***************************************************************************)
(* Register accesses: one locked step each.                                *)
(***************************************************************************)
\* Block::read of IrqStatus: the handler returns when it is clear.
ReadIrqStatus ==
    /\ irqpc = "read" /\ mtx = "free"
    /\ irqpc' = IF irqStatus = 1 THEN "ack" ELSE "idle"
    /\ UNCHANGED <<mtx, pc, locals, devVars, disk, ring, chain, answer, owned, lastUsed>>

\* Block::write of IrqAck.
WriteIrqAck ==
    /\ irqpc = "ack" /\ mtx = "free"
    /\ irqStatus' = 0 /\ irqpc' = "collect"
    /\ UNCHANGED <<mtx, pc, locals, last, ready, spi, disk, ring, chain, answer, owned, lastUsed>>

\* Mutant: the queue keeps its position across a reset.
ResetKeepsLast ==
    /\ mtx = "free" /\ irqpc = "idle" /\ ready
    /\ ready' = FALSE /\ irqStatus' = 0
    /\ UNCHANGED <<last, mtx, pc, locals, spi, disk, guestVars>>

\* Block::write of Status = 0.  The driver keeps interrupt handlers out.
Reset ==
    /\ mtx = "free" /\ irqpc = "idle" /\ ready
    /\ last' = 0 /\ ready' = FALSE /\ irqStatus' = 0
    /\ UNCHANGED <<mtx, pc, locals, spi, disk, guestVars>>

(***************************************************************************)
(* Block::write of QueueNotify: process_rq, with mtx_ held throughout.     *)
(***************************************************************************)
Notify(v) ==
    /\ pc[v] = "kick" /\ mtx = "free"
    /\ IF ready THEN mtx' = v /\ Goto(v, "scan")
                ELSE Goto(v, "run") /\ UNCHANGED mtx
    /\ UNCHANGED <<locals, devVars, disk, guestVars>>

\* The header of the next chain.  The data descriptors are walked for every
\* type but FLUSH and GET_ID.
TakeRequest(v) ==
    /\ pc[v] = "scan" /\ last # ring.availIdx
    /\ head' = NextHead(last, ring)
    /\ chain[head'].type # "BAD"
    /\ status' = "OK" /\ before' = disk
    /\ IF chain[head'].type \in {"FLUSH", "GET_ID"}
       THEN seg' = chain[head'].n /\ skip' = chain[head'].skipped
       ELSE seg' = 0 /\ skip' = 0
    /\ Goto(v, "io")
    /\ UNCHANGED <<mtx, raised, devVars, disk, guestVars>>

\* An unusable header leaves the loop; the chain stays where it is.
BadRequest(v) ==
    /\ pc[v] = "scan" /\ last # ring.availIdx
    /\ chain[NextHead(last, ring)].type = "BAD"
    /\ Goto(v, "end")
    /\ UNCHANGED <<mtx, locals, devVars, disk, guestVars>>

\* One data descriptor of the current chain.
Block == chain[head].start + seg
InChain(v, type) == pc[v] = "io" /\ chain[head].type = type /\ seg < chain[head].n

\* pread returns the block, an error, or less than was asked: the status keeps
\* its value in the last case.
Read(v) ==
    /\ InChain(v, "IN")
    /\ \/ /\ answer' = [answer EXCEPT ![head].data = Append(@, disk[Block])]
          /\ UNCHANGED status
       \/ /\ answer' = [answer EXCEPT ![head].data = Append(@, "stale")]
          /\ status' = "IOERR" \/ (Block \in Short /\ UNCHANGED status)
    /\ seg' = seg + 1
    /\ UNCHANGED <<mtx, pc, raised, head, skip, before, devVars, disk, ring, chain, owned, lastUsed, irqpc>>

\* Mutant: the status is that of the last transfer.
WriteLastStatus(v) ==
    /\ InChain(v, "OUT")
    /\ \/ /\ disk' = [disk EXCEPT ![Block] = chain[head].val]
          /\ status' = "OK"
       \/ status' = "IOERR" /\ UNCHANGED disk
    /\ seg' = seg + 1
    /\ UNCHANGED <<mtx, pc, raised, head, skip, before, devVars, guestVars>>

\* pwrite likewise: a block written in part is torn.
Write(v) ==
    /\ InChain(v, "OUT")
    /\ \/ /\ disk' = [disk EXCEPT ![Block] = chain[head].val]
          /\ UNCHANGED status
       \/ /\ Block \in Short
          /\ disk' = [disk EXCEPT ![Block] = "torn"]
          /\ UNCHANGED status
       \/ status' = "IOERR" /\ UNCHANGED disk
    /\ seg' = seg + 1
    /\ UNCHANGED <<mtx, pc, raised, head, skip, before, devVars, guestVars>>

Unsupported(v) ==
    /\ InChain(v, "OTHER")
    /\ status' = "UNSUPP" /\ seg' = seg + 1
    /\ UNCHANGED <<mtx, pc, raised, head, skip, before, devVars, disk, guestVars>>

\* A buffer the device cannot use: nothing is transferred, the offset stays
\* where it is and so does the status.
SkipBuffer(v) ==
    /\ pc[v] = "io" /\ skip < chain[head].skipped
    /\ skip' = skip + 1
    /\ UNCHANGED <<mtx, pc, raised, head, seg, status, before, devVars, disk, guestVars>>

\* The status byte, the used ring, the next chain.
FinishRequest(v) ==
    /\ pc[v] = "io" /\ seg = chain[head].n /\ skip = chain[head].skipped
    /\ answer' = [answer EXCEPT ![head].status = status]
    /\ ring' = PushUsed(ring, head)
    /\ last' = Bump(last)
    /\ raised' = TRUE
    /\ head' = 0 /\ seg' = 0 /\ skip' = 0 /\ status' = "OK" /\ before' = disk
    /\ Goto(v, "scan")
    /\ UNCHANGED <<mtx, ready, irqStatus, spi, disk, chain, owned, lastUsed, irqpc>>

Drained(v) == pc[v] = "end" \/ (pc[v] = "scan" /\ last = ring.availIdx)

\* Mutant: the bit is set and the SPI is not raised.
EndRequestsNoSpi(v) ==
    /\ Drained(v)
    /\ irqStatus' = IF raised THEN 1 ELSE irqStatus
    /\ raised' = FALSE /\ mtx' = "free"
    /\ Goto(v, "run")
    /\ UNCHANGED <<spi, head, seg, skip, status, before, last, ready, disk, guestVars>>

\* One interrupt for the whole batch; the lock is released on return.
EndRequests(v) ==
    /\ Drained(v)
    /\ irqStatus' = IF raised THEN 1 ELSE irqStatus
    /\ spi' = (spi \/ raised)
    /\ raised' = FALSE /\ mtx' = "free"
    /\ Goto(v, "run")
    /\ UNCHANGED <<head, seg, skip, status, before, last, ready, disk, guestVars>>

ProcessRq(v) ==
    \/ Notify(v) \/ TakeRequest(v) \/ BadRequest(v)
    \/ Read(v) \/ Write(v) \/ Unsupported(v) \/ SkipBuffer(v)
    \/ FinishRequest(v) \/ EndRequests(v)

Next ==
    \/ Setup \/ IrqTake \/ Collect \/ CollectEnd
    \/ \E v \in Vcpus, h \in Heads, r \in Requests : Post(v, h, r)
    \/ ReadIrqStatus \/ WriteIrqAck \/ Reset
    \/ \E v \in Vcpus : ProcessRq(v)

Spec == Init /\ [][Next]_vars

\* vCPU threads are scheduled and the guest runs its interrupt handler.
FairSpec ==
    /\ Spec
    /\ \A v \in Vcpus : WF_vars(ProcessRq(v))
    /\ WF_vars(IrqTake \/ ReadIrqStatus \/ WriteIrqAck \/ Collect \/ CollectEnd)

(***************************************************************************)
(* Properties.                                                             *)
(***************************************************************************)
\* The type invariant.
TypeOK ==
    /\ mtx \in Vcpus \cup {"free"}
    /\ pc \in [Vcpus -> {"run", "kick", "scan", "io", "end"}]
    /\ raised \in BOOLEAN /\ head \in Heads /\ seg \in Nat /\ skip \in Nat
    /\ status \in {"OK", "IOERR", "UNSUPP"}
    /\ last \in Indices /\ ready \in BOOLEAN
    /\ irqStatus \in {0, 1} /\ spi \in BOOLEAN
    /\ disk \in [Blocks -> Contents] /\ before \in [Blocks -> Contents]
    /\ ring \in Rings
    /\ chain \in [Heads -> Requests]
    /\ answer \in [Heads -> [status : {"none", "OK", "IOERR", "UNSUPP"},
                             data : Seq(Contents \cup {"stale"})]]
    /\ owned \in SUBSET Heads /\ lastUsed \in Indices
    /\ irqpc \in {"idle", "read", "ack", "collect"}

\* The device seen through its interface: the requests between last_avail and
\* the avail index, the answers between the driver's position and the used
\* index, and the image without the transfers of an unfinished request.
Unserveds == Unserved(last, ring)
Answereds == Uncollected(lastUsed, ring)
Pending ==
    IF ready
    THEN [i \in DOMAIN Unserveds |-> [tag |-> Unserveds[i], req |-> chain[Unserveds[i]]]]
    ELSE <<>>
Answers ==
    IF ready
    THEN [i \in DOMAIN Answereds |->
            [tag |-> Answereds[i], status |-> answer[Answereds[i]].status,
             data |-> answer[Answereds[i]].data]]
    ELSE <<>>
Medium == IF \E v \in Vcpus : pc[v] = "io" THEN before ELSE disk

Service == INSTANCE BlockService WITH
    Tags <- Heads, pending <- Pending, answers <- Answers, disk <- Medium

\* The device implements the block service: every request is served once, in
\* order, against the effect of all earlier ones, and its status tells of every
\* transfer the host refused -- whatever other vCPUs post while the queue is
\* drained, wherever the 16-bit indices wrap, and across resets.  OK does not
\* mean that the request was carried out where a transfer of a Short block was
\* incomplete, or where a buffer was passed over: the service it implements says
\* so (ServeOk).
ImplementsService == Service!Spec

\* An interrupt is never lost: when an answer waits in the used ring, the
\* interrupt handler is idle and nobody is draining the queue, then the SPI is
\* pending and irq_status_ tells the handler to look.
UsedIsSignalled ==
    ready /\ lastUsed # ring.usedIdx /\ irqpc = "idle" /\ mtx = "free"
        => spi /\ irqStatus = 1

\* Every request is answered and its answer collected, although only one of
\* two racing notifications may find it in the queue, unless the device is
\* reset or a malformed chain blocks the queue.
RequestsComplete ==
    \A h \in Heads :
        ready /\ h \notin owned
            ~> h \in owned \/ ~ready \/ \E g \in Heads \ owned : chain[g].type = "BAD"
==============================================================================
