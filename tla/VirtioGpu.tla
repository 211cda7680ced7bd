------------------------------ MODULE VirtioGpu ------------------------------
(***************************************************************************)
(* The virtio-gpu device (virtio_gpu.cpp).  A vCPU that writes QueueNotify *)
(* executes the commands in the control queue with mtx_ held, takes the    *)
(* frames they staged, and gives them to the frame callback after the      *)
(* unlock, next to other vCPUs that do the same.                           *)
(*                                                                         *)
(* The pixels of a resource are the number of the guest's drawing they     *)
(* were copied from.  A resource has one guest buffer, and the entries of  *)
(* an ATTACH_BACKING cover it; a transfer is of the whole resource.  There *)
(* is a frame callback, and it returns.  A command that changes nothing    *)
(* (GET_DISPLAY_INFO, an unknown or a truncated one) is "OTHER".           *)
(* The driver keeps to the protocol: it names a resource between its       *)
(* CREATE and its UNREF, and transfers while a backing is attached.        *)
(***************************************************************************)
EXTENDS Virtqueue, Sequences, FiniteSets

CONSTANTS
    Vcpus,      \* vCPU threads
    Ids,        \* resource ids
    MaxDraw,    \* bound: drawings of the guest
    MaxFlush,   \* bound: RESOURCE_FLUSH commands
    MaxCmd,     \* bound: commands
    MaxReset    \* bound: times the driver resets the device

ASSUME GpuAssumption ==
    /\ "free" \notin Vcpus /\ Ids \subseteq Nat \ {0} /\ Ids # {}
    /\ MaxDraw \in Nat /\ MaxFlush \in Nat /\ MaxCmd \in Nat /\ MaxReset \in Nat

Ops == {"CREATE", "UNREF", "SCANOUT", "FLUSH", "TRANSFER", "ATTACH", "DETACH", "OTHER"}

VARIABLES
    mtx,        \* owner of mtx_: a vCPU or "free"
    pc,         \* where each vCPU is
    batch,      \* vCPU -> frames, the local of Gpu::write
    last, ready,    \* queues_[0]
    irqStatus,  \* bit 0 of irq_status_
    spi,        \* the device's SPI is pending in the GIC
    res,        \* resources_
    scanout,    \* scanout_resource_id_
    pending,    \* pending_frames_
    staged,     \* auxiliary: frames staged so far; a frame is its number
    shown,      \* frames given to the callback, in order
    ring,       \* guest memory: the rings
    chain,      \* guest memory: the command in each chain
    refused,    \* history: a command was answered with INVALID_RESOURCE_ID
    fb,         \* guest memory: the drawing in each resource's buffer
    owned,      \* driver: chains not in use
    lastUsed,   \* driver: how far it has collected the used ring
    irqpc,      \* driver: where its interrupt handler is
    view,       \* driver: its resources, as of the commands it has posted
    due,        \* driver: the drawing its last transfer of a resource covers
    draws, flushes, cmds, resets    \* drawings, flushes, commands and resets so far

devVars   == <<last, ready, irqStatus, spi>>
gpuVars   == <<res, scanout, pending, staged>>
guestVars == <<ring, chain, refused, fb, owned, lastUsed, irqpc, view, due>>
countVars == <<draws, flushes, cmds, resets>>
vars == <<mtx, pc, batch, devVars, gpuVars, shown, guestVars, countVars>>

Gone == [live |-> FALSE, pix |-> 0, backed |-> FALSE]
Idle == [op |-> "OTHER", id |-> 0, due |-> 0]
Commands == [op : Ops, id : Ids \cup {0}, due : 0..MaxDraw]
Frames   == [n : Nat \ {0}, pix : 0..MaxDraw, due : 0..MaxDraw]

Init ==
    /\ mtx = "free" /\ pc = [v \in Vcpus |-> "run"] /\ batch = [v \in Vcpus |-> <<>>]
    /\ last = 0 /\ ready = FALSE /\ irqStatus = 0 /\ spi = FALSE
    /\ res = [i \in Ids |-> Gone] /\ scanout = 0
    /\ pending = <<>> /\ staged = 0 /\ shown = <<>>
    /\ ring = NewRing
    /\ chain = [h \in Heads |-> Idle] /\ refused = FALSE
    /\ fb = [i \in Ids |-> 0]
    /\ owned = Heads /\ lastUsed = 0 /\ irqpc = "idle"
    /\ view = [i \in Ids |-> "none"] /\ due = [i \in Ids |-> 0]
    /\ draws = 0 /\ flushes = 0 /\ cmds = 0 /\ resets = 0

Goto(v, label) == pc' = [pc EXCEPT ![v] = label]

(***************************************************************************)
(* The guest's driver.                                                     *)
(***************************************************************************)
\* The driver initialises the device, which is reset, with new rings.
Setup ==
    /\ ~ready /\ mtx = "free" /\ irqpc = "idle"
    /\ ready' = TRUE
    /\ ring' = NewRing /\ owned' = Heads /\ lastUsed' = 0
    /\ chain' = [h \in Heads |-> Idle]
    /\ view' = [i \in Ids |-> "none"] /\ due' = [i \in Ids |-> 0]
    /\ UNCHANGED <<mtx, pc, batch, last, irqStatus, spi, gpuVars, shown, refused, fb, irqpc, countVars>>

Draw(i) ==
    /\ draws < MaxDraw
    /\ draws' = draws + 1 /\ fb' = [fb EXCEPT ![i] = draws + 1]
    /\ UNCHANGED <<mtx, pc, batch, devVars, gpuVars, shown, ring, chain, refused, owned,
                   lastUsed, irqpc, view, due, flushes, cmds, resets>>

\* The commands the protocol allows, and what they do to the driver's view.
Allowed(op, i) ==
    \/ op = "OTHER"
    \/ op = "CREATE" /\ view[i] = "none"
    \/ op = "ATTACH" /\ view[i] = "made"
    \/ op \in {"DETACH", "TRANSFER"} /\ view[i] = "backed"
    \/ op \in {"SCANOUT", "UNREF"} /\ view[i] # "none"
    \/ op = "FLUSH" /\ view[i] # "none" /\ flushes < MaxFlush

Viewed(op, old) ==
    CASE op \in {"CREATE", "DETACH"} -> "made"
      [] op = "ATTACH" -> "backed"
      [] op = "UNREF" -> "none"
      [] OTHER -> old

\* Chains come from a free list.
FreeHead == CHOOSE h \in owned : \A g \in owned : h <= g

Post(v, op, i) ==
    /\ ready /\ pc[v] = "run" /\ owned # {} /\ cmds < MaxCmd /\ Allowed(op, i)
    /\ cmds' = cmds + 1
    /\ view' = [view EXCEPT ![i] = Viewed(op, @)]
    /\ due' = [due EXCEPT ![i] = CASE op = "TRANSFER" -> fb[i] [] op = "CREATE" -> 0 [] OTHER -> @]
    /\ flushes' = IF op = "FLUSH" THEN flushes + 1 ELSE flushes
    /\ chain' = [chain EXCEPT ![FreeHead] = [op |-> op, id |-> i, due |-> IF op = "FLUSH" THEN due[i] ELSE 0]]
    /\ ring' = Offer(ring, FreeHead) /\ owned' = owned \ {FreeHead}
    /\ Goto(v, "kick")
    /\ UNCHANGED <<mtx, batch, devVars, gpuVars, shown, refused, fb, lastUsed, irqpc, draws, resets>>

IrqTake ==
    /\ irqpc = "idle" /\ spi
    /\ spi' = FALSE /\ irqpc' = "read"
    /\ UNCHANGED <<mtx, pc, batch, last, ready, irqStatus, gpuVars, shown, ring, chain, refused,
                   fb, owned, lastUsed, view, due, countVars>>

Collect ==
    /\ irqpc = "collect" /\ lastUsed # ring.usedIdx
    /\ LET h == ring.used[lastUsed % QSize]
       IN /\ owned' = owned \cup {h}
          /\ chain' = [chain EXCEPT ![h] = Idle]
    /\ lastUsed' = Bump(lastUsed)
    /\ UNCHANGED <<mtx, pc, batch, devVars, gpuVars, shown, ring, refused, fb, irqpc, view, due, countVars>>

CollectEnd ==
    /\ irqpc = "collect" /\ lastUsed = ring.usedIdx
    /\ irqpc' = "idle"
    /\ UNCHANGED <<mtx, pc, batch, devVars, gpuVars, shown, ring, chain, refused, fb, owned,
                   lastUsed, view, due, countVars>>

(***************************************************************************)
(* Register accesses: one locked step each.                                *)
(***************************************************************************)
\* Gpu::read of IrqStatus: the handler returns when it is clear.
ReadIrqStatus ==
    /\ irqpc = "read" /\ mtx = "free"
    /\ irqpc' = IF irqStatus = 1 THEN "ack" ELSE "idle"
    /\ UNCHANGED <<mtx, pc, batch, devVars, gpuVars, shown, ring, chain, refused, fb, owned,
                   lastUsed, view, due, countVars>>

\* Gpu::write of IrqAck.
WriteIrqAck ==
    /\ irqpc = "ack" /\ mtx = "free"
    /\ irqStatus' = 0 /\ irqpc' = "collect"
    /\ UNCHANGED <<mtx, pc, batch, last, ready, spi, gpuVars, shown, ring, chain, refused, fb,
                   owned, lastUsed, view, due, countVars>>

\* Mutant: the queue keeps its position across a reset.
ResetKeepsLast ==
    /\ mtx = "free" /\ irqpc = "idle" /\ ready /\ resets < MaxReset
    /\ resets' = resets + 1
    /\ ready' = FALSE /\ irqStatus' = 0
    /\ res' = [i \in Ids |-> Gone] /\ scanout' = 0 /\ pending' = <<>>
    /\ UNCHANGED <<last, mtx, pc, batch, spi, staged, shown, guestVars, draws, flushes, cmds>>

\* Gpu::write of Status = 0.  The driver keeps interrupt handlers out.
Reset ==
    /\ mtx = "free" /\ irqpc = "idle" /\ ready /\ resets < MaxReset
    /\ resets' = resets + 1
    /\ last' = 0 /\ ready' = FALSE /\ irqStatus' = 0
    /\ res' = [i \in Ids |-> Gone] /\ scanout' = 0 /\ pending' = <<>>
    /\ UNCHANGED <<mtx, pc, batch, spi, staged, shown, guestVars, draws, flushes, cmds>>

(***************************************************************************)
(* handle_command, one operator per command: what it does to the           *)
(* resources, and its response.                                            *)
(***************************************************************************)
Create2d(i) ==
    /\ res' = [res EXCEPT ![i] = [live |-> TRUE, pix |-> 0, backed |-> FALSE]]
    /\ UNCHANGED <<scanout, pending, staged>>

Unref(i) ==
    /\ res' = [res EXCEPT ![i] = Gone]
    /\ scanout' = IF scanout = i THEN 0 ELSE scanout
    /\ UNCHANGED <<pending, staged>>

SetScanout(i) == scanout' = i /\ UNCHANGED <<res, pending, staged>>

\* Only the resource that is scanned out makes a frame.
Flush(i, promised) ==
    /\ IF res[i].live /\ scanout = i
       THEN /\ pending' = Append(pending, [n |-> staged + 1, pix |-> res[i].pix, due |-> promised])
            /\ staged' = staged + 1
       ELSE UNCHANGED <<pending, staged>>
    /\ UNCHANGED <<res, scanout>>

\* read_backing copies what the backing covers: nothing without one.
ReadBacking(i) == IF res[i].backed THEN fb[i] ELSE res[i].pix

\* Mutant: the rectangle is taken for an empty one.
TransferNothing(i) == UNCHANGED gpuVars

TransferToHost(i) ==
    /\ res' = [res EXCEPT ![i].pix = IF res[i].live THEN ReadBacking(i) ELSE @]
    /\ UNCHANGED <<scanout, pending, staged>>

AttachBacking(i) ==
    /\ res' = [res EXCEPT ![i].backed = res[i].live]
    /\ UNCHANGED <<scanout, pending, staged>>

DetachBacking(i) ==
    /\ res' = [res EXCEPT ![i].backed = FALSE]
    /\ UNCHANGED <<scanout, pending, staged>>

HandleCommand(cmd) ==
    \/ cmd.op = "CREATE"   /\ Create2d(cmd.id)
    \/ cmd.op = "UNREF"    /\ Unref(cmd.id)
    \/ cmd.op = "SCANOUT"  /\ SetScanout(cmd.id)
    \/ cmd.op = "FLUSH"    /\ Flush(cmd.id, cmd.due)
    \/ cmd.op = "TRANSFER" /\ TransferToHost(cmd.id)
    \/ cmd.op = "ATTACH"   /\ AttachBacking(cmd.id)
    \/ cmd.op = "DETACH"   /\ DetachBacking(cmd.id)
    \/ cmd.op = "OTHER"    /\ UNCHANGED gpuVars

\* FLUSH, TRANSFER and ATTACH look their resource up.
Response(cmd) ==
    IF cmd.op \in {"FLUSH", "TRANSFER", "ATTACH"} /\ ~res[cmd.id].live THEN "INVALID_ID" ELSE "OK"

(***************************************************************************)
(* Gpu::write of QueueNotify.                                              *)
(***************************************************************************)
Notify(v) ==
    /\ pc[v] = "kick" /\ mtx = "free"
    /\ IF ready THEN mtx' = v /\ Goto(v, "scan")
                ELSE Goto(v, "run") /\ UNCHANGED mtx
    /\ UNCHANGED <<batch, devVars, gpuVars, shown, guestVars, countVars>>

ExecuteCommand(v) ==
    /\ pc[v] = "scan" /\ last # ring.availIdx
    /\ LET h == NextHead(last, ring)
       IN /\ HandleCommand(chain[h])
          /\ refused' = (refused \/ Response(chain[h]) # "OK")
          /\ ring' = PushUsed(ring, h)
    /\ last' = Bump(last)
    /\ UNCHANGED <<mtx, pc, batch, ready, irqStatus, spi, shown, chain, fb, owned, lastUsed,
                   irqpc, view, due, countVars>>

\* The loop over the frames that are left; then write returns.
ShowNext(v, frames) == Goto(v, IF frames = <<>> THEN "run" ELSE "show")

\* Mutant: the interrupt is raised without its bit in irq_status_.
EndCommandsNoStatus(v) ==
    /\ pc[v] = "scan" /\ last = ring.availIdx
    /\ spi' = TRUE
    /\ batch' = [batch EXCEPT ![v] = pending] /\ pending' = <<>>
    /\ mtx' = "free" /\ ShowNext(v, pending)
    /\ UNCHANGED <<irqStatus, last, ready, res, scanout, staged, shown, guestVars, countVars>>

\* Mutant: the staged frames are copied, not taken.
EndCommandsCopies(v) ==
    /\ pc[v] = "scan" /\ last = ring.availIdx
    /\ irqStatus' = 1 /\ spi' = TRUE
    /\ batch' = [batch EXCEPT ![v] = pending]
    /\ mtx' = "free" /\ ShowNext(v, pending)
    /\ UNCHANGED <<last, ready, gpuVars, shown, guestVars, countVars>>

\* The interrupt, whether or not there was a command; then the staged frames
\* are swapped out and the lock is released.
EndCommands(v) ==
    /\ pc[v] = "scan" /\ last = ring.availIdx
    /\ irqStatus' = 1 /\ spi' = TRUE
    /\ batch' = [batch EXCEPT ![v] = pending] /\ pending' = <<>>
    /\ mtx' = "free" /\ ShowNext(v, pending)
    /\ UNCHANGED <<last, ready, res, scanout, staged, shown, guestVars, countVars>>

\* One call of frame_cb_, without the lock.
ShowFrame(v) ==
    /\ pc[v] = "show"
    /\ shown' = Append(shown, Head(batch[v]).n)
    /\ batch' = [batch EXCEPT ![v] = Tail(@)] /\ ShowNext(v, batch'[v])
    /\ UNCHANGED <<mtx, devVars, gpuVars, guestVars, countVars>>

ProcessControlq(v) ==
    Notify(v) \/ ExecuteCommand(v) \/ EndCommands(v) \/ ShowFrame(v)

Next ==
    \/ Setup \/ IrqTake \/ Collect \/ CollectEnd
    \/ \E i \in Ids : Draw(i)
    \/ \E v \in Vcpus, op \in Ops, i \in Ids : Post(v, op, i)
    \/ ReadIrqStatus \/ WriteIrqAck \/ Reset
    \/ \E v \in Vcpus : ProcessControlq(v)

Spec == Init /\ [][Next]_vars

(***************************************************************************)
(* Properties.                                                             *)
(***************************************************************************)
\* The type invariant.
TypeOK ==
    /\ mtx \in Vcpus \cup {"free"}
    /\ pc \in [Vcpus -> {"run", "kick", "scan", "show"}]
    /\ batch \in [Vcpus -> Seq(Frames)]
    /\ last \in Indices /\ ready \in BOOLEAN
    /\ irqStatus \in {0, 1} /\ spi \in BOOLEAN
    /\ res \in [Ids -> [live : BOOLEAN, pix : 0..MaxDraw, backed : BOOLEAN]]
    /\ scanout \in Ids \cup {0}
    /\ pending \in Seq(Frames) /\ staged \in Nat /\ shown \in Seq(Nat \ {0})
    /\ ring \in Rings /\ chain \in [Heads -> Commands]
    /\ refused \in BOOLEAN
    /\ fb \in [Ids -> 0..MaxDraw]
    /\ owned \in SUBSET Heads /\ lastUsed \in Indices
    /\ irqpc \in {"idle", "read", "ack", "collect"}
    /\ view \in [Ids -> {"none", "made", "backed"}] /\ due \in [Ids -> 0..MaxDraw]
    /\ draws \in 0..MaxDraw /\ flushes \in 0..MaxFlush /\ cmds \in 0..MaxCmd /\ resets \in 0..MaxReset

Places(n) ==
    {<<"pending", i>> : i \in {j \in DOMAIN pending : pending[j].n = n}}
    \cup {<<"shown", i>> : i \in {j \in DOMAIN shown : shown[j] = n}}
    \cup UNION {{<<v, i>> : i \in {j \in DOMAIN batch[v] : batch[v][j].n = n}} : v \in Vcpus}

\* Frames leave the lock with the vCPU that took them, while other vCPUs stage
\* new ones and the driver may reset the device: still every staged frame is
\* in exactly one place, so it is given to the callback once or will be.
FramesAccounted == \A n \in 1..staged : Cardinality(Places(n)) = 1

\* A frame is never older than the driver may expect: it has the drawing that
\* was in the buffer when the driver posted the last TRANSFER before the
\* FLUSH, or a later one.
FramesFresh ==
    LET Fresh(f) == \A j \in DOMAIN f : f[j].pix >= f[j].due
    IN Fresh(pending) /\ \A v \in Vcpus : Fresh(batch[v])

\* A driver that keeps to the protocol is never told that its resource does
\* not exist: what it posted and what the device has executed stay in step,
\* whichever vCPU executes it, across the wrap of the indices and resets.
NeverRefused == ~refused

\* An interrupt is never lost: when a response waits in the used ring, the
\* interrupt handler is idle and nobody is draining the queue, then the SPI is
\* pending and irq_status_ tells the handler to look.
UsedIsSignalled ==
    ready /\ lastUsed # ring.usedIdx /\ irqpc = "idle" /\ mtx = "free"
        => spi /\ irqStatus = 1
===============================================================================
