# TLA+ verification of libcompute-vm

libcompute-vm runs Linux guests on macOS: a small public API (`Create`, `Destroy`)
over an engine built on Hypervisor.framework (`src/src/hvf`), one built on
Virtualization.framework (`src/src/vz`), and an IPC library (`src/ipc`).  This
directory holds TLA+ models of the parts whose correctness depends on how
threads, guests and peers interleave, the TLC configurations that check them on
small instances, and machine-checked proofs: about the VM's life cycle for any
number of vCPUs and callers, and about the boot image for files of any size.

## 1. The system

### Components, their state and their operations

| Component | Source | State | Operations |
|---|---|---|---|
| API and backend | `vm.cpp`, `hvf/hvf_backend.cpp` | `g_backends`; `vms_`, `next_id_`, `mutex_`; the process-wide hypervisor VM | `Create`, `Destroy` |
| VM context and run thread | `hvf/vm_context.*` | `running_`, the vCPUs, the devices | `run_all`, `stop`, destructor |
| vCPU threads | `hvf/vcpu.*` | the thread, `boot_pc`, `boot_x0`, `boot_pending`, the hypervisor vCPU | `spawn`, `thread_func`, `setup_regs`, `join` |
| Exits and PSCI | `hvf/exit_handler.cpp`, `hvf/fw_psci.cpp` | none of their own | decode an exit; CPU_ON, CPU_OFF, SYSTEM_OFF/RESET |
| TCP NAT | `hvf/network.cpp` | `conns`, `done_queue`; per connection `state`, `g_nxt`, `h_nxt`, `stop`, `fd` | `handle_tcp`, connect thread, IO thread, `inbound_fwd` |
| ARP, ICMP, DHCP, DNS, UDP | `hvf/network.cpp` | none | a request is answered, mostly before `guest_tx` returns |
| virtio-net | `hvf/virtio_net.*` | `mtx_`, `rx_queue_`, `stop_rx_`, two queues, `irq_status_` | `read`, `write`, `process_tx`, `enqueue_rx`, `rx_flush_func`, `~Net` |
| virtio-blk | `hvf/virtio_block.*` | `mtx_`, one queue, `irq_status_`, the image | `read`, `write`, `process_rq` |
| IPC channel | `ipc/src/{server,client,channel,transport_inprocess}.cpp` | two pipes, `connected_`, `write_mutex_`, `channel` | `listen`, `connect`, `send`, the read loop, `stop` |
| virtio-gpu | `hvf/virtio_gpu.*` | `mtx_`, the control queue, `resources_`, `scanout_resource_id_`, `pending_frames_`, `irq_status_` | `read`, `write`, `process_controlq`, `handle_command`, the frame callback |
| virtio-input | `hvf/virtio_input.*` | `mtx_`, `pending_events_` (at most 2 * `kQueueSize`), two queues, `irq_status_`, `config_` | `send_key`, `send_pointer`, `read`, `write`, `flush_events_locked`, `process_statusq`, `update_config` |
| Serial bridge | `hvf/hvf_backend.cpp`, `ipc/src/transport_unix.cpp`, the UART of `exit_handler.cpp` | two pipes, the numbers of their ends, the pump thread and its stop token, the server's channel and socket | the UART's data register, the pump, accept, the read thread, the end of `Create`, `Destroy` |
| Boot image | `hvf/{memory,fw_loader,fw_dtb}.cpp`, the address map | guest RAM, the devices, the device tree | `map_ram`, `create_*`, `load_kernel`, `load_initrd`, `DTB::generate`, the routing of an address |
| virtio-console, VZ backend, CLI, logger, named pipes | `hvf/virtio_console.cpp`, `vz/`, `cli/`, `ipc/src/transport_win.cpp` | | not modelled, see section 8 |

### How they interact

* `Create` runs on the application's thread, starts the run thread and returns;
  the run thread starts one thread per vCPU.  `Destroy` stores `false` into
  `running_`, joins the run thread (which joins the vCPUs), frees the context,
  then the hypervisor VM, all with `mutex_` held.
* A vCPU leaves the guest with an exit.  A PSCI call changes the state of another
  vCPU through three atomics; an MMIO write to `QueueNotify` runs the device's
  queue on the vCPU's own thread, with the device's mutex held.
* virtio-net hands each frame to the stack by a call (`guest_tx`); the stack hands
  frames back by a callback (`enqueue_rx`) from the vCPU itself or from its own
  threads.  An RX thread moves them into guest memory.
* virtio-gpu stages the frames a batch of commands makes and gives them to the
  application's callback on the vCPU's thread, after it has released its mutex.
* virtio-input is called by the application's threads, which move events into the
  buffers the driver has posted; what finds no buffer waits for the driver's kick.
* The serial bridge has five parties: a vCPU writes the UART's bytes into a pipe, the
  pump thread reads it and sends to the client of an `ipc::Server`, whose accept and
  read threads are the server's own; `Destroy` closes descriptors all of them hold.
* `Create` maps RAM, creates the devices, copies kernel and initrd into RAM and makes
  the device tree from what the earlier steps left; the exit handler routes by address.
* Guest memory, the rings included, is read and written by the guest without any
  lock.  The device tells the guest by `irq_status_` and a pulse of its SPI.
* The two ends of an IPC channel share two pipes, each with a mutex, a condition
  variable and a `closed` flag.

### What is hard

Start and stop race (`running_` is written by two threads); a thread must never
outlive what it uses; the boot handshake is three stores against three loads; the
connection table is keyed by a 4-tuple that may be reused while threads still hold
the key; sequence numbers are drawn by several threads; interrupts are edges and may
be lost; ring indices wrap; one of several transfers fails; a condition variable's
predicate changes outside its mutex; a mutex is locked again by its owner; `stop()`
must wake a blocked read whichever way the transport was disconnected; a bounded queue
drops its front; a descriptor is closed, and its number used again, while another thread
holds it; a full pipe, a full socket and a join wait for each other; the size limits of
the images ignore where the images go.  The list,
line by line, is `hazards` in `PROJECT.json`.

### What makes each component correct

* Life cycle: nothing is used after it is freed; at most one VM, and the table
  accounts for it; a secondary starts with the arguments of one CPU_ON; a stop is
  not undone; `Destroy` returns, unless a device keeps it.
* TCP: each side gets a prefix of what the other side sent, whatever is lost,
  repeated, reused or interleaved, but for the bytes whose write to the host failed; finished connections leave the table, unfinished
  ones do not; handshakes end; threads of dropped connections end.
* Devices: each chain is served once, in order, and returned once with an interrupt
  that is not lost; a status reports every transfer the host refused; a frame reaches
  the application once and shows what the guest transferred.
* IPC: an end receives whole messages in order; `stop()` returns; the peer is told.
* Input: the guest sees events in order and never loses the newest; none is stuck.
* Serial: the client sees the guest's output as it was written; a number is used only
  for what it was given for; the channel does not keep `Destroy`.
* Boot image: nothing is copied outside RAM or over another image; the tree says what
  is there.

## 2. Modules

| Module | Models | Lines of code behind it |
|---|---|---|
| `VmLifecycle` | API, backend, run thread, vCPU threads, PSCI | `vm.cpp`, `hvf_backend.cpp`, `vm_context.cpp`, `vcpu.cpp`, `fw_psci.cpp`, the outcomes of `exit_handler.cpp` |
| `VmLifecycleProofs` | theorems about it and about `BootImage` | |
| `TcpNat` | the TCP part of the stack, with guest and host peers as environment | `network.cpp` |
| `TcpNatProofs` | theorems about it | |
| `Virtqueue` | ring operators shared by the devices | the ring code of `virtio_{net,block,gpu,input}.cpp` |
| `VirtioNet` | the net device, its RX thread and `~Net`, with the guest's driver as environment | `virtio_net.cpp`; of `network.cpp` only who calls back and when |
| `VirtqueueProofs` | what the ring operators do, used by the proofs of the four devices | |
| `BlockService` | abstract: what a block device promises | (none: the specification) |
| `VirtioBlk` | the block device, implements `BlockService` | `virtio_block.cpp` |
| `VirtioNetProofs`, `VirtioBlkProofs`, `VirtioGpuProofs` | theorems about the three devices | |
| `VirtioGpu` | the display device's control queue, resources and frames, with the guest's driver as environment | `virtio_gpu.cpp` |
| `IpcChannel` | both ends of a channel over the in-process transport | `ipc/src` |
| `IpcChannelProofs` | theorems about it and about `SerialBridge` | |
| `VirtioInput` | keyboard and tablet: event and status queue, configuration window, with host threads and the guest's driver as environment | `virtio_input.cpp` |
| `VirtioInputProofs` | theorems about it | |
| `SerialBridge` | pipes, pump, server, socket and teardown of a serial port, with guest and client as environment | `hvf_backend.cpp`, `transport_unix.cpp`, the UART of `exit_handler.cpp`, the client of `cli/main.cpp` |
| `BootImage` | what `Create` copies into RAM, and the device tree and routing of the devices | `memory.cpp`, `fw_loader.cpp`, `fw_dtb.cpp`, `exit_handler.cpp` |
| `MC*` | constants for TLC | |

The `map` of `PROJECT.json` names the lines each definition stands for.

**Granularity.**  One action is what another thread cannot see half of: a locked
region that touches only fields under that lock is one action; an atomic load or
store another thread reads is an action of its own; a region that calls out, or that
touches guest memory, is split there.  Program counters (`cpc`, `rpc`, `vpc`, `io`,
`fwd`, `rxpc`, ...) carry the position of each thread.

**VmLifecycle.**  Callers go `hvCreate, setup, launch, insert, register` through
`Create` and `find, stop, join, reset, hvDestroy, erase` through `Destroy`, whose
steps after `find` hold `mutex_`.  Since the framework allows one VM per process, one
set of variables describes the context.  A failed set-up step throws and leaves the
hypervisor VM behind (`leaked`), as the code does.  `boot_pc` and `boot_x0` hold the
tag of the CPU_ON call they came from, so "the arguments of one call" is equality of
tags.  `Guest` selects which CPU_ON calls the guest makes: each secondary once
(`"boot"`, what Linux does at start), also after CPU_OFF (`"hotplug"`), or any.
The devices are here only by the places where they may block for ever, each shown by
a module of its own: a vCPU inside `Net::write` (`ExitHangs`; run `net_sync_reply`),
`~Net` under `ctx.reset()` (`ResetHangs`; `net_teardown.cfg`), and the destructor of a
serial channel under `vms_.erase` or in the unwinding of `Create` (`EraseHangs`,
`UnwindHangs`; `serial_no_client.cfg`).  `Network` and `Serial` say whether the VM has
such devices; with both, each step may block or not.

**TcpNat.**  A connection object is a number, the table maps 4-tuples to numbers, and
each of the three kinds of threads has a program counter per connection.
`handle_tcp` is one locked step followed by `HandlerFinish`, its send and reply after
the unlock.  The tests for data and for FIN are independent: a segment may have both
(`DATAFIN`), and then `shutdown` comes before the write.  A write to the host may fail at
any time (always after the `shutdown`); the handler acknowledges the byte all the same,
and `got` keeps the hole as a 0.  That such a write also raises SIGPIPE, which nothing
handles, is left to `SerialBridge`: this module is about a program that ignores it.
A payload is one byte; guest bytes are named by sequence number, host
bytes by connection and position, so mixing two streams shows.  The callback into
virtio-net is taken to return, so this module says what the stack does when it does;
`VirtioNet` models that callback, and run `net_sync_reply` shows that a reply made
inside `guest_tx` does not return.

**VirtioNet, VirtioBlk.**  The guest's driver is the environment: it posts chains,
notifies, takes the interrupt, reads and acknowledges `IrqStatus`, collects, and
resets.  The SPI is an edge remembered by the GIC (`spi`).  A wait on the condition
variable is three steps (test, block, wait), because `~Net` changes the predicate
without the mutex.  In `VirtioBlk` one data descriptor is one block.  A transfer is
complete, fails, or, for the blocks of `Short`, moves less than a block, in which case
`process_rq` leaves the status as it is: the data is stale, or the block on the medium is
`"torn"`.  A request may also have `skipped` buffers that `gpa_to_hva` refuses: each is
passed over at any point of the chain (`SkipBuffer`), without a change of status or of the
place on the medium.  The status byte is in the guest's RAM.

**BlockService.**  Requests are answered in order, one at a time, each against the
medium as the earlier ones left it.  OK means that the host refused no transfer, IOERR
that it refused some, which keep their old contents.  What OK does not mean is part of the
service too (`ServeOk`): a `Short` block may be torn or stale, and buffers out of reach
take no part.  No other block is ever touched.  `VirtioBlk` implements it
with the mapping `Service`: the unserved part of the avail ring, the uncollected part
of the used ring, and the image as it was before an unfinished request.

**VirtioGpu.**  `Notify`, `ExecuteCommand` and `EndCommands` are one `write` of
`QueueNotify` under `mtx_`, one step per command because the guest changes its memory
between them; `ShowFrame` is a call of the callback after the unlock.  `HandleCommand`
has one operator per command.  Pixels are the number of the drawing they were copied
from, rectangles are the whole resource.  The driver keeps to the protocol (it creates
before it uses and does not attach twice): what it may rely on then is the question.

**IpcChannel.**  A frame is two entries of the pipe, header and payload.  `write` and
`read` are one step each; `close` is two, the exchange of `connected_` and the marking
of the pipe.

**VirtioInput.**  A report is one locked step of `push_event_locked`s; the flush that
follows is one step per event, because the guest changes its ring meanwhile.  An event
is its number and its class, so order and loss show; the guest's input layer ignores a
class the driver did not find in the configuration window, so a wrong `update_config`
shows as lost events.  The driver probes, fills its queue, handles interrupts, posts
status and resets.

**SerialBridge.**  `fd` is the process's descriptor table; every thread keeps the number
it was given, and a new descriptor gets any free number, so a number used after its
close meets whatever took its place (`stray`).  A write without a reader is SIGPIPE and
ends the process (`killed`), since nothing in the repository handles it.  The VM is one
vCPU with the order of its `running_`: `Create` returns before `RunAll` has stored it, as
in `VmLifecycle`.  `Teardown` is `Destroy` from its two closes over the join of the run
thread and `ctx.reset()` to `vms_.erase`, whose destructors join the pump, then the
read thread and the accept thread, or the unwinding of a `Create` that throws.  With
`Network` a vCPU may lock itself (`NetLocks`) and `ctx.reset()` may not end (`ResetHangs`).

**BootImage.**  One action per step of `Create`, each of which may throw.  `wrote` is
what was copied where; a file is its size.  The device tree's nodes (`Nodes`, from
`fw_dtb.cpp`), the windows of the exit handler (`Windows`, `Route`, from
`exit_handler.cpp`) and the interrupt a device raises (`Raises`, from the devices' own
files) are three tables, each written from its own lines; only the address map's constants
are shared, as in the code.  A window whose device does not exist leads to `"absent"`.  The size of the device tree blob is an input: how FdtBuilder encodes is
formatting, that it is refused beyond 4 MiB is not.

## 3. Runs

States and times are of one machine with two TLC workers.

| Run | Checks | Instance | States |
|---|---|---|---|
| `lifecycle` | `TypeOK`, `NoUseAfterReset`, `VcpusGoneBeforeVm`, `HvAccounted`, `BootArgsMatch`, `StopSticks`, `DestroyReturnsBooted`, `CpuOnStarts` | 2 vCPUs, 2 callers, 2 VMs with network and serial ports, set-up may fail | 62 k |
| `lifecycle_lost_stop` | `DestroyReturns` is violated | 1 vCPU | |
| `tcp_streams` | `TypeOK`, `HostGetsPrefix`, `GuestGetsPrefix`, `EndedIsQueued`, `HandshakeEnds` | an outbound or an inbound connection, 2 bytes one way and 1 the other, 2 SYN attempts, frames lost, writes that fail | 0.4 M |
| `net_rx` | `TypeOK`, `InOrder`, `ChainsAccounted`, `UsedIsSignalled`, `FramesFlushed` | 4 frames in, a reset, `~Net` | 0.4 M |
| `net_tx` | `InOrder`, `ChainsAccounted` | 2 vCPUs, 4 frames out, 1 in, a reset, the last frame answered at once | 1.1 M |
| `net_sync_reply` | `RepliesReachGuest` is violated | 1 vCPU, 1 frame out that the stack answers | |
| `blk_service` | `TypeOK`, `UsedIsSignalled`, `ImplementsService` | 2 vCPUs, four kinds of request (a read, a write of two blocks with a buffer out of reach, an unsupported one, a malformed chain), I/O errors, incomplete transfers of a block, resets | 0.7 M |
| `blk_progress` | `RequestsComplete` | the same with a read with a buffer out of reach, a flush and a malformed chain | 0.4 M |
| `ipc_channel` | `TypeOK`, `FramesIntact`, `MessagesArrive`, `CleanStopReturns` | 2 sending threads, 3 messages: one empty, one too big; each end stops once | 0.1 M |
| `gpu_display` | `FramesAccounted`, `FramesFresh`, `NeverRefused`, `UsedIsSignalled` | 2 vCPUs, 1 resource, 6 commands, 2 of them flushes, a reset | 2.5 M |
| `input_events` | `KeepsNewest`, `UsedIsSignalled`, `EventsDelivered` | a keyboard or a tablet, 3 buffers, 8 events, a status message, a reset | 0.3 M |
| `serial_bridge` | `OutputInOrder`, `DescriptorsOwned`, `OutputArrives`, `DestroyReturnsConnected` | 3 bytes through a pipe of 2 and a socket of 1, a client that may come, send and leave, `Destroy` or a throw at any point | 0.2 M |

The type invariants of `VirtioGpu`, `VirtioInput` and `SerialBridge` hold in the same
instances; the runs check what could really be wrong.

### What the runs show

*Life cycle.*  While any set-up step may fail and two threads create and destroy, no
run or vCPU thread is alive when the context is freed, no hypervisor vCPU is left when
`hv_vm_destroy` is called, and the table, the context and the hypervisor VM agree.
The release/acquire handshake of CPU_ON is right for a guest that turns each CPU on
once.  Once a vCPU thread exists a stop stays.  If `run_all` had stored `true` before and
no secondary still waits for its CPU_ON, `Destroy` returns or it is a device that keeps
it, at one of the three places named in section 2; without network and serial ports it
returns.  The first condition is needed: `lifecycle_lost_stop` has `Destroy` store
`false`, the run thread store `true` over it, and the join never return.

*TCP.*  The prefix properties hold although the stack gives every connection the same
initial sequence number and keeps no copy of what it sent.  What the host gets has holes,
but nothing else wrong: where a write fails the byte is lost and acknowledged, and the
byte beside a FIN is always lost so, because `shutdown` comes first.  No byte is written
twice, at another's place or to another connection.  This also holds
when a 4-tuple is used again while threads of the old connection still run (section 6).
`GuestGetsPrefix` does not: it holds for two connections of one 4-tuple (2.3 M states with
`MaxConn = 2`, a byte each way) and fails with three (`tcp_reuse.cfg`).  A failed connect
of the first erases the key of the second; the guest's repeated SYN makes a third one with
the same numbers; the SYN|ACK of the second completes the guest's handshake, and its ACK
establishes the third before that one's SYN|ACK has drawn its number from `h_nxt`.  The
IO thread then numbers its first byte like a SYN, and the guest takes the second byte of
the host for the first.  A handshake
ends unless the one SYN|ACK of the connect thread is dropped by a full RX ring: the
repeated SYN finds the key in the table and is ignored, and nobody sends another.  What
does not hold is that only finished connections are reaped: the done queue holds keys, and
`tcp_stale_reap.cfg` shows the IO thread of a connection the guest has reset queue its key
after the guest has opened the 4-tuple again; the guest's next segment takes the new
connection out of the table.  Nobody tells that one's IO thread, and its socket stays as
long as the host keeps it.  Apart from this a connection that leaves the table lets go of
its thread and socket (`UnmappedReleased`, `tcp_release.cfg`).

*virtio-net.*  In order, at most once, no chain lost or doubled and no interrupt lost,
across index wrap and a reset between the RX thread's two locked regions; and no
queued frame is forgotten while the device lives.  `net_sync_reply`: `write` holds
`mtx_` across `guest_tx`, and the answer's `enqueue_rx` locks it again.

*virtio-blk.*  The device is a block service, its interrupts are not lost although one
interrupt covers a batch other vCPUs add to, and every request completes unless the
device is reset or a malformed chain blocks the queue until a reset.  The service is
weaker than a driver would like: a transfer the host cuts short and a buffer the device
cannot reach are answered OK.  What is shown is that nothing else is: each transfer the
host refuses is reported, also when a later one succeeds, and no block outside the
request changes.

*virtio-gpu.*  A frame staged under the lock and delivered outside it is neither lost
nor repeated, whatever other vCPUs stage meanwhile and although the device may be reset
in between; it shows at least the drawing that was there when its transfer was posted;
and commands are executed in the order the driver relies on.  Frames of two vCPUs may
reach the callback in the other order; nothing in the repository promises one.

*IPC.*  Frames stay whole under two senders and a stop at any point; an empty message
does not end the stream; `stop()` returns when it is the call that disconnects.

*virtio-input.*  Whatever the order of host threads, kicks and interrupts, the input
layer sees events in the order they were sent and each once, and the newest
2 * `kQueueSize` are never lost, so a report is cut only after an overflow.  The
interrupt is not lost although two queues and the host share `irq_status_`.  An event
that found no buffer waits in the host until the driver's next kick, and that kick comes.

*Serial bridge.*  A client sees consecutive bytes however short reads and writes are,
and what the guest prints while it is connected arrives.  `Destroy` closes descriptors
that the pump, the reader and a vCPU still hold; no thread uses a number for another
object unless the client was accepted after that.  With a client connected each join of
one of the channel's threads is of a thread the steps before have woken, so only the VM
itself can keep `Destroy`: a `run_all` that stores `true` after the stop, or a network
device.  Without a client the channel does: see `serial_no_client.cfg` below.

### Further configurations

These instances are not in the run list.  Three of them pass.  `boot_image.cfg` checks the
properties of `BootImage` on sizes around its limits (26 k), which are theorems as well.
`tcp_reopen.cfg` checks `HostGetsPrefix`, also a theorem, for two connections of one
4-tuple with two bytes of the guest each (2.5 M); `tcp_release.cfg` checks
`UnmappedReleased` for two connections of one 4-tuple (0.3 M).
Each of the others states what a comment or document says and ends in a counterexample;
they are kept because the passing properties above are stated so as to exclude exactly
these cases.

| Configuration | Violates | What happens | The text |
|---|---|---|---|
| `lifecycle_parked_secondary.cfg` | `StopEndsRun` | a secondary never turned on spins on `boot_pending` and does not look at `running_` (`vcpu.cpp:59`) | `vcpu.hpp:27` "Waits for the vCPU thread to exit." |
| `lifecycle_hotplug.cfg` | `CpuOnStarts` | CPU_ON of a CPU that made CPU_OFF succeeds and starts nothing (`fw_psci.cpp:51`) | `vcpu.hpp:38` |
| `lifecycle_boot_args.cfg` | `BootArgsMatch` | two CPU_ON calls for one target mix their arguments | `vcpu.hpp:37` |
| `tcp_stale_reap.cfg` | `ReapsFinished` | the key queued by an aborted connection reaps the next one of the 4-tuple | `network.cpp:430` "Reap finished connections" |
| `tcp_forward_timeout.cfg` | `TimesOutUnanswered` | a forward erases its key after it looked at the state (`network.cpp:609`) | `network.cpp:607` "timed out" |
| `tcp_reuse.cfg` | `GuestGetsPrefix` | the key of a connection is erased by an older one of the 4-tuple (`network.cpp:483`); the next one is established by the ACK of its SYN\|ACK | `README.md:205` "full NAT with per-connection state machine" |
| `tcp_half_close.cfg` | `NoResetOfOpen` | the end of the host's stream drops the connection and later guest data is answered with RST | `README.md:205` "full NAT" |
| `tcp_inbound.cfg` | `InboundEstablishes` | the guest's SYN\|ACK is not acknowledged (`network.cpp:511`) | `README.md:209` "a synthetic TCP handshake" |
| `net_teardown.cfg` | `TeardownEnds` | the RX thread misses `stop_rx_` and the notification (`virtio_net.cpp:60`) | `README.md:131` "Stop and destroy the VM." |
| `net_late_frame.cfg` | `QueueOutlivesStack` | `~Net` destroys `rx_queue_` and `rx_cv_` before `stack_`, whose threads may be about to call `enqueue_rx` (`network.cpp:690`) | `README.md:131` |
| `serial_no_client.cfg` | `DestroyReturns` | `accept()` waits for a client that never comes and `Destroy` joins the thread (`transport_unix.cpp:91`) | `README.md:131` |
| `serial_create_throws.cfg` | `ThrowReturns` | a later step of `Create` throws and the unwinding joins a pump that nothing wakes (`hvf_backend.cpp:138`) | `hvf_backend.cpp:138`, which throws |
| `serial_sigpipe.cfg` | `Survives` | the client leaves, or `Destroy` closes the pipe, before a write: SIGPIPE (`exit_handler.cpp:89`) | `ipc/README.md:87` "client disconnected or channel closed" |
| `serial_late_client.cfg` | `PumpReadsVm` | the socket of a client accepted during `Destroy` gets the number of the closed pipe, and the pump reads the client's input | `hvf_backend.hpp:17` "VM output → IPC" |
| `ipc_stop_hangs.cfg` | `StopReturns` | a send to a stopped peer clears `connected_`; `close()` then wakes nobody (`transport_inprocess.cpp:122`) | `ipc/README.md:102` "graceful shutdown" |
| `ipc_peer_not_told.cfg` | `PeerIsTold` | `close()` marks only the pipe its own end reads | `ipc/README.md:87` |

## 4. Bounds

* `N`, `Callers`, `MaxHandle`: a boot CPU and a secondary; two callers and two handles give every race of
  create and destroy and a second life after the first.  The proofs of section 6 remove
  these bounds.
* `MaxOn`: one CPU_ON per secondary.
* `MaxHost` and `MaxGuest`, the bytes of each side, are two: the second shows a repeated
  number, a gap or an exchange.  `FewBytes` keeps out the behaviours with two bytes both
  ways (the run would have 1.3 M states; its safety properties hold there too); it cuts off
  steps of the peers only, to which no fairness applies.  `Attempts` stands for
  the 5 SYNs of `inbound_fwd`.  `MaxConn` is one connection in the run; an old and a new
  one of a 4-tuple in `tcp_reopen.cfg`, `tcp_release.cfg` and the counterexamples; and
  any number in the proofs.
* `QSize` = 2 and `IdxMod` = 4 stand for 256 and 2^16: two chains in flight, and the
  indices wrap during the run.  `RingAssumption` records that the wrap is harmless only
  because the one divides the other.
* `MaxTx`, `MaxRx`, `MaxReset`: enough frames for an index to wrap, and one reset.
* `Short` = {1}: of the two blocks one may be transferred in part, so that a torn, a
  refused and a complete block meet in one request; one buffer out of reach per request.
* `MaxCmd` = 6: create, attach, scan out, transfer and two flushes, or any other six;
  `MaxFlush` = 2 is one batch of two frames or a frame with each vCPU; `MaxDraw` = 1
  tells a transferred drawing from an empty buffer.
* `MaxMsg` = 3: an ordinary, an empty and an oversized message.
* Input: `QSize` = 3 and `IdxMod` = 6 with `MaxEvents` = 8: four reports of a keyboard
  overflow the queue of 6 and the ring of 3 and wrap its indices; a tablet's report of 5
  does not fit the ring.  One status message and one reset.
* Serial: `PipeCap` = 2, `SockCap` = 1 and `MaxOut` = 3 let the pipe and the socket fill
  while the pump holds bytes; one client (the server accepts one) and one message of it;
  five descriptors leave two free numbers, or three for a port without a UART.
* `BootImage` has no bound in the proofs; `MCBootImage` takes sizes at and next to each
  limit.

Symmetry is used in `net_tx`, `blk_service` and `gpu_display`, which check safety only,
over vCPUs, which no property names.  The drivers of `VirtioBlk` and `VirtioInput` take the lowest free chain: chains
are interchangeable, so this leaves out nothing but renamings.  `CHECK_DEADLOCK FALSE` stands where an application or guest may do
nothing more once the bounds are used up; the block device's model never stops.

## 5. Fairness

Host threads are scheduled, so each step of the run thread, the connect, IO, forward,
RX and read threads and of a call already made is weakly fair.  A vCPU inside the guest
leaves it in the end (a Linux guest has its timer armed and idles in WFI); the guest's
interrupt handler runs.  In `TcpNat` the guest answers what it received and repeats an
unanswered SYN|ACK; these two are strongly fair because other segments may disable and
re-enable them.  In `VirtioInput` the driver fills its event queue; in `SerialBridge` the
vCPU finishes its write, the pump, accept and read threads and a `Destroy` already called
go on, and a connected client reads what it is sent.  Nothing makes an application or a guest start anything: no fairness on
`CreateCall`, `DestroyCall`, `Call`, `StopCall`, `SendHeader`, posting, resetting,
opening or closing.

## 6. Proofs

`VmLifecycleProofs` proves, from `LifecycleAssumption` alone and so for any number of
vCPUs, callers, handles and CPU_ON calls and for every kind of guest:

| Theorem | Statement |
|---|---|
| `Typing` | `Spec => []TypeOK` |
| `Inductive` | `Spec => []IndInv` |
| `UseAfterResetFree` | `Spec => []NoUseAfterReset` |
| `HvDestroySafe` | `Spec => []VcpusGoneBeforeVm` |
| `OneVm` | `Spec => []HvAccounted` |
| `StopIsFinal` | `Spec => StopSticks` |
| `BootArguments` | `ASSUME Guest = "boot" PROVE Spec => []BootArgsMatch` |

None of the properties is inductive.  `IndInv` adds to the types:

* `LockInv`: who holds `mutex_` is exactly the caller between `find` and `erase`;
* `BuildInv`: at most one caller is between `hv_vm_create` and the insertion, the VM it
  builds is there, and no `Destroy` still has a VM of its own to take apart;
* `TableInv`: the table has at most one handle, and what exists follows from how far
  the owner of the lock is with taking it apart;
* `RunInv`: how far the run thread is says which vCPU threads have been started and
  which joined;
* `VcpuInv`: a hypervisor vCPU has a thread that is alive and past its creation, and so
  will destroy it.

`NoUseAfterReset` then follows because `JoinRunThread` waits for `rpc = "done"`, which
by `RunInv` means that every vCPU thread was joined; `VcpusGoneBeforeVm` from the same
and `VcpuInv`; `HvAccounted` from `LockInv`, `BuildInv` and `TableInv`; `StopSticks`
because `RunStart`, the only store of `true`, comes before the first spawn.  The theorems
hold with and without the devices that may block.  The
preservation proof has a lemma for each kind of thread (`VcpuStepInv`, `RunStepInv`,
`CallerStepInv`, `CallInv`), with a step for each action.

`BootArguments` has a hypothesis the others do not need: the guest turns each secondary
on once, as Linux does at start and as the run `lifecycle` has it.  It cannot be dropped:
`lifecycle_boot_args.cfg` shows two calls for one target mix their arguments.  Its
invariant `BootInv` says for each CPU where its one CPU_ON is (`Handshake`): not made; the
caller has written `boot_pc`, or both arguments; the flag is set and both belong to the
same call; or the secondary has taken them.

`TcpNatProofs`, for any 4-tuples, any number of connections, bytes and retries, with and
without loss, and but for the last theorem for 4-tuples used once or again:

| Theorem | Statement |
|---|---|
| `Typing` | `Spec => []TypeOK` |
| `Inductive` | `Spec => []IndInv` |
| `HostPrefix` | `Spec => []HostGetsPrefix` |
| `EndedQueued` | `Spec => []EndedIsQueued` |
| `GuestPrefix` | `ASSUME ~Reopen PROVE Spec => []GuestGetsPrefix` |

`HandleCases` first reduces `handle_tcp` to its seven outcomes (ignore, open, abort,
establish, take a byte, end, take a byte and end).  `TableInv`: the table maps a key to a connection of that
key.  `ThreadInv`: which threads a connection has in which state; an injected one is in
the table only after `FwdInsert`.  `GuestInv`: the guest's sequence numbers are those of
its `m`-th connection, and numbers of two connections never meet (`StartApart`).
`StreamInv`: what the host got, and then the byte in the handler's hand, is what the guest
sent from `Start(m) + 1` on, with a 0 where a write failed, and `g_nxt` is one behind it, or two if the guest's FIN was
counted, and then the connection has left the table for good and takes no byte any more.
Without that last part a byte with the number of the FIN would be accepted.  An injected
connection has `g_nxt = 0` for ever (the code never learns the guest's number), so it takes
no byte at all: `HostGetsPrefix` is then true of an empty stream, which is the failure
`tcp_inbound.cfg` shows.

`GuestPrefix` is about a guest that opens a 4-tuple once; `tcp_reuse.cfg` shows why.  A
key may still get several connections, since a failed connect erases it and the guest
repeats its SYN.  Its invariant is `GuestSideInv` on top of `IndInv`, one conjunct per
4-tuple.  `AliveInv`: all connections of a key but one have failed to connect.  `OpenInv`:
the guest gets past its handshake only if that one has sent its SYN|ACK, so the IO thread
never starts before the SYN|ACK has drawn its number (this is what fails with reuse).
`DrawInv`: `h_nxt` is one ahead of the bytes read; when the FIN of the handler took a number
between the read and the draw it is two ahead, and then the guest has closed.  `WireInv`:
a byte on the wire carries its own number, or the next one, and then the guest does not
have that byte and no other frame carries it, so the number it waits for never comes.
`PlaceInv` and `FinInv`: the guest waits for the byte after the last it has, or for nothing
once it has seen the FIN of the IO thread, whose number is beyond all bytes.  `KeyFrame`
shows that most steps leave all this alone; sending, receiving, the connect thread and the
IO thread have lemmas of their own.  For an injected connection `InboundInv` says that the
stack acknowledges nothing, so that the guest takes nothing.

`VmLifecycleProofs` also proves about `BootImage`, for every configuration, every size of the files and every
step that throws:

| Theorem | Statement |
|---|---|
| `CopiesStayInside` | `ImageSpec => []CopiesInsideRam`: with 171 MiB of RAM or more nothing is copied outside it |
| `ImagesStayApart` | `ImageSpec => []ImagesApart`: with a kernel of at most 124 MiB no two images overlap |
| `TreeIsTrue` | `ImageSpec => []TreeTellsTruth`: a guest that runs finds kernel, initrd and devices as the tree says |
| `TreeMatchesRouting` | `ImageSpec => []NodesRouted`: each address of a node goes to one device, which exists and raises the node's interrupt, but for the block node of a VM without an image, behind which nobody is |

`NodesRouted` compares what three files say: where the tree puts a node and which interrupt
it announces, which device the exit handler's windows lead to, and which interrupt that
device raises.  The inductive invariant `ImageInv` adds to the types `CopiesInv` (every copy is of a file of
the configuration, at its load address, and has passed its size test) and `OrderInv` (how
far `Create` is says which images are there, and that the tree was made from exactly
these).  `MapValues` computes the address map once and `RouteToDevice` shows that the
windows of the devices do not shadow each other and that each leads to its device or, if
that does not exist, to nobody.  The two limits are tight: TLC finds
counterexamples with 170 MiB and with 124 MiB and a byte.  So a VM with less RAM, which
the code accepts, is not covered, and a larger kernel is overwritten by its initrd.

`VirtqueueProofs` is about operators, not about a specification.  A ring is read as the
sequence of the entries between two free-running indices, and from `RingAssumption` alone
(any ring size, any larger index width that is a multiple of it):

| Theorem | Statement |
|---|---|
| `OfferAppends`, `PushUsedAppends` | writing an entry and bumping the index appends to that sequence, if fewer than `QSize` are in it |
| `ServeTakesHead`, `CollectTakesHead` | bumping the reader's index takes the first element |
| `AccountedNew`, `AccountedOffer`, `AccountedServe`, `AccountedCollect` | set-up, posting, serving and collecting keep `Accounted`: every chain is exactly once with the driver, unserved or uncollected |

The bound "fewer than `QSize`" follows from `Accounted` by counting, so none of the device
proofs has to argue about indices again.  The arithmetic below it (`ModUnique`,
`SlotWrap`, `SlotsDiffer`) is where `IdxMod % QSize = 0` is used.

`VirtioBlkProofs`, for any set of requests, any number of vCPUs and any ring:

| Theorem | Statement |
|---|---|
| `Typing` | `Spec => []TypeOK` |
| `Signalling` | `Spec => []UsedIsSignalled` |
| `Refinement` | `Spec => ImplementsService`, the step simulation of `BlockService` |

`LockInv`: `mtx_` is held by the one vCPU inside `process_rq`.  `ReadyInv`: after a reset
the queue starts at 0; the chains of a ready queue are `Accounted`.  `SignalInv`: an
uncollected answer is signalled, will be by the holder of the mutex, or is being
collected.  `RequestInv`: the request under way is the oldest unserved one, and `Work`
says what its transfers so far have done to buffers and image: a set of them was refused
(`failed`) and a set of short blocks was cut (`short`), the buffers passed over count for
nothing, and the status is IOERR exactly if `failed` is not empty.  `FreshInv`: a chain that
waits has no answer yet.  The mapping hides the transfers: the abstract medium is `before`
while a vCPU is at work, so each transfer is a stutter and `FinishRequest` is the abstract
step; `RequestInv` is what makes that step one the service allows.  `Pending`
and `Answers` are the sequences of `VirtqueueProofs` with what the chains hold.

`VirtioNetProofs`, for any number of vCPUs, stack threads, frames and resets, with or
without `~Net`:

| Theorem | Statement |
|---|---|
| `Typing` | `Spec => []TypeOK` |
| `Ordering` | `Spec => []InOrder` |
| `Accounting` | `Spec => []ChainsAccounted` |
| `Signalling` | `Spec => []UsedIsSignalled` |

`InOrder` speaks only of what has arrived.  `TxInv` and `RxInv` extend it to the whole way:
the frame numbers increase through what the stack has, then the unserved TX chains; and
through what the driver has, its filled buffers, the frame in the RX thread's hand and
`rx_queue_`.  `ChainsAccounted` compares cardinalities; it follows from `Accounted`.

`VirtioGpuProofs`, for any number of vCPUs, resources, commands, drawings and resets:

| Theorem | Statement |
|---|---|
| `Typing` | `Spec => []TypeOK` |
| `Accounting` | `Spec => []FramesAccounted` |
| `Freshness` | `Spec => []FramesFresh` |
| `Accepting` | `Spec => []NeverRefused` |
| `Signalling` | `Spec => []UsedIsSignalled` |

`FrameInv`: the frames staged, held by each vCPU and shown are the first `staged` ones,
each in one place, and none is older than its `due`.  `NeverRefused` and the freshness of
the *next* frame depend on commands that were posted long before: `SyncInv` says that the
commands the device has not executed lead, one after the other and each of them legal,
from the resources the device has to what the driver believes it has.  Posting a legal
command extends that chain at the end, executing one takes its first link, and a reset
empties both sides.  Without it a command that is legal for the driver could meet a
resource the device does not have.

`IpcChannelProofs`, for any number of sending threads and messages and any choice of
empty and oversized ones:

| Theorem | Statement |
|---|---|
| `Typing` | `Spec => []TypeOK` |
| `StreamsIntact` | `Spec => []FramesIntact` |

`MutexInv` says who is between a header and its payload; `QueueInv(e)` that each entry of
the pipe continues the one before it, the first one continues what the read loop consumed
and, while the peer can still write, the last one is where `send_raw` stands.  Once the
reading end has left its loop, or the pipe is closed, the last part need not hold and is
not needed.

The same module proves, about `SerialBridge` and for any capacity of the pipe and the
socket and any amount of output and input:

| Theorem | Statement |
|---|---|
| `NumbersOwned` | `BridgeSpec => []DescriptorsOwned` |
| `OutputStaysInOrder` | `BridgeSpec => []OutputInOrder` |

For `NumbersOwned` the invariant `OwnInv` says of each object who was given its number.
`Owners`: the pipe ends have the numbers of `open_serial`, the listening socket that of the
accept thread, the client's socket the one the transport keeps.  `AcceptInv`: how far the
accept thread is says whether there is a channel; a socket with the number of a pipe end
was accepted after the close (`late`).  `PipeInv`: the read end goes first.  `SocketInv`:
the socket is closed only by the teardown, which has joined the pump by then; so the pump
never sends on a number that has been given away, although `close` and `write` share no
lock.  For `OutputStaysInOrder`, `FlowInv` says that while no number has strayed the bytes
with the client, in the socket, with the pump and in the pipe are one consecutive run
whose end is the byte the guest stands at.  The end is what the property lacks: without it
the next byte written could leave a gap.  It holds only while there is a pipe to write to
and the port is the serial one, which is why the run's end is not part of the property.

`VirtioInputProofs`, for any ring size and index width, any number of host threads, events,
status messages and resets, and for both kinds of device:

| Theorem | Statement |
|---|---|
| `InputTyped` | `Spec => []TypeOK` |
| `NewestKept` | `Spec => []KeepsNewest` |
| `SignalledAlways` | `Spec => []UsedIsSignalled` |

`LockInv`: `mtx_` is held by the one thread inside a flush or a drain, and `injected` is
its local.  `ReadyInv`: the queues are set up only after the driver has asked all its
questions, and the chains of each of the two queues are `Accounted`.  `SignalInv`: each
uncollected buffer is `Covered`, that is, the holder of the mutex will raise the interrupt,
it is raised, or the handler has yet to come to that queue.  The handler empties the event
queue before the status queue, so the two are covered differently.  `ProbeInv`: the driver
knows the answers to the questions it has asked, so at the end it ignores no class the
device sends; without it a collected event could be one the guest does not take.
`EventInv` splits what was sent in two: `pending` is exactly the last `Len(pending)`
events, and `Passed` says of those before them that they are with the driver or in
buffers, in order, and complete where they are among the newest `2 * kQueueSize`.  Pushing
into a full queue moves the border by one and what falls off is too old to count; a flush
moves the border by one and puts the event at the end of the buffers (`AccountedServe`);
collecting takes the first of them (`CollectTakesHead`).

Each inductive invariant was first checked by TLC as an invariant of the instance of its
run.  Assumptions are those of the modules: `Requests # {}` in `BlkAssumption` is there
because `Init` gives each chain an (old) request; `NetAssumption`, `GpuAssumption`,
`InputAssumption` and `SerialAssumption` only type the constants (a pipe and a socket
hold at least one byte, and one client comes, since the server accepts once); in
`NatAssumption` the model's marks for "no key" and the 4-tuples of the two directions
are told apart.  Sequence numbers have the type `Nat` in `TcpNat`, without the code's
wrap at 2^32, and frame numbers in `VirtioNet` and `VirtioGpu`; the bounds `MaxTx`,
`MaxRx` and `MaxFlush` are guards of the environment, no part of the types.

Every safety invariant of a passing run is so stated by a theorem.  Only model-checked:
all liveness, which is out of the prover's reach.  Not proved, because it does not hold:
`GuestGetsPrefix` of `TcpNat` for two connections of a reused 4-tuple (`tcp_reuse.cfg`).

## 7. Plan

In this order; what is done is marked.

1. `VmLifecycle` with runs and proofs (done).
2. `TcpNat`, `VirtioNet` over `Virtqueue`, `VirtioBlk` with `BlockService`,
   `VirtioGpu`, `IpcChannel`, with their runs (done).
3. `VirtioInput`; `SerialBridge` with the unix socket transport and the teardown of
   `Destroy`; `BootImage` with its proofs; the order of destruction of `Net` and `Stack`
   (`net_late_frame.cfg`) (done).
4. Proofs: `BootArgsMatch` for a guest that boots each CPU once; the `Virtqueue`
   operators; `VirtioBlk` with its refinement; `VirtioNet`; `VirtioGpu`; `IpcChannel`;
   `HostGetsPrefix` and `EndedIsQueued` of `TcpNat`, and its `GuestGetsPrefix` for a guest
   that does not reuse a 4-tuple; `VirtioInput`; `SerialBridge` (done).
5. The composition of `TcpNat`'s threads with `~Stack`, which now is represented by the
   peers of `VirtioNet` only.
6. The VM registry of `vm.cpp` over two backends that number their VMs alike.

## 8. Not modelled

* virtio-console: `Create` gives it the descriptors -1 and -1, so it has no RX thread and
  discards what the guest writes; its ring code is that of the other devices.
* `create_gpu`, `create_keyboard` and `create_tablet` are called by nobody in the
  repository: `VirtioGpu` and `VirtioInput` model devices an application of
  `VMContext` would create.
* The VM registry: both backends number their VMs from 1, so a vz VM and an hvf VM share
  a handle in `g_backends` (`vm.cpp:43`); only the hvf engine is modelled.
* Descriptors that are never closed (the UART's end of the pipe, the socket of a client
  that left first) are allowed by `DescriptorsOwned`, not hidden.
* The image size and text offset of the kernel's header, which the loader does not read;
  the RTC, which has no node; `kVcpuMax`, which nothing enforces.
* Exit decoding: instruction syndromes and registers; its outcomes (resume, end
  the thread, PSCI), the routing of an address and the UART's data register are modelled.
* Packet formats, checksums, DHCP and DNS contents, the device tree's text: formatting.
* `vz_backend.mm`: glue around a framework whose behaviour is not in the repository; its
  serial bridge is the same code as the one `SerialBridge` models.
* `transport_win.cpp`, the logger and all of the CLI but its serial client: system calls
  and output.
* Memory ordering weaker than sequential consistency: the models interleave atomic
  steps.  The relaxed accesses that matter are ordered by the release/acquire pair on
  `boot_pending` or by a thread's creation or join.
* QueueNum smaller than the device offers, feature
  negotiation, 2-second waits for DNS and UDP inside `process_tx`, the wrap of the
  forward port counter, payload sizes; the rectangles, formats and cursor queue of
  virtio-gpu.
