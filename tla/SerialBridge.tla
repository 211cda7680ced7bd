----------------------------- MODULE SerialBridge -----------------------------
(***************************************************************************)
(* The serial bridge of a VM (HvfBackend::Create and Destroy; the vz       *)
(* backend has the same code): the guest's UART writes into a pipe, a pump *)
(* thread reads the pipe and sends to the client of an ipc::Server on a    *)
(* unix socket, and the client's messages are written into a second pipe.  *)
(* Destroy closes the pipes, stops the VM and then takes the threads down. *)
(*                                                                         *)
(* Descriptors are numbers that the kernel uses again: `fd` says what each *)
(* one refers to now, the threads keep the numbers they were given.  A new *)
(* descriptor gets any free number, since other threads of the process     *)
(* open and close files too.  Nothing in the program handles SIGPIPE: a    *)
(* write to a pipe or socket without a reader ends the process.  As on     *)
(* macOS, close() wakes a thread blocked in read() on the descriptor.      *)
(* An output byte is its number; a frame is its payload (IpcChannel is     *)
(* about frames).  A VM has one vCPU here and one serial port, and perhaps *)
(* a network device: its Net::write may lock itself on the vCPU's thread   *)
(* and its destructor may not return (VirtioNet).                          *)
(***************************************************************************)
EXTENDS Naturals, Sequences

CONSTANTS
    PipeCap, SockCap,   \* bytes a pipe and a socket hold before a writer blocks
    MaxOut,             \* bound: bytes the guest writes
    MaxUp,              \* bound: messages the client sends
    MaxClient,          \* bound: clients (0 or 1: the server accepts one)
    Network             \* the VM has a network device

ASSUME SerialAssumption ==
    /\ PipeCap \in Nat \ {0} /\ SockCap \in Nat \ {0}
    /\ MaxOut \in Nat /\ MaxUp \in Nat /\ MaxClient \in {0, 1}
    /\ Network \in BOOLEAN

Fds     == 1..5
Objects == {"free", "toW", "fromR", "fromW", "listen", "sock"}
Wfd  == 1       \* host_write_fd
Rfd  == 2       \* host_read_fd
TxFd == 3       \* Pl011State::tx_fd
Foreign == 0    \* a byte that is not the guest's output

VARIABLES
    port,       \* 0: the UART's port; 1: any other
    fd,         \* the process's descriptors
    fromVm,     \* bytes in the pipe from the VM
    written,    \* bytes the guest has written
    vcpu,       \* "new", "start" (the run thread exists), then where the vCPU is
    running,    \* running_
    pump,       \* where the pump thread is
    hand,       \* bytes the pump has read and not sent
    stopReq,    \* the pump's stop token
    acc,        \* where the accept thread is
    lfd, sfd,   \* numbers of the listening socket and of the transport (0: none)
    chan,       \* Server::Impl::channel is set
    linked,     \* connected_ of the transport
    rd,         \* where the channel's read thread is
    client,     \* "none", "waiting" (not accepted yet), "connected" or "left"
    sock, up,   \* bytes to the client; messages from the client
    sends,      \* messages sent by the client so far
    received,   \* bytes the client has received
    late,       \* history: the client was accepted after Destroy closed the pipes
    stray,      \* history: "read", "write": a number was used for another object
    dpc,        \* where Create's unwinding or Destroy is
    killed      \* the process was ended by SIGPIPE

fdVars     == <<fd, stray>>
guestVars  == <<written, vcpu, running>>
pumpVars   == <<pump, hand, stopReq>>
serverVars == <<acc, lfd, sfd, chan, linked, rd, late>>
clientVars == <<client, up, sends, received>>
bridgeVars == <<port, fdVars, fromVm, guestVars, pumpVars, serverVars, clientVars, sock, dpc, killed>>

Free        == {n \in Fds : fd[n] = "free"}
IsOpen(o)   == \E n \in Fds : fd[n] = o
Close(f, n) == [f EXCEPT ![n] = "free"]

\* Create has made both pipes and closed the ends it does not keep, and has
\* started the server and the pump.
BridgeInit ==
    /\ port \in {0, 1}
    /\ fd = [n \in Fds |-> CASE n = Wfd -> "toW" [] n = Rfd -> "fromR"
                             [] n = TxFd /\ port = 0 -> "fromW" [] OTHER -> "free"]
    /\ fromVm = <<>> /\ written = 0 /\ vcpu = "new" /\ running = FALSE
    /\ pump = "top" /\ hand = <<>> /\ stopReq = FALSE
    /\ acc = "listen" /\ lfd = 0 /\ sfd = 0 /\ chan = FALSE /\ linked = FALSE /\ rd = "none"
    /\ client = "none" /\ sock = <<>> /\ up = 0 /\ sends = 0 /\ received = <<>>
    /\ late = FALSE /\ stray = {} /\ dpc = "none" /\ killed = FALSE

(***************************************************************************)
(* The run thread and its vCPU, with the guest's output.                   *)
(***************************************************************************)
\* run_all stores true, whatever Destroy has stored before, and spawns.
RunAll ==
    /\ vcpu = "start"
    /\ running' = TRUE /\ vcpu' = "run"
    /\ UNCHANGED <<port, fdVars, fromVm, written, pumpVars, serverVars, clientVars, sock, dpc, killed>>

\* An exit into Net::write locks the device's mutex a second time.
NetLocks ==
    /\ vcpu = "run" /\ Network
    /\ vcpu' = "locked"
    /\ UNCHANGED <<port, fdVars, fromVm, written, running, pumpVars, serverVars, clientVars, sock, dpc, killed>>

GuestPrints ==
    /\ vcpu = "run" /\ written < MaxOut
    /\ written' = written + 1 /\ vcpu' = "write"
    /\ UNCHANGED <<port, fdVars, fromVm, running, pumpVars, serverVars, clientVars, sock, dpc, killed>>

\* handle_mmio of the UART's data register, inside the exit of the vCPU.
UartWrite ==
    /\ vcpu = "write"
    /\ \/ /\ port # 0                   \* tx_fd is -1: the logger
          /\ vcpu' = "run" /\ UNCHANGED <<fromVm, killed>>
       \/ /\ port = 0 /\ ~IsOpen("fromR")
          /\ killed' = TRUE /\ UNCHANGED <<fromVm, vcpu>>
       \/ /\ port = 0 /\ IsOpen("fromR") /\ Len(fromVm) < PipeCap
          /\ fromVm' = Append(fromVm, written)
          /\ vcpu' = "run" /\ UNCHANGED killed
    /\ UNCHANGED <<port, fdVars, written, running, pumpVars, serverVars, clientVars, sock, dpc>>

VcpuStops ==
    /\ vcpu = "run" /\ ~running
    /\ vcpu' = "done"
    /\ UNCHANGED <<port, fdVars, fromVm, written, running, pumpVars, serverVars, clientVars, sock, dpc, killed>>

(***************************************************************************)
(* The pump thread.                                                        *)
(***************************************************************************)
PumpTop ==
    /\ pump = "top"
    /\ pump' = IF stopReq THEN "done" ELSE "read"
    /\ UNCHANGED <<port, fdVars, fromVm, guestVars, hand, stopReq, serverVars, clientVars, sock, dpc, killed>>

PumpRead ==
    /\ pump \in {"read", "blocked"} /\ fd[Rfd] = "fromR" /\ fromVm # <<>>
    /\ hand' = fromVm /\ fromVm' = <<>> /\ pump' = "send"
    /\ UNCHANGED <<port, fdVars, guestVars, stopReq, serverVars, clientVars, sock, dpc, killed>>

PumpBlocks ==
    /\ pump = "read" /\ fd[Rfd] = "fromR" /\ fromVm = <<>> /\ IsOpen("fromW")
    /\ pump' = "blocked"
    /\ UNCHANGED <<port, fdVars, fromVm, guestVars, hand, stopReq, serverVars, clientVars, sock, dpc, killed>>

\* The number now belongs to the client's socket: the pump competes with the
\* read thread for what the client sends.
PumpReadsSocket ==
    /\ pump = "read" /\ fd[Rfd] = "sock" /\ up > 0
    /\ stray' = stray \cup {"read"}
    /\ up' = up - 1 /\ hand' = <<Foreign>> /\ pump' = "send"
    /\ UNCHANGED <<port, fd, fromVm, guestVars, stopReq, serverVars, client, sends, received, sock, dpc, killed>>

\* End of the stream, or an error: no writer is left, the number is closed or
\* names a listening socket, or the client has left.
PumpEnds ==
    /\ pump = "read"
    /\ \/ fd[Rfd] = "fromR" /\ fromVm = <<>> /\ ~IsOpen("fromW")
       \/ fd[Rfd] \in {"free", "listen"}
       \/ fd[Rfd] = "sock" /\ up = 0 /\ client = "left"
    /\ pump' = "done"
    /\ UNCHANGED <<port, fdVars, fromVm, guestVars, hand, stopReq, serverVars, clientVars, sock, dpc, killed>>

\* Mutant: without a client the pump gives up.
PumpDropsAndEnds ==
    /\ pump = "send" /\ ~chan
    /\ hand' = <<>> /\ pump' = "done"
    /\ UNCHANGED <<port, fdVars, fromVm, guestVars, stopReq, serverVars, clientVars, sock, dpc, killed>>

\* Server::send without a channel: the bytes are dropped.
PumpDrops ==
    /\ pump = "send" /\ ~chan
    /\ hand' = <<>> /\ pump' = "top"
    /\ UNCHANGED <<port, fdVars, fromVm, guestVars, stopReq, serverVars, clientVars, sock, dpc, killed>>

\* Mutant: a short write is not continued.
PumpSendsOnce ==
    /\ pump = "send" /\ chan /\ fd[sfd] = "sock" /\ client # "left" /\ Len(sock) < SockCap
    /\ sock' = Append(sock, Head(hand)) /\ hand' = <<>> /\ pump' = "top"
    /\ UNCHANGED <<port, fdVars, fromVm, guestVars, stopReq, serverVars, clientVars, dpc, killed>>

\* UnixTransport::write: as much as the socket takes, until all is written.
PumpSends ==
    /\ pump = "send" /\ chan /\ fd[sfd] = "sock" /\ client # "left" /\ Len(sock) < SockCap
    /\ sock' = Append(sock, Head(hand)) /\ hand' = Tail(hand)
    /\ pump' = IF hand' = <<>> THEN "top" ELSE "send"
    /\ UNCHANGED <<port, fdVars, fromVm, guestVars, stopReq, serverVars, clientVars, dpc, killed>>

\* write fails: SIGPIPE when the client has left, an error and connected_ is
\* cleared when the number is not the socket's any more.
PumpSendFails ==
    /\ pump = "send" /\ chan
    /\ \/ /\ fd[sfd] = "sock" /\ client = "left"
          /\ killed' = TRUE /\ UNCHANGED <<stray, linked, pump, hand>>
       \/ /\ fd[sfd] # "sock"
          /\ stray' = stray \cup {"write"} /\ linked' = FALSE
          /\ hand' = <<>> /\ pump' = "top" /\ UNCHANGED killed
    /\ UNCHANGED <<port, fd, fromVm, guestVars, stopReq, acc, lfd, sfd, chan, rd, late, clientVars, sock, dpc>>

(***************************************************************************)
(* The server: accept thread (unix_listen, Server::listen) and the         *)
(* channel's read thread.                                                  *)
(***************************************************************************)
UnixListen ==
    /\ acc = "listen"
    /\ \/ \E n \in Free : fd' = [fd EXCEPT ![n] = "listen"] /\ lfd' = n /\ acc' = "accept"
       \/ acc' = "done" /\ UNCHANGED <<fd, lfd>>       \* bind() failed
    /\ UNCHANGED <<port, stray, fromVm, guestVars, pumpVars, sfd, chan, linked, rd, late, clientVars,
                   sock, dpc, killed>>

\* accept() returns, and the listening socket is closed.
Accept ==
    /\ acc = "accept" /\ client # "none"
    /\ \E n \in Free :
        /\ fd' = Close([fd EXCEPT ![n] = "sock"], lfd) /\ sfd' = n
        /\ late' = (fd[Rfd] # "fromR")
    /\ client' = IF client = "waiting" THEN "connected" ELSE client
    /\ lfd' = 0 /\ acc' = "channel"
    /\ UNCHANGED <<port, stray, fromVm, guestVars, pumpVars, chan, linked, rd, up, sends, received, sock, dpc, killed>>

SetChannel ==
    /\ acc = "channel"
    /\ chan' = TRUE /\ linked' = TRUE /\ acc' = "start"
    /\ UNCHANGED <<port, fdVars, fromVm, guestVars, pumpVars, lfd, sfd, rd, late, clientVars, sock, dpc, killed>>

StartReader ==
    /\ acc = "start"
    /\ rd' = "top" /\ acc' = "done"
    /\ UNCHANGED <<port, fdVars, fromVm, guestVars, pumpVars, lfd, sfd, chan, linked, late, clientVars,
                   sock, dpc, killed>>

ReaderTop ==
    /\ rd = "top"
    /\ rd' = IF linked THEN "read" ELSE "done"
    /\ UNCHANGED <<port, fdVars, fromVm, guestVars, pumpVars, acc, lfd, sfd, chan, linked, late, clientVars,
                   sock, dpc, killed>>

ReadMessage ==
    /\ rd = "read" /\ fd[sfd] = "sock" /\ up > 0
    /\ up' = up - 1 /\ rd' = "deliver"
    /\ UNCHANGED <<port, fdVars, fromVm, guestVars, pumpVars, acc, lfd, sfd, chan, linked, late, client,
                   sends, received, sock, dpc, killed>>

\* UnixTransport::read: end of the stream, or woken by close().
ReadEnds ==
    /\ rd = "read" /\ (fd[sfd] # "sock" \/ (up = 0 /\ client = "left"))
    /\ linked' = FALSE /\ rd' = "done"
    /\ UNCHANGED <<port, fdVars, fromVm, guestVars, pumpVars, acc, lfd, sfd, chan, late, clientVars, sock,
                   dpc, killed>>

\* on_message: ::write(host_write_fd).  Nobody reads the pipe to the VM.
Deliver ==
    /\ rd = "deliver"
    /\ \/ /\ fd[Wfd] = "toW"
          /\ killed' = TRUE /\ UNCHANGED <<rd, sock, stray>>
       \/ /\ fd[Wfd] \in {"free", "listen"}
          /\ rd' = "top" /\ UNCHANGED <<killed, sock, stray>>
       \/ /\ fd[Wfd] = "sock"
          /\ stray' = stray \cup {"write"}
          /\ IF client = "left" THEN killed' = TRUE /\ UNCHANGED <<rd, sock>>
                                ELSE /\ Len(sock) < SockCap
                                     /\ sock' = Append(sock, Foreign) /\ rd' = "top" /\ UNCHANGED killed
    /\ UNCHANGED <<port, fd, fromVm, guestVars, pumpVars, acc, lfd, sfd, chan, linked, late, clientVars, dpc>>

(***************************************************************************)
(* The client, in another process or in the command line's own.            *)
(***************************************************************************)
ClientConnects ==
    /\ client = "none" /\ acc = "accept" /\ MaxClient = 1
    /\ client' = "waiting"
    /\ UNCHANGED <<port, fdVars, fromVm, guestVars, pumpVars, serverVars, up, sends, received, sock, dpc, killed>>

ClientSends ==
    /\ client \in {"waiting", "connected"} /\ sends < MaxUp
    /\ sends' = sends + 1 /\ up' = up + 1
    /\ UNCHANGED <<port, fdVars, fromVm, guestVars, pumpVars, serverVars, client, received, sock, dpc, killed>>

ClientReads ==
    /\ client = "connected" /\ sock # <<>>
    /\ received' = Append(received, Head(sock)) /\ sock' = Tail(sock)
    /\ UNCHANGED <<port, fdVars, fromVm, guestVars, pumpVars, serverVars, client, up, sends, dpc, killed>>

ClientLeaves ==
    /\ client \in {"waiting", "connected"}
    /\ client' = "left" /\ sock' = <<>>
    /\ UNCHANGED <<port, fdVars, fromVm, guestVars, pumpVars, serverVars, up, sends, received, dpc, killed>>

(***************************************************************************)
(* The end of Create, and Destroy.                                         *)
(***************************************************************************)
\* The run thread starts and the instance is in vms_; run_all comes when the
\* thread is scheduled.
CreateReturns ==
    /\ vcpu = "new" /\ dpc = "none"
    /\ vcpu' = "start"
    /\ UNCHANGED <<port, fdVars, fromVm, written, running, pumpVars, serverVars, clientVars, sock, dpc, killed>>

\* A later step of Create throws: its locals are destroyed, serial_channels
\* among them, and no descriptor is closed.
CreateThrows ==
    /\ vcpu = "new" /\ dpc = "none"
    /\ vcpu' = "done" /\ dpc' = "unwind"
    /\ UNCHANGED <<port, fdVars, fromVm, written, running, pumpVars, serverVars, clientVars, sock, killed>>

DestroyCall ==
    /\ vcpu # "new" /\ dpc = "none"
    /\ dpc' = "close read"
    /\ UNCHANGED <<port, fdVars, fromVm, guestVars, pumpVars, serverVars, clientVars, sock, killed>>

\* close(host_read_fd): what the pipe holds is gone, a blocked reader wakes.
CloseRead ==
    /\ dpc = "close read"
    /\ fd' = Close(fd, Rfd) /\ fromVm' = <<>>
    /\ pump' = IF pump = "blocked" THEN "done" ELSE pump
    /\ dpc' = "close write"
    /\ UNCHANGED <<port, stray, guestVars, hand, stopReq, serverVars, clientVars, sock, killed>>

CloseWrite ==
    /\ dpc = "close write"
    /\ fd' = Close(fd, Wfd) /\ dpc' = "stop"
    /\ UNCHANGED <<port, stray, fromVm, guestVars, pumpVars, serverVars, clientVars, sock, killed>>

Stop ==
    /\ dpc = "stop"
    /\ running' = FALSE /\ dpc' = "join"
    /\ UNCHANGED <<port, fdVars, fromVm, written, vcpu, pumpVars, serverVars, clientVars, sock, killed>>

JoinRunThread ==
    /\ dpc = "join" /\ vcpu = "done"
    /\ dpc' = "reset"
    /\ UNCHANGED <<port, fdVars, fromVm, guestVars, pumpVars, serverVars, clientVars, sock, killed>>

\* ctx.reset() and hv_vm_destroy; the UART's end of the pipe is not closed.
ResetContext ==
    /\ dpc = "reset"
    /\ dpc' = "erase"
    /\ UNCHANGED <<port, fdVars, fromVm, guestVars, pumpVars, serverVars, clientVars, sock, killed>>

\* ... or ~Net under ctx.reset() does not return.
ResetHangs ==
    /\ dpc = "reset" /\ Network
    /\ dpc' = "reset hung"
    /\ UNCHANGED <<port, fdVars, fromVm, guestVars, pumpVars, serverVars, clientVars, sock, killed>>

\* vms_.erase runs ~SerialChannel: the pump thread goes first, then the server.
RequestStop ==
    /\ dpc \in {"erase", "unwind"}
    /\ stopReq' = TRUE /\ dpc' = "join pump"
    /\ UNCHANGED <<port, fdVars, fromVm, guestVars, pump, hand, serverVars, clientVars, sock, killed>>

\* Mutant: the pump is detached.
DetachPump ==
    /\ dpc = "join pump"
    /\ dpc' = "stop server"
    /\ UNCHANGED <<port, fdVars, fromVm, guestVars, pumpVars, serverVars, clientVars, sock, killed>>

JoinPump ==
    /\ dpc = "join pump" /\ pump = "done"
    /\ dpc' = "stop server"
    /\ UNCHANGED <<port, fdVars, fromVm, guestVars, pumpVars, serverVars, clientVars, sock, killed>>

\* Server::stop looks at the channel without waiting for the accept thread.
StopServer ==
    /\ dpc = "stop server"
    /\ dpc' = IF chan THEN "stop channel" ELSE "join accept"
    /\ UNCHANGED <<port, fdVars, fromVm, guestVars, pumpVars, serverVars, clientVars, sock, killed>>

\* Mutant: the flag is cleared and the socket stays open.
CloseTransportFlag ==
    /\ dpc \in {"stop channel", "destroy channel"}
    /\ linked' = FALSE
    /\ dpc' = IF dpc = "stop channel" THEN "join reader" ELSE "join reader again"
    /\ UNCHANGED <<port, fdVars, fromVm, guestVars, pumpVars, acc, lfd, sfd, chan, rd, late, clientVars, sock, killed>>

\* Channel::stop: UnixTransport::close closes the socket if connected_ was set.
CloseTransport ==
    /\ dpc \in {"stop channel", "destroy channel"}
    /\ fd' = IF linked THEN Close(fd, sfd) ELSE fd
    /\ linked' = FALSE
    /\ dpc' = IF dpc = "stop channel" THEN "join reader" ELSE "join reader again"
    /\ UNCHANGED <<port, stray, fromVm, guestVars, pumpVars, acc, lfd, sfd, chan, rd, late, clientVars, sock, killed>>

\* A reader that was not started yet cannot be joined.
JoinReadThread ==
    /\ dpc \in {"join reader", "join reader again"} /\ rd \in {"none", "done"}
    /\ dpc' = IF dpc = "join reader" THEN "join accept" ELSE "end"
    /\ UNCHANGED <<port, fdVars, fromVm, guestVars, pumpVars, serverVars, clientVars, sock, killed>>

\* ~Impl then destroys the channel, if there is one by now.
JoinAccept ==
    /\ dpc = "join accept" /\ acc = "done"
    /\ dpc' = IF chan THEN "destroy channel" ELSE "end"
    /\ UNCHANGED <<port, fdVars, fromVm, guestVars, pumpVars, serverVars, clientVars, sock, killed>>

Vcpu     == RunAll \/ NetLocks \/ GuestPrints \/ UartWrite \/ VcpuStops
Pump     == PumpTop \/ PumpRead \/ PumpBlocks \/ PumpReadsSocket \/ PumpEnds \/ PumpDrops \/ PumpSends \/ PumpSendFails
Server   == UnixListen \/ Accept \/ SetChannel \/ StartReader
Reader   == ReaderTop \/ ReadMessage \/ ReadEnds \/ Deliver
Teardown == CloseRead \/ CloseWrite \/ Stop \/ JoinRunThread \/ ResetContext \/ ResetHangs \/ RequestStop \/ JoinPump
                \/ StopServer \/ CloseTransport \/ JoinReadThread \/ JoinAccept

BridgeNext ==
    /\ ~killed
    /\ \/ Vcpu \/ Pump \/ Server \/ Reader
       \/ ClientConnects \/ ClientSends \/ ClientReads \/ ClientLeaves
       \/ CreateReturns \/ CreateThrows \/ DestroyCall \/ Teardown

BridgeSpec == BridgeInit /\ [][BridgeNext]_bridgeVars

\* Threads are scheduled, a call that was made goes on, and the client reads
\* what it is sent.  Nobody has to print, connect, send, leave or destroy.
FairBridgeSpec ==
    /\ BridgeSpec
    /\ WF_bridgeVars(~killed /\ (RunAll \/ UartWrite \/ VcpuStops)) /\ WF_bridgeVars(~killed /\ Pump)
    /\ WF_bridgeVars(~killed /\ Server) /\ WF_bridgeVars(~killed /\ Reader)
    /\ WF_bridgeVars(~killed /\ ClientReads) /\ WF_bridgeVars(~killed /\ Teardown)

(***************************************************************************)
(* Properties.                                                             *)
(***************************************************************************)
\* The type invariant.
BridgeTypeOK ==
    /\ port \in {0, 1} /\ fd \in [Fds -> Objects]
    /\ fromVm \in Seq(1..MaxOut) /\ Len(fromVm) <= PipeCap /\ written \in 0..MaxOut
    /\ vcpu \in {"new", "start", "run", "locked", "write", "done"} /\ running \in BOOLEAN
    /\ pump \in {"top", "read", "blocked", "send", "done"}
    /\ hand \in Seq(0..MaxOut) /\ (pump = "send" => hand # <<>>) /\ stopReq \in BOOLEAN
    /\ acc \in {"listen", "accept", "channel", "start", "done"}
    /\ lfd \in Fds \cup {0} /\ sfd \in Fds \cup {0}
    /\ chan \in BOOLEAN /\ linked \in BOOLEAN
    /\ rd \in {"none", "top", "read", "deliver", "done"}
    /\ client \in {"none", "waiting", "connected", "left"}
    /\ sock \in Seq(0..MaxOut) /\ Len(sock) <= SockCap /\ up \in 0..MaxUp /\ sends \in 0..MaxUp
    /\ received \in Seq(0..MaxOut)
    /\ late \in BOOLEAN /\ stray \subseteq {"read", "write"} /\ killed \in BOOLEAN
    /\ dpc \in {"none", "close read", "close write", "stop", "join", "reset", "reset hung", "erase", "unwind", "join pump",
                "stop server", "stop channel", "join reader", "join accept", "destroy channel",
                "join reader again", "end"}

\* The client sees the guest's output as it was written: from its first byte
\* on nothing is missing, repeated or out of order, in the client's hands, in
\* the socket, with the pump and in the pipe, however short writes and reads
\* are.  (Not when a late client's socket got the number of a closed pipe.)
OutputInOrder ==
    LET flow == IF client = "left" THEN received ELSE received \o sock \o hand \o fromVm
    IN stray = {} => \A i \in 1..(Len(flow) - 1) : flow[i + 1] = flow[i] + 1

\* Destroy closes numbers that threads still hold: yet no thread uses a number
\* for an object it was not given for, unless the client was accepted after
\* that; and when Destroy returns, only the UART's end of the pipe is left
\* open, and the socket of a client that left first.
DescriptorsOwned ==
    /\ stray # {} => late
    /\ dpc = "end" /\ ~IsOpen("toW") =>
         \A n \in Fds : fd[n] \in {"free", "fromW"} \cup (IF client = "left" THEN {"sock"} ELSE {})

\* What the guest prints while a client is connected reaches it, although the
\* pump, a full pipe and a full socket make each other wait.
OutputArrives ==
    \A k \in 1..MaxOut :
        (vcpu = "write" /\ written = k /\ port = 0 /\ chan /\ client = "connected" /\ dpc = "none")
            ~> ((\E i \in DOMAIN received : received[i] = k) \/ client = "left" \/ dpc # "none" \/ killed)

\* The serial channel never keeps Destroy if a client is connected when it is
\* called: each join of one of its threads is of a thread that the steps before
\* have woken.  What still can is the VM: a run thread whose run_all has not
\* stored running_ yet (excluded here; lifecycle_lost_stop) and a network device,
\* on the vCPU's thread (net_sync_reply) or in ctx.reset() (net_teardown).
DestroyReturnsConnected ==
    (dpc = "close read" /\ chan /\ vcpu # "start")
        ~> (dpc = "end" \/ killed \/ vcpu = "locked" \/ dpc = "reset hung")

\* Destroy returns, as README.md:131 says, client or not (with run_all under
\* way, see above).
DestroyReturns == (dpc = "close read" /\ vcpu # "start") ~> (dpc = "end" \/ killed)

\* Create that fails throws: its locals are destroyed in the end.
ThrowReturns == (dpc = "unwind") ~> (dpc = "end" \/ killed)

\* The process survives: a client that leaves is a disconnect, its input is
\* written to the VM, and Destroy does not end the process.
Survives == ~killed

\* The pump moves "VM output", and nothing else, to the client.
PumpReadsVm == "read" \notin stray
===============================================================================
