------------------------------ MODULE IpcChannel ------------------------------
(***************************************************************************)
(* The two ends of an IPC channel over the in-process transport            *)
(* (ipc/src: server.cpp, client.cpp, channel.cpp, transport_inprocess.cpp) *)
(* after register_inprocess.  Each end has the thread of listen() or       *)
(* connect(), a read thread, the threads that call send, and the one that  *)
(* calls stop and the destructor.                                          *)
(*                                                                         *)
(* A pipe's queue and closed flag change under its mutex and are waited    *)
(* for with a predicate, so a blocked read is a step that is not enabled.  *)
(* A frame is two queue entries, header and payload; messages are numbered *)
(* per sender in the order they take write_mutex_.  Callbacks return.      *)
(***************************************************************************)
EXTENDS Naturals, Sequences

CONSTANTS
    Talkers,    \* ends that send
    Senders,    \* threads that call send, at each end
    MaxMsg,     \* bound: messages sent from each end
    Empty,      \* numbers of the messages that have no payload
    Big,        \* numbers of the messages over kMaxPayloadSize
    MaxStop     \* bound: calls of stop at each end (the destructor's is one)

ASSUME IpcAssumption ==
    /\ MaxMsg \in Nat /\ MaxStop \in Nat
    /\ Empty \subseteq 1..MaxMsg /\ Big \subseteq (1..MaxMsg) \ Empty
    /\ "none" \notin Senders /\ Talkers \subseteq {"server", "client"}

VARIABLES
    apc,        \* the thread of listen() / connect()
    channel,    \* impl_->channel is set
    connected,  \* connected_ of the transport
    pipe,       \* end -> the pipe it reads from
    writer,     \* write_mutex_
    spc,        \* end -> sender -> where it is in send_raw
    next,       \* messages sent so far
    rpc,        \* where the read thread is
    hdr,        \* the message whose header the read thread holds
    got,        \* messages given to on_message
    lost,       \* on_disconnect has been called
    refused,    \* on_error has been called for a frame
    greeted,    \* on_connect has been called
    stop,       \* where the thread that stops the end is
    stops       \* calls of stop so far

linkVars == <<apc, channel, greeted>>
sendVars == <<writer, spc, next>>
readVars == <<rpc, hdr, got, lost, refused>>
stopVars == <<stop, stops>>
vars == <<linkVars, connected, pipe, sendVars, readVars, stopVars>>

Ends == {"server", "client"}
Peer(e) == IF e = "server" THEN "client" ELSE "server"
Entries == [kind : {"hdr", "pay"}, msg : 1..MaxMsg]

Init ==
    /\ apc = [e \in Ends |-> "idle"] /\ channel = [e \in Ends |-> FALSE]
    /\ greeted = [e \in Ends |-> FALSE]
    /\ connected = [e \in Ends |-> TRUE]
    /\ pipe = [e \in Ends |-> [queue |-> <<>>, closed |-> FALSE]]
    /\ writer = [e \in Ends |-> "none"]
    /\ spc = [e \in Ends |-> [w \in Senders |-> "idle"]]
    /\ next = [e \in Ends |-> 0]
    /\ rpc = [e \in Ends |-> "none"] /\ hdr = [e \in Ends |-> 0]
    /\ got = [e \in Ends |-> <<>>]
    /\ lost = [e \in Ends |-> FALSE] /\ refused = [e \in Ends |-> FALSE]
    /\ stop = [e \in Ends |-> "run"] /\ stops = [e \in Ends |-> 0]

(***************************************************************************)
(* listen() and connect(): the same steps on a background thread.  Neither *)
(* waits for the other end.                                                *)
(***************************************************************************)
Call(e) ==
    /\ apc[e] = "idle"
    /\ apc' = [apc EXCEPT ![e] = "open"]
    /\ UNCHANGED <<channel, greeted, connected, pipe, sendVars, readVars, stopVars>>

Open(e) ==
    /\ apc[e] = "open"
    /\ channel' = [channel EXCEPT ![e] = TRUE]
    /\ apc' = [apc EXCEPT ![e] = "start"]
    /\ UNCHANGED <<greeted, connected, pipe, sendVars, readVars, stopVars>>

Start(e) ==
    /\ apc[e] = "start"
    /\ rpc' = [rpc EXCEPT ![e] = "top"]
    /\ apc' = [apc EXCEPT ![e] = "greet"]
    /\ UNCHANGED <<channel, greeted, connected, pipe, sendVars, hdr, got, lost, refused, stopVars>>

Greet(e) ==
    /\ apc[e] = "greet"
    /\ greeted' = [greeted EXCEPT ![e] = TRUE]
    /\ apc' = [apc EXCEPT ![e] = "done"]
    /\ UNCHANGED <<channel, connected, pipe, sendVars, readVars, stopVars>>

Listen  == Call("server") \/ Open("server") \/ Start("server") \/ Greet("server")
Connect == Call("client") \/ Open("client") \/ Start("client") \/ Greet("client")

(***************************************************************************)
(* send_raw: header and payload under write_mutex_.                        *)
(***************************************************************************)
\* InProcessTransport::write of one entry.  A closed pipe disconnects the
\* writing end; an end that is not connected writes nothing.
WriteEntry(e, entry) ==
    IF connected[e] /\ ~pipe[Peer(e)].closed
    THEN /\ pipe' = [pipe EXCEPT ![Peer(e)].queue = Append(@, entry)]
         /\ UNCHANGED connected
    ELSE /\ connected' = [connected EXCEPT ![e] = FALSE]
         /\ UNCHANGED pipe

\* Mutant: the lock covers each write and not the pair.
SendHeaderUnlocks(e, w) ==
    /\ e \in Talkers /\ channel[e] /\ next[e] < MaxMsg
    /\ spc[e][w] = "idle" /\ writer[e] = "none"
    /\ next' = [next EXCEPT ![e] = @ + 1]
    /\ WriteEntry(e, [kind |-> "hdr", msg |-> next[e] + 1])
    /\ spc' = IF next[e] + 1 \in Empty THEN spc ELSE [spc EXCEPT ![e][w] = "payload"]
    /\ UNCHANGED <<writer, linkVars, readVars, stopVars>>

SendHeader(e, w) ==
    /\ e \in Talkers /\ channel[e] /\ next[e] < MaxMsg
    /\ spc[e][w] = "idle" /\ writer[e] = "none"
    /\ next' = [next EXCEPT ![e] = @ + 1]
    /\ WriteEntry(e, [kind |-> "hdr", msg |-> next[e] + 1])
    /\ IF next[e] + 1 \in Empty
       THEN UNCHANGED <<writer, spc>>
       ELSE /\ writer' = [writer EXCEPT ![e] = w]
            /\ spc' = [spc EXCEPT ![e][w] = "payload"]
    /\ UNCHANGED <<linkVars, readVars, stopVars>>

SendPayload(e, w) ==
    /\ spc[e][w] = "payload"
    /\ WriteEntry(e, [kind |-> "pay", msg |-> next[e]])
    /\ writer' = [writer EXCEPT ![e] = "none"]
    /\ spc' = [spc EXCEPT ![e][w] = "idle"]
    /\ UNCHANGED <<linkVars, next, readVars, stopVars>>

(***************************************************************************)
(* read_loop.                                                              *)
(***************************************************************************)
ReadTop(e) ==
    /\ rpc[e] = "top"
    /\ rpc' = [rpc EXCEPT ![e] = IF connected[e] THEN "header" ELSE "bye"]
    /\ UNCHANGED <<linkVars, connected, pipe, sendVars, hdr, got, lost, refused, stopVars>>

Next1(e) == Head(pipe[e].queue)
Pop(e) == pipe' = [pipe EXCEPT ![e].queue = Tail(@)]

\* Not a header, or one that announces too much.
Unusable(entry) == entry.kind # "hdr" \/ entry.msg \in Big

\* Mutant: a payload is read also when it has no bytes, and reading none of
\* them looks like the end of the stream.
ReadHeaderReadsNone(e) ==
    /\ rpc[e] = "header" /\ pipe[e].queue # <<>>
    /\ ~Unusable(Next1(e))
    /\ Pop(e)
    /\ IF Next1(e).msg \in Empty
       THEN rpc' = [rpc EXCEPT ![e] = "bye"] /\ UNCHANGED hdr
       ELSE /\ hdr' = [hdr EXCEPT ![e] = Next1(e).msg]
            /\ rpc' = [rpc EXCEPT ![e] = "payload"]
    /\ UNCHANGED <<got, linkVars, connected, sendVars, lost, refused, stopVars>>

ReadHeader(e) ==
    /\ rpc[e] = "header" /\ pipe[e].queue # <<>>
    /\ ~Unusable(Next1(e))
    /\ Pop(e)
    /\ IF Next1(e).msg \in Empty
       THEN /\ got' = [got EXCEPT ![e] = Append(@, Next1(e).msg)]
            /\ rpc' = [rpc EXCEPT ![e] = "top"]
            /\ UNCHANGED hdr
       ELSE /\ hdr' = [hdr EXCEPT ![e] = Next1(e).msg]
            /\ rpc' = [rpc EXCEPT ![e] = "payload"]
            /\ UNCHANGED got
    /\ UNCHANGED <<linkVars, connected, sendVars, lost, refused, stopVars>>

\* on_error, and the loop is left.
RefuseFrame(e) ==
    /\ rpc[e] = "header" /\ pipe[e].queue # <<>>
    /\ Unusable(Next1(e))
    /\ Pop(e)
    /\ refused' = [refused EXCEPT ![e] = TRUE]
    /\ rpc' = [rpc EXCEPT ![e] = "bye"]
    /\ UNCHANGED <<linkVars, connected, sendVars, hdr, got, lost, stopVars>>

\* The bytes that follow the header, whatever they are, become the payload:
\* 0 stands for one that is not the payload of its header.
ReadPayload(e) ==
    /\ rpc[e] = "payload" /\ pipe[e].queue # <<>>
    /\ Pop(e)
    /\ got' = [got EXCEPT ![e] = Append(@,
                 IF Next1(e) = [kind |-> "pay", msg |-> hdr[e]] THEN hdr[e] ELSE 0)]
    /\ hdr' = [hdr EXCEPT ![e] = 0]
    /\ rpc' = [rpc EXCEPT ![e] = "top"]
    /\ UNCHANGED <<linkVars, connected, sendVars, lost, refused, stopVars>>

ReadEnd(e) ==
    /\ rpc[e] \in {"header", "payload"}
    /\ pipe[e].queue = <<>> /\ pipe[e].closed
    /\ connected' = [connected EXCEPT ![e] = FALSE]
    /\ rpc' = [rpc EXCEPT ![e] = "bye"]
    /\ UNCHANGED <<linkVars, pipe, sendVars, hdr, got, lost, refused, stopVars>>

Bye(e) ==
    /\ rpc[e] = "bye"
    /\ lost' = [lost EXCEPT ![e] = TRUE]
    /\ rpc' = [rpc EXCEPT ![e] = "done"]
    /\ UNCHANGED <<linkVars, connected, pipe, sendVars, hdr, got, refused, stopVars>>

(***************************************************************************)
(* stop(), called by the application and again by the destructor.          *)
(***************************************************************************)
StopAt(e, l) == stop' = [stop EXCEPT ![e] = l]

StopCall(e) ==
    /\ stop[e] \in {"run", "stopped"} /\ stops[e] < MaxStop
    /\ stops' = [stops EXCEPT ![e] = @ + 1]
    /\ StopAt(e, IF channel[e] THEN "close" ELSE "thread")
    /\ UNCHANGED <<linkVars, connected, pipe, sendVars, readVars>>

\* InProcessTransport::close: an end that is no longer connected returns.
CloseFlag(e) ==
    /\ stop[e] = "close"
    /\ connected' = [connected EXCEPT ![e] = FALSE]
    /\ StopAt(e, IF connected[e] THEN "mark" ELSE "join")
    /\ UNCHANGED <<linkVars, pipe, sendVars, readVars, stops>>

\* Mutant: the pipe it writes to is closed in place of the one it reads.
CloseMarkOther(e) ==
    /\ stop[e] = "mark"
    /\ pipe' = [pipe EXCEPT ![Peer(e)].closed = TRUE]
    /\ StopAt(e, "join")
    /\ UNCHANGED <<linkVars, connected, sendVars, readVars, stops>>

CloseMark(e) ==
    /\ stop[e] = "mark"
    /\ pipe' = [pipe EXCEPT ![e].closed = TRUE]
    /\ StopAt(e, "join")
    /\ UNCHANGED <<linkVars, connected, sendVars, readVars, stops>>

JoinReader(e) ==
    /\ stop[e] = "join" /\ rpc[e] \in {"none", "done"}
    /\ StopAt(e, "thread")
    /\ UNCHANGED <<linkVars, connected, pipe, sendVars, readVars, stops>>

JoinThread(e) ==
    /\ stop[e] = "thread" /\ apc[e] \in {"idle", "done"}
    /\ StopAt(e, "stopped")
    /\ UNCHANGED <<linkVars, connected, pipe, sendVars, readVars, stops>>

SendRaw(e, w) == SendHeader(e, w) \/ SendPayload(e, w)
ReadLoop(e) ==
    \/ ReadTop(e) \/ ReadHeader(e) \/ RefuseFrame(e)
    \/ ReadPayload(e) \/ ReadEnd(e) \/ Bye(e)
StopStep(e) == CloseFlag(e) \/ CloseMark(e) \/ JoinReader(e) \/ JoinThread(e)

Next ==
    \/ Listen \/ Connect
    \/ \E e \in Ends : \/ \E w \in Senders : SendRaw(e, w)
                       \/ ReadLoop(e) \/ StopCall(e) \/ StopStep(e)

Spec == Init /\ [][Next]_vars

\* The library's own threads are scheduled, and a call of send or stop that
\* was made goes on; nothing makes the application call one.
FairSpec ==
    /\ Spec
    /\ \A e \in Ends :
         /\ WF_vars(Open(e) \/ Start(e) \/ Greet(e))
         /\ WF_vars(ReadLoop(e)) /\ WF_vars(StopStep(e))
         /\ \A w \in Senders : WF_vars(SendPayload(e, w))

(***************************************************************************)
(* Properties.                                                             *)
(***************************************************************************)
\* The type invariant.
TypeOK ==
    /\ apc \in [Ends -> {"idle", "open", "start", "greet", "done"}]
    /\ channel \in [Ends -> BOOLEAN] /\ connected \in [Ends -> BOOLEAN]
    /\ pipe \in [Ends -> [queue : Seq(Entries), closed : BOOLEAN]]
    /\ writer \in [Ends -> Senders \cup {"none"}]
    /\ spc \in [Ends -> [Senders -> {"idle", "payload"}]]
    /\ next \in [Ends -> 0..MaxMsg]
    /\ rpc \in [Ends -> {"none", "top", "header", "payload", "bye", "done"}]
    /\ hdr \in [Ends -> 0..MaxMsg] /\ got \in [Ends -> Seq(1..MaxMsg)]
    /\ lost \in [Ends -> BOOLEAN] /\ refused \in [Ends -> BOOLEAN]
    /\ greeted \in [Ends -> BOOLEAN]
    /\ stop \in [Ends -> {"run", "close", "mark", "join", "thread", "stopped"}]
    /\ stops \in [Ends -> 0..MaxStop]

\* Several threads may send at once and either end may stop in the middle of
\* a frame: what an end receives is still exactly the first messages its peer
\* sent, whole and in order.
FramesIntact ==
    \A e \in Ends : got[e] = [i \in 1..Len(got[e]) |-> i]

\* A message sent reaches on_message at the other end, once that end is open,
\* unless an end is stopped or the frame is refused; a message without payload
\* does not end the stream.
MessagesArrive ==
    \A e \in Ends, m \in 1..MaxMsg :
        next[e] >= m /\ apc[Peer(e)] # "idle"
            ~> \/ Len(got[Peer(e)]) >= m
               \/ stops[e] + stops[Peer(e)] > 0 \/ refused[Peer(e)]

\* stop() returns when it is the one that disconnects the transport: the read
\* thread is woken, whatever is still queued.
CleanStopReturns ==
    \A e \in Ends : stop[e] = "mark" ~> stop[e] = "stopped"

\* stop() returns, whichever way the transport came to be disconnected.
StopReturns ==
    \A e \in Ends : stop[e] = "close" ~> stop[e] = "stopped"

\* When an end has stopped, the other end is told.
PeerIsTold ==
    \A e \in Ends : stop[e] = "stopped" /\ rpc[e] = "done" /\ apc[Peer(e)] = "done"
                        ~> lost[Peer(e)]
===============================================================================
