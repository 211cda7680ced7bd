-------------------------------- MODULE TcpNat --------------------------------
(***************************************************************************)
(* TCP in the userspace NAT stack (network.cpp): the connection table, the *)
(* handler of guest segments, the connect thread and the IO thread of each *)
(* connection, and the threads that inject inbound port forwards.          *)
(*                                                                         *)
(* The guest's TCP, the host's peers and the virtio-net RX path are        *)
(* outside this file and modelled by what the stack sees of them.  Guest   *)
(* frames reach the stack one at a time (Net::write holds Net::mtx_), so   *)
(* one variable describes the handler.  Payloads are single bytes; a       *)
(* guest byte is its sequence number, a host byte names its connection.    *)
(* Sequence numbers are relative to the ISNs, which the code only adds to  *)
(* and compares; the stack's ISN is the same constant for every outbound   *)
(* connection, here 0.  A write to a host socket may fail at any time, as  *)
(* it does when the peer has reset it; the model goes on as the code does, *)
(* for a host program that ignores the SIGPIPE that comes with it.         *)
(***************************************************************************)
EXTENDS Integers, Sequences

CONSTANTS
    OutKeys,    \* 4-tuples of connections the guest opens
    InKeys,     \* 4-tuples of connections injected by a port forward
    MaxConn,    \* bound: TcpConn objects ever made
    MaxHost,    \* bound: bytes the host sends per connection
    MaxGuest,   \* bound: bytes the guest sends per connection
    Attempts,   \* SYNs an inbound forward sends before it gives up (5)
    Reopen,     \* the guest reuses a 4-tuple after closing it
    Lossy       \* the RX ring may be full: a frame to the guest is dropped

ASSUME NatAssumption ==
    /\ OutKeys \cap InKeys = {} /\ "none" \notin OutKeys \cup InKeys
    /\ MaxConn \in Nat /\ MaxHost \in Nat /\ MaxGuest \in Nat /\ Attempts \in Nat \ {0}
    /\ Reopen \in BOOLEAN /\ Lossy \in BOOLEAN

VARIABLES
    conns,      \* the table: key -> connection, 0 for none
    done,       \* done_queue, as a set: it is only erased from the table
    made,       \* connections made so far
    conn,       \* connection -> TcpConn
    cth,        \* connection -> where its connect thread is
    io,         \* connection -> where its IO thread is
    fwd,        \* connection -> where its inbound_fwd is
    tries,      \* connection -> SYNs inbound_fwd has sent
    handler,    \* handle_tcp after it unlocked mtx
    host,       \* connection -> the host peer at the other end of fd; got is what
                \*   handle_tcp wrote, with 0 for a byte whose write failed
    guest,      \* key -> the guest's endpoint
    wire        \* segments on their way to the guest

stackVars == <<conns, done, made, conn, cth, io, fwd, tries, handler>>
vars == <<stackVars, host, guest, wire>>

Keys   == OutKeys \cup InKeys
Conns  == 1..MaxConn
Stride == MaxGuest + 3                   \* guest sequence numbers per incarnation
NoByte == <<0, 0>>

Flags    == {"SYN", "SYNACK", "ACK", "DATA", "FIN", "DATAFIN", "RST"}
Segments == [key : Keys, flag : Flags, seq : Nat, ack : Nat, byte : (0..MaxConn) \X (0..MaxHost)]
Seg(k, flag, seq, ack) ==
    [key |-> k, flag |-> flag, seq |-> seq, ack |-> ack, byte |-> NoByte]

Idle == [pc |-> "idle", c |-> 0, data |-> 0, reply |-> "none", key |-> "none", seq |-> 0, ack |-> 0]

TypeOK ==
    /\ conns \in [Keys -> 0..MaxConn]
    /\ done \subseteq Keys
    /\ made \in 0..MaxConn
    /\ conn \in [Conns -> [key : Keys \cup {"none"}, gNxt : Nat, hNxt : Nat, fd : BOOLEAN,
                           state : {"CONNECTING", "SYNACK_SENT", "ESTABLISHED"}, stop : BOOLEAN]]
    /\ cth \in [Conns -> {"none", "connect", "synack", "fail", "exited"}]
    /\ io \in [Conns -> {"none", "loop", "reserve", "send", "check", "fin", "push", "exited"}]
    /\ fwd \in [Conns -> {"none", "insert", "syn", "wait", "erase", "exited"}]
    /\ tries \in [Conns -> 0..Attempts]
    /\ handler \in [pc : {"idle", "finish"}, c : 0..MaxConn, data : Nat,
                    reply : {"none", "ACK", "FIN", "RST"}, key : Keys \cup {"none"},
                    seq : Nat, ack : Nat]
    /\ host \in [Conns -> [sent : 0..MaxHost, read : 0..MaxHost, eof : BOOLEAN, got : Seq(Nat), seq : Nat]]
    /\ guest \in [Keys -> [st : {"closed", "synSent", "synRcvd", "est", "finSent", "reset"},
                           isn : Nat, nxt : Nat, rcv : Nat, due : {"none", "ACK", "SYNACK"},
                           got : Seq((0..MaxConn) \X (0..MaxHost)), peerFin : BOOLEAN]]
    /\ wire \subseteq Segments

Init ==
    /\ conns = [k \in Keys |-> 0] /\ done = {} /\ made = 0
    /\ conn = [c \in Conns |-> [key |-> "none", gNxt |-> 0, hNxt |-> 0, fd |-> FALSE,
                                state |-> "CONNECTING", stop |-> FALSE]]
    /\ cth = [c \in Conns |-> "none"] /\ io = [c \in Conns |-> "none"]
    /\ fwd = [c \in Conns |-> "none"] /\ tries = [c \in Conns |-> 0]
    /\ handler = Idle
    /\ host = [c \in Conns |-> [sent |-> 0, read |-> 0, eof |-> FALSE, got |-> <<>>, seq |-> 0]]
    /\ guest = [k \in Keys |-> [st |-> "closed", isn |-> 0, nxt |-> 0, rcv |-> 0, due |-> "none",
                                got |-> <<>>, peerFin |-> FALSE]]
    /\ wire = {}

(***************************************************************************)
(* handle_tcp, up to where it releases mtx: reap, then act on the segment. *)
(***************************************************************************)

\* The table after "Reap finished connections".
Reaped == [k \in Keys |-> IF k \in done THEN 0 ELSE conns[k]]

Reap ==
    /\ conns' = Reaped
    /\ UNCHANGED <<made, conn, cth, io, handler>>

\* A SYN for a key that is not in the table makes a connection and its thread.
OnSyn(k, seq) ==
    IF Reaped[k] # 0 THEN Reap
    ELSE /\ made < MaxConn
         /\ made' = made + 1
         /\ conns' = [Reaped EXCEPT ![k] = made + 1]
         /\ conn' = [conn EXCEPT ![made + 1].key = k, ![made + 1].gNxt = seq + 1]
         /\ cth' = [cth EXCEPT ![made + 1] = "connect"]
         /\ UNCHANGED <<io, handler>>

\* No connection: RST, unless the segment is one.
OnUnknown(k, flag, ack) ==
    /\ conns' = Reaped
    /\ handler' = IF flag = "RST" THEN Idle
                  ELSE [Idle EXCEPT !.pc = "finish", !.reply = "RST", !.key = k, !.seq = ack]
    /\ UNCHANGED <<made, conn, cth, io>>

\* A reset: the table lets go, and the IO thread is told to stop.
OnRst(k, c) ==
    /\ conn' = [conn EXCEPT ![c].stop = TRUE]
    /\ conns' = [Reaped EXCEPT ![k] = 0]
    /\ UNCHANGED <<made, cth, io, handler>>

\* Mutant: the IO thread starts but the state stays SYNACK_SENT.
OnHandshakeAckNoState(c) ==
    /\ conns' = Reaped
    /\ io' = [io EXCEPT ![c] = "loop"]
    /\ UNCHANGED <<made, conn, cth, handler>>

\* The segment that answers a SYN or SYN|ACK: any segment with ACK set.
OnHandshakeAck(c) ==
    /\ conns' = Reaped
    /\ conn' = [conn EXCEPT ![c].state = "ESTABLISHED"]
    /\ io' = [io EXCEPT ![c] = "loop"]
    /\ UNCHANGED <<made, cth, handler>>

Fins  == {"FIN", "DATAFIN"}
Datas == {"DATA", "DATAFIN"}

\* Mutant: a byte is accepted whatever its sequence number.
OnEstablishedAnySeq(k, c, flag, seq) ==
    LET ack == conn[c].gNxt + (IF flag \in Datas THEN 1 ELSE 0) + (IF flag \in Fins THEN 1 ELSE 0)
    IN  /\ conns' = IF flag \in Fins THEN [Reaped EXCEPT ![k] = 0] ELSE Reaped
        /\ conn' = [conn EXCEPT ![c].gNxt = ack,
                                ![c].hNxt = IF flag \in Fins THEN @ + 1 ELSE @,
                                ![c].stop = @ \/ flag \in Fins]
        /\ handler' = IF flag \in Datas \cup Fins
                      THEN [pc |-> "finish", c |-> c, data |-> IF flag \in Datas THEN seq ELSE 0,
                            reply |-> IF flag \in Fins THEN "FIN" ELSE "ACK", key |-> k,
                            seq |-> conn[c].hNxt, ack |-> ack]
                      ELSE Idle
        /\ UNCHANGED <<made, cth, io>>

\* The byte counts if it is the next one, the FIN whatever its number is; a
\* segment may have both.
OnEstablished(k, c, flag, seq) ==
    LET fresh == flag \in Datas /\ seq = conn[c].gNxt
        fin   == flag \in Fins
        ack   == conn[c].gNxt + (IF fresh THEN 1 ELSE 0) + (IF fin THEN 1 ELSE 0)
    IN  /\ conns' = IF fin THEN [Reaped EXCEPT ![k] = 0] ELSE Reaped
        /\ conn' = [conn EXCEPT ![c].gNxt = ack,
                                ![c].hNxt = IF fin THEN @ + 1 ELSE @,
                                ![c].stop = @ \/ fin]
        /\ handler' = IF fresh \/ fin
                      THEN [pc |-> "finish", c |-> c, data |-> IF fresh THEN seq ELSE 0,
                            reply |-> IF fin THEN "FIN" ELSE "ACK", key |-> k,
                            seq |-> conn[c].hNxt, ack |-> ack]
                      ELSE Idle
        /\ UNCHANGED <<made, cth, io>>

\* Every segment but a plain SYN, RST included, may carry ACK; the guest's
\* SYN|ACK, ACK, data and FIN do.
HandleTcp(k, flag, seq, ack) ==
    /\ handler.pc = "idle"
    /\ done' = {}
    /\ UNCHANGED <<fwd, tries>>
    /\ LET c == Reaped[k]
       IN CASE flag = "SYN"                  -> OnSyn(k, seq)
            [] flag # "SYN" /\ c = 0         -> OnUnknown(k, flag, ack)
            [] flag = "RST" /\ c # 0         -> OnRst(k, c)
            [] OTHER ->
                 CASE conn[c].state = "SYNACK_SENT" -> OnHandshakeAck(c)
                   [] conn[c].state = "ESTABLISHED" -> OnEstablished(k, c, flag, seq)
                   [] conn[c].state = "CONNECTING"  -> Reap

\* What the write leaves at the host: the byte, or nothing when it fails.  A
\* FIN shuts the socket down for writing before the byte beside it is written.
Written == IF handler.reply = "FIN" THEN {0} ELSE {handler.data, 0}

\* The rest of handle_tcp, without mtx: write to the host, then answer, also
\* when the write has failed.
HandlerFinish ==
    /\ handler.pc = "finish"
    /\ IF handler.data = 0 \/ ~conn[handler.c].fd THEN UNCHANGED host
       ELSE \E b \in Written : host' = [host EXCEPT ![handler.c].got = Append(@, b)]
    /\ wire' = wire \cup {Seg(handler.key, handler.reply, handler.seq, handler.ack)}
    /\ handler' = Idle
    /\ UNCHANGED <<conns, done, made, conn, cth, io, fwd, tries, guest>>

(***************************************************************************)
(* The connect thread of an outbound connection.                           *)
(***************************************************************************)
Connected(c) ==
    /\ cth[c] = "connect"
    /\ conn' = [conn EXCEPT ![c].fd = TRUE, ![c].state = "SYNACK_SENT"]
    /\ cth' = [cth EXCEPT ![c] = "synack"]
    /\ UNCHANGED <<conns, done, made, io, fwd, tries, handler, host, guest, wire>>

SendSynAck(c) ==
    /\ cth[c] = "synack"
    /\ wire' = wire \cup {Seg(conn[c].key, "SYNACK", conn[c].hNxt, conn[c].gNxt)}
    /\ conn' = [conn EXCEPT ![c].hNxt = @ + 1]
    /\ cth' = [cth EXCEPT ![c] = "exited"]
    /\ UNCHANGED <<conns, done, made, io, fwd, tries, handler, host, guest>>

\* socket() fails, the peer refuses, or poll() times out after 5 s.
ConnectFails(c) ==
    /\ cth[c] = "connect"
    /\ cth' = [cth EXCEPT ![c] = "fail"]
    /\ UNCHANGED <<conns, done, made, conn, io, fwd, tries, handler, host, guest, wire>>

\* conns.erase(key), under mtx, whichever connection the key now names.
ConnectErase(c) ==
    /\ cth[c] = "fail"
    /\ conns' = [conns EXCEPT ![conn[c].key] = 0]
    /\ cth' = [cth EXCEPT ![c] = "exited"]
    /\ UNCHANGED <<done, made, conn, io, fwd, tries, handler, host, guest, wire>>

ConnectStep(c) == Connected(c) \/ SendSynAck(c) \/ ConnectFails(c) \/ ConnectErase(c)

(***************************************************************************)
(* The IO thread of an established connection.                             *)
(***************************************************************************)
IoVars == <<conns, made, cth, fwd, tries, handler, guest>>

\* The peer's data is read before its EOF or error is seen.
IoLoop(c) ==
    /\ io[c] = "loop"
    /\ \/ /\ ~conn[c].stop
          /\ host[c].read < host[c].sent
          /\ host' = [host EXCEPT ![c].read = @ + 1]
          /\ io' = [io EXCEPT ![c] = "reserve"]
       \/ /\ conn[c].stop \/ (host[c].eof /\ host[c].read = host[c].sent)
          /\ io' = [io EXCEPT ![c] = "check"]
          /\ UNCHANGED host
    /\ UNCHANGED <<IoVars, done, conn, wire>>

\* Mutant: h_nxt is read and not advanced.
IoReserveNothing(c) ==
    /\ io[c] = "reserve"
    /\ host' = [host EXCEPT ![c].seq = conn[c].hNxt]
    /\ io' = [io EXCEPT ![c] = "send"]
    /\ UNCHANGED <<IoVars, done, conn, wire>>

IoReserve(c) ==
    /\ io[c] = "reserve"
    /\ host' = [host EXCEPT ![c].seq = conn[c].hNxt]
    /\ conn' = [conn EXCEPT ![c].hNxt = @ + 1]
    /\ io' = [io EXCEPT ![c] = "send"]
    /\ UNCHANGED <<IoVars, done, wire>>

IoSend(c) ==
    /\ io[c] = "send"
    /\ wire' = wire \cup {[Seg(conn[c].key, "DATA", host[c].seq, conn[c].gNxt)
                              EXCEPT !.byte = <<c, host[c].read>>]}
    /\ io' = [io EXCEPT ![c] = "loop"]
    /\ UNCHANGED <<IoVars, done, conn, host>>

\* "Send FIN to guest if we weren't told to stop by the guest side"
IoCheck(c) ==
    /\ io[c] = "check"
    /\ io' = [io EXCEPT ![c] = IF conn[c].stop THEN "push" ELSE "fin"]
    /\ UNCHANGED <<IoVars, done, conn, host, wire>>

IoFin(c) ==
    /\ io[c] = "fin"
    /\ wire' = wire \cup {Seg(conn[c].key, "FIN", conn[c].hNxt, conn[c].gNxt)}
    /\ conn' = [conn EXCEPT ![c].hNxt = @ + 1]
    /\ io' = [io EXCEPT ![c] = "push"]
    /\ UNCHANGED <<IoVars, done, host>>

\* Mutant: the thread ends without queueing its key.
IoPushNothing(c) ==
    /\ io[c] = "push"
    /\ io' = [io EXCEPT ![c] = "exited"]
    /\ UNCHANGED <<IoVars, done, conn, host, wire>>

IoPush(c) ==
    /\ io[c] = "push"
    /\ done' = done \cup {conn[c].key}
    /\ io' = [io EXCEPT ![c] = "exited"]
    /\ UNCHANGED <<IoVars, conn, host, wire>>

IoStep(c) == IoLoop(c) \/ IoReserve(c) \/ IoSend(c) \/ IoCheck(c) \/ IoFin(c) \/ IoPush(c)

(***************************************************************************)
(* An inbound port forward.  port_fwd_listen accepts a host connection     *)
(* and gives it to a thread of its own, with a new ephemeral port.         *)
(***************************************************************************)
FwdVars == <<done, cth, io, handler, host, guest>>

FwdAccept(k) ==
    /\ made < MaxConn
    /\ \A c \in Conns : conn[c].key # k
    /\ made' = made + 1
    /\ conn' = [conn EXCEPT ![made + 1].key = k, ![made + 1].fd = TRUE,
                            ![made + 1].hNxt = 1, ![made + 1].state = "SYNACK_SENT"]
    /\ fwd' = [fwd EXCEPT ![made + 1] = "insert"]
    /\ UNCHANGED <<FwdVars, conns, tries, wire>>

FwdInsert(c) ==
    /\ fwd[c] = "insert"
    /\ conns' = [conns EXCEPT ![conn[c].key] = IF @ = 0 THEN c ELSE @]
    /\ fwd' = [fwd EXCEPT ![c] = "syn"]
    /\ UNCHANGED <<FwdVars, made, conn, tries, wire>>

FwdSyn(c) ==
    /\ fwd[c] = "syn"
    /\ wire' = wire \cup {Seg(conn[c].key, "SYN", 0, 0)}
    /\ tries' = [tries EXCEPT ![c] = @ + 1]
    /\ fwd' = [fwd EXCEPT ![c] = "wait"]
    /\ UNCHANGED <<FwdVars, conns, made, conn>>

\* Mutant: one SYN too many.
FwdWaitOneMore(c) ==
    LET m == conns[conn[c].key] IN
    /\ fwd[c] = "wait"
    /\ fwd' = [fwd EXCEPT ![c] =
                  IF m = 0 \/ (m # 0 /\ conn[m].state # "SYNACK_SENT") THEN "exited"
                  ELSE IF tries[c] <= Attempts THEN "syn" ELSE "erase"]
    /\ UNCHANGED <<FwdVars, conns, made, conn, tries, wire>>

\* The sleep is over: give up waiting, or send the next SYN.
FwdWait(c) ==
    LET m == conns[conn[c].key] IN
    /\ fwd[c] = "wait"
    /\ fwd' = [fwd EXCEPT ![c] =
                  IF m = 0 \/ (m # 0 /\ conn[m].state # "SYNACK_SENT") THEN "exited"
                  ELSE IF tries[c] < Attempts THEN "syn" ELSE "erase"]
    /\ UNCHANGED <<FwdVars, conns, made, conn, tries, wire>>

FwdErase(c) ==
    /\ fwd[c] = "erase"
    /\ conns' = [conns EXCEPT ![conn[c].key] = 0]
    /\ fwd' = [fwd EXCEPT ![c] = "exited"]
    /\ UNCHANGED <<FwdVars, made, conn, tries, wire>>

FwdStep(c) == FwdInsert(c) \/ FwdSyn(c) \/ FwdWait(c) \/ FwdErase(c)

(***************************************************************************)
(* The host peer of a connection (external).                               *)
(***************************************************************************)
HostSend(c) ==
    /\ conn[c].fd /\ ~host[c].eof /\ host[c].sent < MaxHost
    /\ host' = [host EXCEPT ![c].sent = @ + 1]
    /\ UNCHANGED <<stackVars, guest, wire>>

HostClose(c) ==
    /\ conn[c].fd /\ ~host[c].eof
    /\ host' = [host EXCEPT ![c].eof = TRUE]
    /\ UNCHANGED <<stackVars, guest, wire>>

(***************************************************************************)
(* The guest's TCP (external).  What it sends goes through HandleTcp.      *)
(***************************************************************************)
Send(k, flag, seq) == HandleTcp(k, flag, seq, guest[k].rcv)

\* A new connection: the guest has drained its RX ring before it reuses a key.
GuestOpen(k) ==
    /\ k \in OutKeys
    /\ guest[k].st \in {"closed", "reset"}
    /\ guest[k].isn = 0 \/ Reopen
    /\ made < MaxConn
    /\ guest' = [guest EXCEPT ![k] = [st |-> "synSent", isn |-> (made + 1) * Stride,
                    nxt |-> (made + 1) * Stride + 1, rcv |-> 0, due |-> "none", got |-> <<>>, peerFin |-> FALSE]]
    /\ wire' = {s \in wire : s.key # k}
    /\ Send(k, "SYN", (made + 1) * Stride)
    /\ UNCHANGED host

\* A retransmission of the SYN or SYN|ACK, of a byte or of the FIN; the last
\* byte may go with the FIN.
GuestResend(k) ==
    /\ \/ guest[k].st = "synSent" /\ Send(k, "SYN", guest[k].isn)
       \/ guest[k].st = "synRcvd" /\ Send(k, "SYNACK", guest[k].isn)
       \/ /\ guest[k].st \in {"est", "finSent"}
          /\ \E n \in (guest[k].isn + 1)..(guest[k].nxt - 1) :
                Send(k, IF n = guest[k].nxt - 1 /\ guest[k].st = "finSent" THEN "FIN" ELSE "DATA", n)
       \/ /\ guest[k].st = "finSent" /\ guest[k].nxt > guest[k].isn + 2
          /\ Send(k, "DATAFIN", guest[k].nxt - 2)
    /\ UNCHANGED <<host, guest, wire>>

GuestAck(k) ==
    /\ guest[k].due # "none"
    /\ guest' = [guest EXCEPT ![k].due = "none"]
    /\ IF guest[k].due = "SYNACK" THEN Send(k, "SYNACK", guest[k].isn) ELSE Send(k, "ACK", guest[k].nxt)
    /\ UNCHANGED <<host, wire>>

GuestData(k) ==
    /\ guest[k].st = "est" /\ guest[k].due = "none"
    /\ guest[k].nxt <= guest[k].isn + MaxGuest
    /\ guest' = [guest EXCEPT ![k].nxt = @ + 1]
    /\ Send(k, "DATA", guest[k].nxt)
    /\ UNCHANGED <<host, wire>>

GuestFin(k) ==
    /\ guest[k].st = "est" /\ guest[k].due = "none"
    /\ guest' = [guest EXCEPT ![k].nxt = @ + 1, ![k].st = IF guest[k].peerFin THEN "closed" ELSE "finSent"]
    /\ Send(k, "FIN", guest[k].nxt)
    /\ UNCHANGED <<host, wire>>

\* The last byte and the FIN in one segment.
GuestDataFin(k) ==
    /\ guest[k].st = "est" /\ guest[k].due = "none"
    /\ guest[k].nxt <= guest[k].isn + MaxGuest
    /\ guest' = [guest EXCEPT ![k].nxt = @ + 2, ![k].st = IF guest[k].peerFin THEN "closed" ELSE "finSent"]
    /\ Send(k, "DATAFIN", guest[k].nxt)
    /\ UNCHANGED <<host, wire>>

GuestAbort(k) ==
    /\ guest[k].st \notin {"closed", "reset"}
    /\ guest' = [guest EXCEPT ![k].st = "closed", ![k].due = "none"]
    /\ Send(k, "RST", guest[k].nxt)
    /\ UNCHANGED <<host, wire>>

\* A segment is for this incarnation if it acknowledges something of it.
Acceptable(k, s) ==
    s.key = k /\ s.seq = guest[k].rcv /\ guest[k].isn < s.ack /\ s.ack <= guest[k].nxt

GuestReceive(k, s) ==
    /\ \/ /\ s.flag = "SYN" /\ s.key = k /\ guest[k].st = "closed" /\ k \in InKeys
          /\ guest' = [guest EXCEPT ![k] = [@ EXCEPT !.st = "synRcvd", !.isn = Stride,
                          !.nxt = Stride + 1, !.rcv = 1, !.due = "SYNACK"]]
       \/ /\ s.flag = "SYNACK" /\ guest[k].st = "synSent" /\ Acceptable(k, s)
          /\ guest' = [guest EXCEPT ![k].st = "est", ![k].rcv = 1, ![k].due = "ACK"]
       \/ /\ s.flag = "DATA" /\ guest[k].st \in {"synRcvd", "est", "finSent"} /\ Acceptable(k, s)
          /\ guest' = [guest EXCEPT ![k].st = IF @ = "synRcvd" THEN "est" ELSE @,
                          ![k].rcv = @ + 1, ![k].due = "ACK", ![k].got = Append(@, s.byte)]
       \/ /\ s.flag = "FIN" /\ guest[k].st \in {"synRcvd", "est", "finSent"} /\ Acceptable(k, s)
          /\ guest' = [guest EXCEPT ![k].st = IF @ = "finSent" THEN "closed" ELSE "est",
                          ![k].rcv = @ + 1, ![k].due = "ACK", ![k].peerFin = TRUE]
       \/ /\ s.flag = "ACK" /\ guest[k].st \in {"synRcvd", "est", "finSent"} /\ Acceptable(k, s)
          /\ guest' = [guest EXCEPT ![k].st = IF @ = "synRcvd" THEN "est" ELSE @]
       \/ /\ s.flag = "RST" /\ s.key = k /\ guest[k].st \notin {"closed", "reset"}
          /\ s.seq = guest[k].rcv
          /\ guest' = [guest EXCEPT ![k].st = "reset", ![k].due = "none"]
    /\ wire' = wire \ {s}
    /\ UNCHANGED <<stackVars, host>>

GuestStep(k) ==
    \/ GuestOpen(k) \/ GuestResend(k) \/ GuestAck(k)
    \/ GuestData(k) \/ GuestFin(k) \/ GuestDataFin(k) \/ GuestAbort(k)
    \/ \E s \in wire : GuestReceive(k, s)

\* virtio-net drops a frame when the RX ring has no buffer.
Lose(s) ==
    /\ Lossy
    /\ wire' = wire \ {s}
    /\ UNCHANGED <<stackVars, host, guest>>

Next ==
    \/ \E k \in Keys : GuestStep(k)
    \/ \E k \in InKeys : FwdAccept(k)
    \/ \E c \in Conns : ConnectStep(c) \/ IoStep(c) \/ FwdStep(c) \/ HostSend(c) \/ HostClose(c)
    \/ HandlerFinish
    \/ \E s \in wire : Lose(s)

Spec == Init /\ [][Next]_vars

(***************************************************************************)
(* The threads of the stack are scheduled, the guest reads its frames,     *)
(* answers them and repeats an unanswered SYN|ACK.  What else host and     *)
(* guest send is up to them.                                               *)
(***************************************************************************)
Fairness ==
    /\ \A c \in Conns : WF_vars(ConnectStep(c)) /\ WF_vars(IoStep(c)) /\ WF_vars(FwdStep(c))
    /\ WF_vars(HandlerFinish)
    /\ \A k \in Keys : SF_vars(GuestAck(k)) /\ WF_vars(\E s \in wire : GuestReceive(k, s))
    /\ \A k \in InKeys : SF_vars(GuestResend(k))

FairSpec == Spec /\ Fairness

-----------------------------------------------------------------------------
Mapped(c)   == \E k \in Keys : conns[k] = c
Released(c) ==
    /\ ~Mapped(c) /\ handler.c # c
    /\ \A thread \in {cth[c], io[c], fwd[c]} : thread \in {"none", "exited"}

(* Safety *)

\* Whatever the guest retransmits, alone or with its FIN, and whichever threads
\* run in between, the i-th byte handle_tcp writes to a host socket is the i-th
\* byte of one guest connection: none is repeated, skipped or taken from another
\* connection of the 4-tuple.  Only a write that fails leaves a hole, and the
\* guest is told that the byte has arrived (network.cpp:551, 561).
HostGetsPrefix ==
    \A c \in Conns : \A i \in DOMAIN host[c].got :
        host[c].got[i] \in {0, Stride * (conn[c].gNxt \div Stride) + i}

\* What a guest connection receives is a prefix of what the host peer of that
\* connection sent, although the stack gives every connection the same initial
\* sequence number and three threads draw sequence numbers from h_nxt.  It
\* holds for a guest that does not reuse a 4-tuple; see tcp_reuse.cfg.
GuestGetsPrefix ==
    \A k \in Keys : \A i \in DOMAIN guest[k].got :
        \E c \in Conns :
            /\ guest[k].got[i] = <<c, i>>
            /\ k \in OutKeys => conn[c].gNxt \div Stride = guest[k].isn \div Stride

\* A connection whose IO thread has ended does not stay in the table: its key
\* is queued for the next reaping.
EndedIsQueued ==
    \A k \in Keys : (conns[k] # 0 /\ io[conns[k]] = "exited") => k \in done

\* "Reap finished connections": the connection that handle_tcp takes out of the
\* table for a key in done_queue is one whose IO thread has ended.
ReapsFinished ==
    [][\A k \in done : (k \notin done' /\ conns[k] # 0) => io[conns[k]] = "exited"]_vars

\* "port forward to guest timed out": the connection a forward gives up is one
\* the guest has not answered.
TimesOutUnanswered ==
    [][\A c \in Conns : (fwd[c] = "erase" /\ fwd'[c] = "exited") => conn[c].state = "SYNACK_SENT"]_vars

\* The guest is not reset on an established connection it has neither closed
\* nor aborted.
NoResetOfOpen ==
    [][\A k \in OutKeys : guest[k].st = "est" => guest'[k].st # "reset"]_vars

(* Liveness *)

\* An earlier connection of the 4-tuple has ended or failed, and its key took
\* this one out of the table (see ReapsFinished): nothing tells its IO thread to
\* stop, and it goes on until the host closes.
Orphaned(c) ==
    /\ ~conn[c].stop /\ ~host[c].eof
    /\ \E b \in 1..(c - 1) : conn[b].key = conn[c].key /\ "exited" \in {cth[b], io[b]}

\* An outbound connection that is out of the table is let go by its threads,
\* which closes its host socket, unless a stale key of the 4-tuple took it out:
\* then its socket stays as long as the host keeps it.  (An inbound one stays too
\* when its forward timed out just as the guest answered: TimesOutUnanswered.)
UnmappedReleased ==
    \A c \in Conns :
        (c <= made /\ conn[c].key \in OutKeys /\ ~Mapped(c)) ~> (Released(c) \/ Orphaned(c))

\* An outbound connection the host has accepted gets past SYNACK_SENT or out
\* of the table, unless the stack's only SYN|ACK was lost on the way.
SynAckLost(k) ==
    guest[k].st = "synSent" /\ \A s \in wire : s.flag = "SYNACK" => ~Acceptable(k, s)
HandshakeEnds ==
    \A c \in Conns :
        (Mapped(c) /\ cth[c] = "synack")
            ~> \/ conn[c].state = "ESTABLISHED" \/ ~Mapped(c)
               \/ cth[c] = "exited" /\ SynAckLost(conn[c].key)

\* "injected into the guest via a synthetic TCP handshake": the guest's side of
\* a port forward does not stay half open.
InboundEstablishes ==
    \A k \in InKeys : (guest[k].st = "synRcvd") ~> (guest[k].st # "synRcvd")
=============================================================================
