----------------------------- MODULE TcpNatProofs -----------------------------
(***************************************************************************)
(* Proofs about TcpNat, for any 4-tuples and any number of connections,    *)
(* bytes and retries.  What the guest receives is proved for a guest that  *)
(* does not reuse a 4-tuple; with three connections on one it is false     *)
(* (see tcp_reuse.cfg).                                                    *)
(***************************************************************************)
EXTENDS TcpNat, SequenceTheorems, TLAPS

(***************************************************************************)
(* The inductive invariant for every guest: the table, the threads, and    *)
(* the guest's bytes on their way to the host.                             *)
(***************************************************************************)
NewConn == [key |-> "none", gNxt |-> 0, hNxt |-> 0, fd |-> FALSE,
            state |-> "CONNECTING", stop |-> FALSE]
NewHost == [sent |-> 0, read |-> 0, eof |-> FALSE, got |-> <<>>, seq |-> 0]

\* A TcpConn that has not been made yet.
FreshInv == \A c \in Conns : c > made =>
    /\ conn[c] = NewConn /\ host[c] = NewHost /\ tries[c] = 0
    /\ cth[c] = "none" /\ io[c] = "none" /\ fwd[c] = "none"

\* The table names connections that were made, each under its own key.
TableInv == \A k \in Keys : conns[k] # 0 => conns[k] <= made /\ conn[conns[k]].key = k

\* Which threads a connection has; FwdInsert comes before everything else.
ThreadInv == \A c \in Conns :
    /\ c <= made => conn[c].key \in Keys
    /\ fwd[c] # "none" => conn[c].key \in InKeys
    /\ cth[c] # "none" => conn[c].key \in OutKeys
    /\ io[c] # "none" <=> conn[c].state = "ESTABLISHED"
    /\ conn[c].state # "CONNECTING" => conn[c].fd
    /\ cth[c] \in {"connect", "fail"} => conn[c].state = "CONNECTING"
    /\ fwd[c] = "insert" => conns[conn[c].key] # c /\ io[c] = "none" /\ tries[c] = 0
    /\ fwd[c] = "syn" => tries[c] < Attempts

\* The initial sequence number of the guest's m-th connection.
Start(m) == m * Stride
Incs == 0..(MaxConn + 1)

\* What the guest has sent on its current connection.
Numbers(g, m) ==
    /\ g.isn = Start(m) /\ g.nxt \in g.isn..(g.isn + MaxGuest + 2)
    /\ g.st \in {"synSent", "synRcvd", "est"} => g.nxt \in (g.isn + 1)..(g.isn + MaxGuest + 1)
GuestInv == \A k \in Keys :
    /\ \E m \in Incs : Numbers(guest[k], m)
    /\ guest[k].st = "synSent" => k \in OutKeys

\* A byte taken from the guest and not written yet.
Pend(c) == handler.c = c /\ handler.data # 0

\* The connection is out of the table for good.
Left(c) == conns[conn[c].key] # c /\ fwd[c] # "insert"

\* What was written to the host is what the guest sent on its m-th connection,
\* with a hole for each failed write, and g_nxt is behind it: behind the byte in
\* hand and behind the FIN.
OutStream(c, m) ==
    LET n == Len(host[c].got) + (IF Pend(c) THEN 1 ELSE 0) IN
    /\ \A i \in 1..Len(host[c].got) : host[c].got[i] \in {0, Start(m) + i}
    /\ n <= MaxGuest
    /\ conn[c].gNxt = Start(m) + 1 + n \/ (Left(c) /\ conn[c].gNxt = Start(m) + 2 + n)
    /\ Pend(c) => handler.data = Start(m) + n

\* An injected connection never learns the guest's sequence number.
InStream(c) ==
    /\ host[c].got = <<>> /\ ~Pend(c)
    /\ conn[c].gNxt = 0 \/ (Left(c) /\ conn[c].gNxt = 1)

Stream(c) ==
    /\ conn[c].key \in OutKeys => \E m \in Incs : OutStream(c, m)
    /\ conn[c].key \notin OutKeys => InStream(c)

StreamInv == \A c \in 1..made : Stream(c)

HandlerInv ==
    /\ handler.pc = "idle" => handler = Idle
    /\ handler.pc = "finish" => handler.key \in Keys /\ handler.reply # "none"
    /\ handler.data # 0 => /\ handler.c \in Conns /\ conn[handler.c].key \in OutKeys
                           /\ conn[handler.c].fd

IndInv ==
    /\ TypeOK /\ FreshInv /\ TableInv /\ ThreadInv /\ EndedIsQueued
    /\ GuestInv /\ HandlerInv /\ StreamInv

(***************************************************************************)
(* The invariant of the guest's side of a 4-tuple k it opens, when it does *)
(* not open it a second time.                                              *)
(***************************************************************************)
\* Its connect thread gave up.
Dead(c) == cth[c] = "exited" /\ conn[c].state = "CONNECTING"
\* Its SYN|ACK was sent.
Shaken(c) == cth[c] = "exited" /\ conn[c].state # "CONNECTING"
Of(k) == {c \in Conns : conn[c].key = k}

\* At most one connection of a key is alive, and it is the one that sent the
\* SYN|ACK the guest answered.
AliveInv(k) ==
    /\ guest[k].isn = 0 => guest[k].st = "closed" /\ Of(k) = {}
    /\ \A c \in Of(k) : conn[c].gNxt \in (guest[k].isn + 1)..(guest[k].isn + MaxGuest + 2)
    /\ \A c, d \in Of(k) : Dead(c) \/ Dead(d) \/ c = d
    /\ \A c \in Of(k) : /\ cth[c] # "none" /\ (io[c] # "none" => cth[c] = "exited")
                        /\ cth[c] = "synack" => conn[c].state # "CONNECTING"
    /\ guest[k].st # "synRcvd" /\ guest[k].due # "SYNACK"
OpenInv(k) ==
    /\ guest[k].st = "synSent" =>
          /\ k \notin done /\ guest[k].due = "none" /\ guest[k].got = <<>> /\ ~guest[k].peerFin
          /\ \A c \in Of(k) : Dead(c) \/ (conns[k] = c /\ io[c] = "none")
    /\ guest[k].st \in {"est", "finSent"} \/ guest[k].due # "none" => \E c \in Of(k) : Shaken(c)
    /\ \A s \in wire : s.key = k /\ s.flag = "SYNACK" => \E c \in Of(k) : Shaken(c)

\* The sequence numbers drawn from h_nxt are one ahead of the bytes read, but
\* when the FIN of the handler got in between.
Exact(c) ==
    /\ io[c] = "reserve" => conn[c].hNxt = host[c].read
    /\ io[c] = "send" => host[c].seq = host[c].read /\ conn[c].hNxt = host[c].read + 1
    /\ io[c] \in {"loop", "check", "fin"} => conn[c].hNxt = host[c].read + 1
Over(c) ==
    /\ io[c] = "reserve" => conn[c].hNxt = host[c].read + 1
    /\ io[c] = "send" => host[c].seq \in {host[c].read, host[c].read + 1}
DrawInv(k) == \A c \in Of(k) :
    /\ io[c] = "none" => host[c].read = 0 /\ conn[c].hNxt = (IF Shaken(c) THEN 1 ELSE 0)
    /\ io[c] # "none" =>
          \/ Exact(c)
          \/ Over(c) /\ conn[c].stop /\ conns[k] # c /\ guest[k].st \notin {"synSent", "est"}

\* A byte on the wire has its own number, or the next one if the FIN took it,
\* and then the guest does not have it and never will.
Data(s, k) == s.key = k /\ s.flag = "DATA"
WireInv(k) ==
    /\ \A s \in wire : Data(s, k) =>
          \E c \in Of(k) : \E j \in 1..host[c].read :
             /\ io[c] # "none" /\ s.byte = <<c, j>>
             /\ s.seq = j \/ (s.seq = j + 1 /\ Len(guest[k].got) < j)
    /\ \A s, t \in wire : Data(s, k) /\ Data(t, k) /\ s.byte = t.byte => s.seq = t.seq
    /\ \A c \in Of(k) : io[c] # "none" => Len(guest[k].got) <= host[c].read
    /\ \A c \in Of(k) : io[c] \in {"reserve", "send"} =>
          /\ Len(guest[k].got) < host[c].read
          /\ \A s \in wire : Data(s, k) => s.byte # <<c, host[c].read>>

\* The guest's place in the stream.
PlaceInv(k) ==
    /\ \A i \in 1..Len(guest[k].got) : \E c \in Of(k) : io[c] # "none" /\ guest[k].got[i] = <<c, i>>
    /\ guest[k].st = "finSent" => ~guest[k].peerFin
    /\ guest[k].st \in {"est", "finSent"} /\ ~guest[k].peerFin =>
          guest[k].rcv = Len(guest[k].got) + 1
    /\ guest[k].st = "est" /\ guest[k].peerFin =>
          \E c \in Of(k) : io[c] \in {"push", "exited"} /\ guest[k].rcv > host[c].read + 1

\* The guest learns of the end of the stream from a FIN of the IO thread, or
\* it has sent one itself.
FinInv(k) == guest[k].st \in {"synSent", "est"} =>
    /\ \A s \in wire : s.key = k /\ s.flag = "FIN" =>
          \E c \in Of(k) : io[c] \in {"push", "exited"} /\ s.seq > host[c].read
    /\ ~(handler.reply = "FIN" /\ handler.key = k)

KeyInv(k) == AliveInv(k) /\ OpenInv(k) /\ DrawInv(k) /\ WireInv(k) /\ PlaceInv(k) /\ FinInv(k)

\* The guest's side of an injected connection gets no further than synRcvd.
InboundInv(k) ==
    /\ guest[k].got = <<>> /\ guest[k].st \in {"closed", "synRcvd", "reset"}
    /\ guest[k].st = "synRcvd" => guest[k].isn = Stride
    /\ \A s \in wire : s.key = k => s.ack <= 1
    /\ handler.key = k => handler.ack <= 1

GuestSideInv == (\A k \in OutKeys : KeyInv(k)) /\ (\A k \in InKeys : InboundInv(k))

-----------------------------------------------------------------------------
(***************************************************************************)
(* Sequence numbers.                                                       *)
(***************************************************************************)
LEMMA StrideFacts == MaxGuest \in Nat /\ Stride \in Nat /\ Stride = MaxGuest + 3 /\ MaxConn \in Nat
  BY NatAssumption DEF Stride

\* Initial sequence numbers are numbers, and the first ones are 0 and Stride.
LEMMA StartFacts == Start(0) = 0 /\ Start(1) = Stride /\ \A m \in Incs : Start(m) \in Nat
<1>1. ASSUME NEW m \in Nat PROVE m * Stride \in Nat
  BY StrideFacts, SMT
<1>2. Incs \subseteq Nat
  BY StrideFacts DEF Incs
<1> QED BY <1>1, <1>2, StrideFacts DEF Start

\* Two connections of the guest have no sequence number in common.
LEMMA StartApart ==
    ASSUME NEW m \in Incs, NEW n \in Incs, NEW x \in Nat,
           Start(m) <= x, x < Start(m) + Stride, Start(n) <= x, x < Start(n) + Stride
    PROVE  m = n
<1>1. m \in Nat /\ n \in Nat
  BY StrideFacts DEF Incs
<1>2. ASSUME NEW a \in Nat, NEW b \in Nat, a < b PROVE a * Stride + Stride <= b * Stride
  <2>1. PICK d \in Nat : b = a + 1 + d
    <3>1. b - a - 1 \in Nat /\ b = a + 1 + (b - a - 1)
      BY <1>2
    <3> QED BY <3>1
  <2>2. (a + 1 + d) * Stride = a * Stride + Stride + d * Stride
    BY StrideFacts, SMT
  <2>3. d * Stride \in Nat /\ a * Stride \in Nat
    BY StrideFacts, SMT
  <2> QED BY <2>1, <2>2, <2>3, StrideFacts
<1>3. Start(m) \in Nat /\ Start(n) \in Nat
  BY StartFacts
<1>4. ~(m < n) /\ ~(n < m)
  BY <1>1, <1>2, <1>3, StrideFacts DEF Start
<1> QED BY <1>1, <1>4

\* The quotient names the connection.
LEMMA StartDiv ==
    ASSUME NEW m \in Incs, NEW x \in Nat, Start(m) <= x, x < Start(m) + Stride
    PROVE  x \div Stride = m /\ Stride * (x \div Stride) = Start(m)
<1>1. m \in Nat /\ Stride \in Nat \ {0}
  BY StrideFacts DEF Incs
<1>2. ASSUME NEW q \in Nat, NEW r \in 0..(Stride - 1) PROVE (Stride * q + r) \div Stride = q
  BY <1>1, <1>2, SMT
<1>3. Start(m) = Stride * m /\ Start(m) \in Nat
  BY <1>1, StartFacts, SMT DEF Start
<1>4. x - Start(m) \in 0..(Stride - 1) /\ x = Start(m) + (x - Start(m))
  BY <1>1, <1>3
<1>5. x \div Stride = m
  BY <1>1, <1>2, <1>3, <1>4
<1> QED BY <1>3, <1>5

-----------------------------------------------------------------------------
(***************************************************************************)
(* What handle_tcp does to the table and to the connections.               *)
(***************************************************************************)
Records  == [key : Keys \cup {"none"}, gNxt : Nat, hNxt : Nat, fd : BOOLEAN,
             state : {"CONNECTING", "SYNACK_SENT", "ESTABLISHED"}, stop : BOOLEAN]
Handlers == [pc : {"idle", "finish"}, c : 0..MaxConn, data : Nat,
             reply : {"none", "ACK", "FIN", "RST"}, key : Keys \cup {"none"},
             seq : Nat, ack : Nat]
Refusal(k, ack) == [Idle EXCEPT !.pc = "finish", !.reply = "RST", !.key = k, !.seq = ack]

\* The segment is dropped or refused.
Ignores(k, ack) ==
    /\ conns' = Reaped /\ handler' \in {Idle, Refusal(k, ack)}
    /\ UNCHANGED <<made, conn, cth, io>>
\* A new connection.
Opens(k, seq) ==
    /\ Reaped[k] = 0 /\ made < MaxConn /\ made' = made + 1
    /\ conns' = [Reaped EXCEPT ![k] = made + 1]
    /\ conn' = [conn EXCEPT ![made + 1] = [@ EXCEPT !.key = k, !.gNxt = seq + 1]]
    /\ cth' = [cth EXCEPT ![made + 1] = "connect"]
    /\ io' = io /\ handler' = Idle
Aborts(k, c) ==
    /\ conns' = [Reaped EXCEPT ![k] = 0]
    /\ conn' = [conn EXCEPT ![c] = [@ EXCEPT !.stop = TRUE]]
    /\ handler' = Idle /\ UNCHANGED <<made, cth, io>>
Establishes(c) ==
    /\ conn[c].state = "SYNACK_SENT"
    /\ conns' = Reaped
    /\ conn' = [conn EXCEPT ![c] = [@ EXCEPT !.state = "ESTABLISHED"]]
    /\ io' = [io EXCEPT ![c] = "loop"]
    /\ handler' = Idle /\ UNCHANGED <<made, cth>>
\* The next byte.
Takes(k, c, seq) ==
    /\ conn[c].state = "ESTABLISHED" /\ seq = conn[c].gNxt
    /\ conns' = Reaped
    /\ conn' = [conn EXCEPT ![c] = [@ EXCEPT !.gNxt = seq + 1]]
    /\ handler' = [pc |-> "finish", c |-> c, data |-> seq, reply |-> "ACK", key |-> k,
                   seq |-> conn[c].hNxt, ack |-> seq + 1]
    /\ UNCHANGED <<made, cth, io>>
Ends(k, c) ==
    /\ conn[c].state = "ESTABLISHED"
    /\ conns' = [Reaped EXCEPT ![k] = 0]
    /\ conn' = [conn EXCEPT ![c] = [@ EXCEPT !.gNxt = conn[c].gNxt + 1,
                                         !.hNxt = conn[c].hNxt + 1, !.stop = TRUE]]
    /\ handler' = [pc |-> "finish", c |-> c, data |-> 0, reply |-> "FIN", key |-> k,
                   seq |-> conn[c].hNxt, ack |-> conn[c].gNxt + 1]
    /\ UNCHANGED <<made, cth, io>>
\* The next byte and the FIN.
Finishes(k, c, seq) ==
    /\ conn[c].state = "ESTABLISHED" /\ seq = conn[c].gNxt
    /\ conns' = [Reaped EXCEPT ![k] = 0]
    /\ conn' = [conn EXCEPT ![c] = [@ EXCEPT !.gNxt = seq + 2,
                                         !.hNxt = conn[c].hNxt + 1, !.stop = TRUE]]
    /\ handler' = [pc |-> "finish", c |-> c, data |-> seq, reply |-> "FIN", key |-> k,
                   seq |-> conn[c].hNxt, ack |-> seq + 2]
    /\ UNCHANGED <<made, cth, io>>

\* The outcomes of handle_tcp.
Handles(k, flag, seq, ack) ==
    /\ handler = Idle /\ done' = {} /\ fwd' = fwd /\ tries' = tries
    /\ \/ Ignores(k, ack)
       \/ flag = "SYN" /\ Opens(k, seq)
       \/ /\ flag # "SYN" /\ Reaped[k] # 0 /\ Reaped[k] = conns[k] /\ conns[k] \in 1..made
          /\ \/ flag = "RST" /\ Aborts(k, conns[k])
             \/ flag # "RST" /\ Establishes(conns[k])
             \/ flag = "DATA" /\ Takes(k, conns[k], seq)
             \/ flag \in Fins /\ Ends(k, conns[k])
             \/ flag = "DATAFIN" /\ Finishes(k, conns[k], seq)

Assigned(f, c, g, h, b) == [f EXCEPT ![c].gNxt = g, ![c].hNxt = h, ![c].stop = b]

\* Assigning a connection the values it has.
LEMMA AssignNone ==
    ASSUME NEW f \in [Conns -> Records], NEW c \in Conns
    PROVE  Assigned(f, c, f[c].gNxt, f[c].hNxt, f[c].stop) = f
<1> DEFINE r == f[c]
<1>1. [r EXCEPT !.gNxt = r.gNxt, !.hNxt = r.hNxt, !.stop = r.stop] = r
  BY DEF Records
<1>2. Assigned(f, c, r.gNxt, r.hNxt, r.stop)
        = [f EXCEPT ![c] = [r EXCEPT !.gNxt = r.gNxt, !.hNxt = r.hNxt, !.stop = r.stop]]
  BY DEF Assigned
<1> QED BY <1>1, <1>2

LEMMA HandleCases ==
    ASSUME TypeOK, TableInv, HandlerInv, NEW k \in Keys, NEW flag \in Flags, NEW seq \in Nat,
           NEW ack \in Nat, HandleTcp(k, flag, seq, ack)
    PROVE  Handles(k, flag, seq, ack)
<1>1. handler = Idle /\ done' = {} /\ fwd' = fwd /\ tries' = tries
  BY DEF HandleTcp, HandlerInv
<1> DEFINE c == Reaped[k]
<1>2. /\ conn \in [Conns -> Records] /\ conns \in [Keys -> 0..MaxConn] /\ made \in 0..MaxConn
      /\ MaxConn \in Nat
  BY StrideFacts DEF TypeOK, Records
<1>3. c # 0 => c = conns[k] /\ c \in 1..made /\ c \in Conns
  BY <1>2 DEF Reaped, TableInv, Conns
<1>4. CASE flag = "SYN"
  <2>1. OnSyn(k, seq)
    BY <1>4 DEF HandleTcp
  <2>2. CASE c # 0
    BY <1>1, <2>1, <2>2 DEF OnSyn, Reap, Ignores, Handles
  <2>3. CASE c = 0
    <3>1. Opens(k, seq)
      BY <1>1, <2>1, <2>3 DEF OnSyn, Opens
    <3> QED BY <1>1, <1>4, <3>1 DEF Handles
  <2> QED BY <2>2, <2>3
<1>5. CASE flag # "SYN" /\ c = 0
  <2>1. OnUnknown(k, flag, ack)
    BY <1>5 DEF HandleTcp
  <2> QED BY <1>1, <2>1 DEF OnUnknown, Ignores, Refusal, Handles
<1>6. CASE flag = "RST" /\ c # 0
  <2>1. OnRst(k, c)
    BY <1>6 DEF HandleTcp
  <2>2. Aborts(k, c)
    BY <1>1, <2>1 DEF OnRst, Aborts
  <2> QED BY <1>1, <1>3, <1>6, <2>2 DEF Handles
<1>7. CASE flag \notin {"SYN", "RST"} /\ c # 0
  <2> HIDE DEF c
  <2>1. conn[c].state \in {"CONNECTING", "SYNACK_SENT", "ESTABLISHED"} /\ conn[c] \in Records
    BY <1>2, <1>3, <1>7 DEF Records
  <2>2. CASE conn[c].state = "SYNACK_SENT"
    <3>1. OnHandshakeAck(c)
      BY <1>7, <2>2 DEF HandleTcp, c
    <3>2. Establishes(c)
      BY <1>1, <2>2, <3>1 DEF OnHandshakeAck, Establishes
    <3> QED BY <1>1, <1>3, <1>7, <3>2 DEF Handles, c
  <2>3. CASE conn[c].state = "CONNECTING"
    <3>1. Reap
      BY <1>7, <2>3 DEF HandleTcp, c
    <3> QED BY <1>1, <3>1 DEF Reap, Ignores, Handles
  <2>4. CASE conn[c].state = "ESTABLISHED"
    <3>1. OnEstablished(k, c, flag, seq)
      BY <1>7, <2>4 DEF HandleTcp, c
    <3> DEFINE fresh == flag \in Datas /\ seq = conn[c].gNxt
               fin   == flag \in Fins
               g == conn[c].gNxt + (IF fresh THEN 1 ELSE 0) + (IF fin THEN 1 ELSE 0)
               h == IF fin THEN conn[c].hNxt + 1 ELSE conn[c].hNxt
    <3>a. /\ conns' = IF fin THEN [Reaped EXCEPT ![k] = 0] ELSE Reaped
          /\ conn' = Assigned(conn, c, g, h, conn[c].stop \/ fin)
          /\ handler' = IF fresh \/ fin
                        THEN [pc |-> "finish", c |-> c, data |-> IF fresh THEN seq ELSE 0,
                              reply |-> IF fin THEN "FIN" ELSE "ACK", key |-> k,
                              seq |-> conn[c].hNxt, ack |-> g]
                        ELSE Idle
          /\ UNCHANGED <<made, cth, io>>
      BY <1>3, <1>7, <1>2, <3>1 DEF OnEstablished, Assigned
    <3>b. /\ c \in Conns /\ conn \in [Conns -> Records]
          /\ conn[c].gNxt \in Nat /\ conn[c].hNxt \in Nat /\ conn[c].stop \in BOOLEAN
          /\ conn[c].gNxt + 1 \in Nat /\ conn[c].hNxt + 1 \in Nat /\ seq + 2 \in Nat
      BY <1>2, <1>3, <1>7, <2>1 DEF Records
    <3>2. CASE fin /\ ~fresh
      <4>0. g = conn[c].gNxt + 1 /\ h = conn[c].hNxt + 1 /\ (conn[c].stop \/ fin) = TRUE
        BY <3>2, <3>b
      <4>1. conn' = Assigned(conn, c, conn[c].gNxt + 1, conn[c].hNxt + 1, TRUE)
        BY <3>a, <4>0
      <4>2. Ends(k, c)
        <5>1. conn' = [conn EXCEPT ![c] = [conn[c] EXCEPT !.gNxt = conn[c].gNxt + 1,
                                             !.hNxt = conn[c].hNxt + 1, !.stop = TRUE]]
          <6> DEFINE g1 == conn[c].gNxt + 1
                     h1 == conn[c].hNxt + 1
          <6>1. g1 \in Nat /\ h1 \in Nat /\ conn' = Assigned(conn, c, g1, h1, TRUE)
            BY <3>b, <4>1
          <6> HIDE DEF g1, h1
          <6>2. conn' = [conn EXCEPT ![c] = [conn[c] EXCEPT !.gNxt = g1, !.hNxt = h1, !.stop = TRUE]]
            BY <3>b, <6>1 DEF Assigned, Records
          <6> QED BY <6>2 DEF g1, h1
        <5>2. handler' = [pc |-> "finish", c |-> c, data |-> 0, reply |-> "FIN", key |-> k,
                          seq |-> conn[c].hNxt, ack |-> conn[c].gNxt + 1]
          BY <3>2, <3>a, <4>0
        <5> QED BY <2>4, <3>2, <3>a, <5>1, <5>2 DEF Ends
      <4> QED BY <1>1, <1>3, <1>7, <3>2, <4>2 DEF Handles, c
    <3>3. CASE fresh /\ ~fin
      <4>1. conn' = Assigned(conn, c, conn[c].gNxt + 1, conn[c].hNxt, conn[c].stop) /\ flag = "DATA"
        BY <3>3, <3>a, <3>b DEF Fins, Datas
      <4>2. Takes(k, c, seq)
        <5>1. conn' = [conn EXCEPT ![c] = [conn[c] EXCEPT !.gNxt = seq + 1]]
          <6> DEFINE g1 == seq + 1
          <6>1. g1 \in Nat /\ conn' = Assigned(conn, c, g1, conn[c].hNxt, conn[c].stop)
            BY <3>3, <3>b, <4>1
          <6> HIDE DEF g1
          <6>2. conn' = [conn EXCEPT ![c] = [conn[c] EXCEPT !.gNxt = g1]]
            BY <3>b, <6>1 DEF Assigned, Records
          <6> QED BY <6>2 DEF g1
        <5>2. handler' = [pc |-> "finish", c |-> c, data |-> seq, reply |-> "ACK", key |-> k,
                          seq |-> conn[c].hNxt, ack |-> seq + 1]
          BY <3>3, <3>a, <4>1
        <5> QED BY <2>4, <3>3, <3>a, <4>1, <5>1, <5>2 DEF Takes
      <4> QED BY <1>1, <1>3, <1>7, <4>1, <4>2 DEF Handles, c
    <3>4. CASE ~fin /\ ~fresh
      <4>1. conn' = Assigned(conn, c, conn[c].gNxt, conn[c].hNxt, conn[c].stop)
        BY <3>4, <3>a, <3>b
      <4>2. Ignores(k, ack)
        BY <3>4, <3>a, <3>b, <4>1, AssignNone DEF Ignores
      <4> QED BY <1>1, <4>2 DEF Handles
    <3>5. CASE fin /\ fresh
      <4>0. g = seq + 2 /\ flag = "DATAFIN"
        BY <3>5, <3>b DEF Fins, Datas
      <4>1. conn' = Assigned(conn, c, seq + 2, conn[c].hNxt + 1, TRUE)
        BY <3>5, <3>a, <3>b, <4>0
      <4>2. Finishes(k, c, seq)
        <5>1. conn' = [conn EXCEPT ![c] = [conn[c] EXCEPT !.gNxt = seq + 2,
                                             !.hNxt = conn[c].hNxt + 1, !.stop = TRUE]]
          <6> DEFINE g1 == seq + 2
                     h1 == conn[c].hNxt + 1
          <6>1. g1 \in Nat /\ h1 \in Nat /\ conn' = Assigned(conn, c, g1, h1, TRUE)
            BY <3>b, <4>1
          <6> HIDE DEF g1, h1
          <6>2. conn' = [conn EXCEPT ![c] = [conn[c] EXCEPT !.gNxt = g1, !.hNxt = h1, !.stop = TRUE]]
            BY <3>b, <6>1 DEF Assigned, Records
          <6> QED BY <6>2 DEF g1, h1
        <5>2. handler' = [pc |-> "finish", c |-> c, data |-> seq, reply |-> "FIN", key |-> k,
                          seq |-> conn[c].hNxt, ack |-> seq + 2]
          BY <3>5, <3>a, <4>0
        <5> QED BY <2>4, <3>5, <3>a, <5>1, <5>2 DEF Finishes
      <4> QED BY <1>1, <1>3, <1>7, <4>0, <4>2 DEF Handles, c
    <3> QED BY <3>2, <3>3, <3>4, <3>5
  <2> QED BY <2>1, <2>2, <2>3, <2>4
<1> QED BY <1>4, <1>5, <1>6, <1>7

-----------------------------------------------------------------------------
(***************************************************************************)
(* The parts of TypeOK that belong to the stack, the host and the guest.   *)
(***************************************************************************)
HostRecs  == [sent : 0..MaxHost, read : 0..MaxHost, eof : BOOLEAN, got : Seq(Nat), seq : Nat]
GuestRecs == [st : {"closed", "synSent", "synRcvd", "est", "finSent", "reset"},
              isn : Nat, nxt : Nat, rcv : Nat, due : {"none", "ACK", "SYNACK"},
              got : Seq((0..MaxConn) \X (0..MaxHost)), peerFin : BOOLEAN]
CthPcs == {"none", "connect", "synack", "fail", "exited"}
IoPcs  == {"none", "loop", "reserve", "send", "check", "fin", "push", "exited"}
FwdPcs == {"none", "insert", "syn", "wait", "erase", "exited"}

TableType  == conns \in [Keys -> 0..MaxConn] /\ done \subseteq Keys /\ made \in 0..MaxConn
ThreadType == /\ cth \in [Conns -> CthPcs] /\ io \in [Conns -> IoPcs]
              /\ fwd \in [Conns -> FwdPcs] /\ tries \in [Conns -> 0..Attempts]
StackType  == TableType /\ conn \in [Conns -> Records] /\ ThreadType /\ handler \in Handlers

LEMMA TypeParts ==
    TypeOK <=> /\ StackType /\ host \in [Conns -> HostRecs]
               /\ guest \in [Keys -> GuestRecs] /\ wire \subseteq Segments
  BY DEF TypeOK, StackType, TableType, ThreadType, Records, Handlers, HostRecs, GuestRecs,
         CthPcs, IoPcs, FwdPcs

LEMMA TypePartsNext ==
    ASSUME StackType', (host \in [Conns -> HostRecs])', (guest \in [Keys -> GuestRecs])',
           (wire \subseteq Segments)'
    PROVE  TypeOK'
  BY DEF TypeOK, StackType, TableType, ThreadType, Records, Handlers, HostRecs, GuestRecs,
         CthPcs, IoPcs, FwdPcs

\* Idle and an RST are handler records.
LEMMA HandlerRecs ==
    /\ Idle \in Handlers /\ Idle.pc = "idle" /\ Idle.data = 0 /\ Idle.c = 0
    /\ \A k \in Keys, ack \in Nat :
          /\ Refusal(k, ack) \in Handlers /\ Refusal(k, ack).data = 0
          /\ Refusal(k, ack).pc = "finish" /\ Refusal(k, ack).reply = "RST"
          /\ Refusal(k, ack).key = k /\ Refusal(k, ack).ack = 0
<1>1. Idle \in Handlers /\ Idle.pc = "idle" /\ Idle.data = 0 /\ Idle.c = 0
  BY StrideFacts DEF Idle, Handlers
<1>2. ASSUME NEW k \in Keys, NEW ack \in Nat
      PROVE  /\ Refusal(k, ack) \in Handlers /\ Refusal(k, ack).data = 0
             /\ Refusal(k, ack).pc = "finish" /\ Refusal(k, ack).reply = "RST"
             /\ Refusal(k, ack).key = k /\ Refusal(k, ack).ack = 0
  <2>1. ASSUME NEW r \in Handlers
        PROVE  LET e == [r EXCEPT !.pc = "finish", !.reply = "RST", !.key = k, !.seq = ack]
               IN /\ e \in Handlers /\ e.data = r.data /\ e.ack = r.ack
                  /\ e.pc = "finish" /\ e.reply = "RST" /\ e.key = k
    BY DEF Handlers
  <2>2. Idle.data = 0 /\ Idle.ack = 0
    BY DEF Idle
  <2> QED BY <1>1, <2>1, <2>2 DEF Refusal
<1> QED BY <1>1, <1>2

\* Assignments keep a record a record.
LEMMA RecordPut ==
    ASSUME NEW r \in Records, NEW g \in Nat, NEW h \in Nat, NEW k \in Keys
    PROVE  /\ [r EXCEPT !.stop = TRUE] \in Records
           /\ [r EXCEPT !.state = "ESTABLISHED"] \in Records
           /\ [r EXCEPT !.gNxt = g] \in Records
           /\ [r EXCEPT !.hNxt = g] \in Records
           /\ [r EXCEPT !.key = k, !.gNxt = g] \in Records
           /\ [r EXCEPT !.gNxt = g, !.hNxt = h, !.stop = TRUE] \in Records
           /\ [r EXCEPT !.fd = TRUE, !.state = "SYNACK_SENT"] \in Records
           /\ [r EXCEPT !.key = k, !.fd = TRUE, !.hNxt = 1, !.state = "SYNACK_SENT"] \in Records
<1>1. [r EXCEPT !.stop = TRUE] \in Records
  BY DEF Records
<1>2. [r EXCEPT !.state = "ESTABLISHED"] \in Records
  BY DEF Records
<1>3. [r EXCEPT !.gNxt = g] \in Records
  BY DEF Records
<1>4. [r EXCEPT !.hNxt = g] \in Records
  BY DEF Records
<1>5. [r EXCEPT !.key = k, !.gNxt = g] \in Records
  BY DEF Records
<1>6. [r EXCEPT !.gNxt = g, !.hNxt = h, !.stop = TRUE] \in Records
  BY DEF Records
<1>7. [r EXCEPT !.fd = TRUE, !.state = "SYNACK_SENT"] \in Records
  BY DEF Records
<1>8. [r EXCEPT !.key = k, !.fd = TRUE, !.hNxt = 1, !.state = "SYNACK_SENT"] \in Records
  BY DEF Records
<1> QED BY <1>1, <1>2, <1>3, <1>4, <1>5, <1>6, <1>7, <1>8

LEMMA HandleType ==
    ASSUME StackType, NEW k \in Keys, NEW flag \in Flags, NEW seq \in Nat, NEW ack \in Nat,
           Handles(k, flag, seq, ack)
    PROVE  StackType'
<1> USE StrideFacts
<1>1. Reaped \in [Keys -> 0..MaxConn] /\ [Reaped EXCEPT ![k] = 0] \in [Keys -> 0..MaxConn]
  BY DEF Reaped, StackType, TableType
<1>2. made \in 0..MaxConn /\ conn \in [Conns -> Records] /\ fwd' = fwd /\ tries' = tries
  BY DEF StackType, TableType, Handles
<1>3. done' \subseteq Keys /\ (fwd \in [Conns -> FwdPcs])' /\ (tries \in [Conns -> 0..Attempts])'
  BY DEF StackType, TableType, ThreadType, Handles
<1>4. CASE Ignores(k, ack)
  BY <1>1, <1>2, <1>3, <1>4, HandlerRecs DEF Ignores, StackType, TableType, ThreadType
<1>5. CASE Opens(k, seq)
  <2>1. made + 1 \in 1..MaxConn /\ made + 1 \in Conns
    BY <1>2, <1>5 DEF Opens, Conns
  <2>2. TableType'
    BY <1>1, <1>3, <1>5, <2>1 DEF Opens, TableType
  <2>3. [conn[made + 1] EXCEPT !.key = k, !.gNxt = seq + 1] \in Records
    <3> DEFINE r == conn[made + 1]
               g == seq + 1
    <3>1. r \in Records /\ g \in Nat
      BY <1>2, <2>1
    <3> HIDE DEF r, g
    <3>2. [r EXCEPT !.key = k, !.gNxt = g] \in Records
      BY <3>1, RecordPut
    <3> QED BY <3>2 DEF r, g
  <2>4. conn' \in [Conns -> Records]
    BY <1>2, <1>5, <2>1, <2>3 DEF Opens
  <2>5. ThreadType'
    BY <1>2, <1>3, <1>5, <2>1 DEF Opens, ThreadType, StackType, CthPcs
  <2> QED BY <1>5, <2>2, <2>4, <2>5, HandlerRecs DEF Opens, StackType
<1>6. ASSUME NEW c \in 1..made, c = conns[k],
             \/ Aborts(k, c) \/ Establishes(c) \/ Takes(k, c, seq) \/ Ends(k, c)
             \/ Finishes(k, c, seq)
      PROVE  StackType'
  <2>1. c \in Conns /\ c \in 0..MaxConn /\ conn[c] \in Records
    BY <1>2 DEF Conns
  <2>2. TableType'
    BY <1>1, <1>3, <1>6 DEF Aborts, Establishes, Takes, Ends, Finishes, TableType, StackType
  <2>3. conn' \in [Conns -> Records]
    <3>1. /\ [conn[c] EXCEPT !.stop = TRUE] \in Records
          /\ [conn[c] EXCEPT !.state = "ESTABLISHED"] \in Records
          /\ [conn[c] EXCEPT !.gNxt = seq + 1] \in Records
          /\ [conn[c] EXCEPT !.gNxt = conn[c].gNxt + 1, !.hNxt = conn[c].hNxt + 1, !.stop = TRUE]
                \in Records
          /\ [conn[c] EXCEPT !.gNxt = seq + 2, !.hNxt = conn[c].hNxt + 1, !.stop = TRUE] \in Records
      <4> DEFINE r == conn[c]
                 a == seq + 1
                 b == seq + 2
                 g == conn[c].gNxt + 1
                 h == conn[c].hNxt + 1
      <4>1. r \in Records /\ g \in Nat /\ h \in Nat /\ a \in Nat /\ b \in Nat
        BY <2>1 DEF Records
      <4> HIDE DEF r, a, b, g, h
      <4>2. /\ [r EXCEPT !.stop = TRUE] \in Records /\ [r EXCEPT !.state = "ESTABLISHED"] \in Records
            /\ [r EXCEPT !.gNxt = a] \in Records
            /\ [r EXCEPT !.gNxt = g, !.hNxt = h, !.stop = TRUE] \in Records
            /\ [r EXCEPT !.gNxt = b, !.hNxt = h, !.stop = TRUE] \in Records
        BY <4>1, RecordPut
      <4> QED BY <4>2 DEF r, a, b, g, h
    <3> QED BY <1>2, <1>6, <2>1, <3>1 DEF Aborts, Establishes, Takes, Ends, Finishes
  <2>4. ThreadType'
    BY <1>3, <1>6, <2>1 DEF Aborts, Establishes, Takes, Ends, Finishes, ThreadType, StackType, IoPcs
  <2>5. handler' \in Handlers
    <3>1. conn[c].hNxt \in Nat /\ conn[c].gNxt + 1 \in Nat
      BY <2>1 DEF Records
    <3> QED BY <1>6, <2>1, <3>1, HandlerRecs DEF Aborts, Establishes, Takes, Ends, Finishes, Handlers
  <2> QED BY <2>2, <2>3, <2>4, <2>5 DEF StackType
<1> QED BY <1>4, <1>5, <1>6 DEF Handles

-----------------------------------------------------------------------------
(***************************************************************************)
(* The table and the threads after handle_tcp.                             *)
(***************************************************************************)
\* Reaping only removes.
LEMMA ReapedFacts ==
    ASSUME StackType
    PROVE  /\ Reaped \in [Keys -> 0..MaxConn]
           /\ \A q \in Keys : Reaped[q] = (IF q \in done THEN 0 ELSE conns[q])
  BY StrideFacts DEF StackType, TableType, Reaped

\* Nothing happens to the connections but that some leave the table, and a
\* connection c changes, but neither its key nor what its threads depend on.
LEMMA TableShrinks ==
    ASSUME StackType, StackType', TableInv, FreshInv, ThreadInv, EndedIsQueued,
           \A q \in Keys : conns'[q] = 0 \/ (conns'[q] = conns[q] /\ q \notin done),
           NEW c \in 1..made, conn' = [conn EXCEPT ![c] = conn'[c]],
           conn'[c].key = conn[c].key, conn'[c].fd = conn[c].fd,
           \/ io' = io /\ conn'[c].state = conn[c].state
           \/ /\ conn[c].state = "SYNACK_SENT" /\ conn'[c].state = "ESTABLISHED"
              /\ fwd[c] # "insert" /\ io' = [io EXCEPT ![c] = "loop"],
           made' = made, cth' = cth, fwd' = fwd, tries' = tries, host' = host
    PROVE  FreshInv' /\ TableInv' /\ ThreadInv' /\ EndedIsQueued'
<1> USE StrideFacts
<1>1. c \in Conns /\ made \in 0..MaxConn /\ made \in Nat
  BY DEF StackType, TableType, Conns
<1>2. \A d \in Conns : d # c => conn'[d] = conn[d] /\ io'[d] = io[d]
  BY DEF StackType, ThreadType
<1>3. \A d \in Conns : conn'[d].key = conn[d].key /\ conn'[d].fd = conn[d].fd
  BY <1>2
<1>4. FreshInv'
  BY <1>1, <1>2 DEF FreshInv, Conns
<1>5. TableInv'
  <2> SUFFICES ASSUME NEW q \in Keys, conns'[q] # 0
               PROVE  conns'[q] <= made' /\ conn'[conns'[q]].key = q
    BY DEF TableInv
  <2>1. conns'[q] = conns[q] /\ conns[q] <= made /\ conn[conns[q]].key = q /\ conns[q] \in Conns
    BY <1>1 DEF TableInv, StackType, TableType, Conns
  <2> QED BY <1>3, <2>1
<1>6. ThreadInv'
  <2> SUFFICES ASSUME NEW d \in Conns
               PROVE  /\ d <= made => conn'[d].key \in Keys
                      /\ fwd[d] # "none" => conn'[d].key \in InKeys
                      /\ cth[d] # "none" => conn'[d].key \in OutKeys
                      /\ io'[d] # "none" <=> conn'[d].state = "ESTABLISHED"
                      /\ conn'[d].state # "CONNECTING" => conn'[d].fd
                      /\ cth[d] \in {"connect", "fail"} => conn'[d].state = "CONNECTING"
                      /\ fwd[d] = "insert" => conns'[conn'[d].key] # d /\ io'[d] = "none" /\ tries[d] = 0
                      /\ fwd[d] = "syn" => tries[d] < Attempts
    BY DEF ThreadInv
  <2>1. /\ d <= made => conn[d].key \in Keys
        /\ fwd[d] # "none" => conn[d].key \in InKeys
        /\ cth[d] # "none" => conn[d].key \in OutKeys
        /\ io[d] # "none" <=> conn[d].state = "ESTABLISHED"
        /\ conn[d].state # "CONNECTING" => conn[d].fd
        /\ cth[d] \in {"connect", "fail"} => conn[d].state = "CONNECTING"
        /\ fwd[d] = "insert" => conns[conn[d].key] # d /\ io[d] = "none" /\ tries[d] = 0
        /\ fwd[d] = "syn" => tries[d] < Attempts
    BY DEF ThreadInv
  <2>2. fwd[d] = "insert" => conns'[conn[d].key] # d
    BY <2>1 DEF Keys, Conns
  <2>3. CASE d # c
    BY <1>2, <1>3, <2>1, <2>2, <2>3
  <2>4. CASE d = c /\ io' = io /\ conn'[c].state = conn[c].state
    BY <1>3, <2>1, <2>2, <2>4
  <2>5. CASE d = c /\ conn[c].state = "SYNACK_SENT" /\ conn'[c].state = "ESTABLISHED"
             /\ fwd[c] # "insert" /\ io' = [io EXCEPT ![c] = "loop"]
    <3>1. io'[c] = "loop"
      BY <1>1, <2>5 DEF StackType, ThreadType
    <3> QED BY <1>3, <2>1, <2>5, <3>1
  <2> QED BY <2>3, <2>4, <2>5
<1>7. EndedIsQueued'
  <2> SUFFICES ASSUME NEW q \in Keys, conns'[q] # 0, io'[conns'[q]] = "exited" PROVE FALSE
    BY DEF EndedIsQueued
  <2>1. conns'[q] = conns[q] /\ q \notin done /\ conns[q] \in Conns
    BY <1>1 DEF StackType, TableType, Conns
  <2>2. io[conns[q]] # "exited"
    BY <2>1 DEF EndedIsQueued
  <2>3. conns[q] = c /\ io'[c] # io[c]
    BY <1>2, <2>1, <2>2
  <2>4. io'[c] = "loop"
    BY <1>1, <2>3 DEF StackType, ThreadType
  <2> QED BY <2>1, <2>3, <2>4
<1> QED BY <1>4, <1>5, <1>6, <1>7

\* A new connection: it takes the first TcpConn that was not used.
LEMMA TableGrows ==
    ASSUME StackType, StackType', TableInv, FreshInv, ThreadInv, EndedIsQueued,
           NEW k \in OutKeys, NEW seq \in Nat, Opens(k, seq),
           fwd' = fwd, tries' = tries, host' = host
    PROVE  FreshInv' /\ TableInv' /\ ThreadInv' /\ EndedIsQueued'
<1> USE StrideFacts
<1> DEFINE n == made + 1
<1>1. /\ made \in Nat /\ made \in 0..MaxConn /\ n \in Conns /\ n # 0 /\ k \in Keys
      /\ made' = n /\ cth' = [cth EXCEPT ![n] = "connect"] /\ io' = io
  BY DEF StackType, TableType, Opens, Conns, Keys
<1>2. /\ \A d \in Conns : d # n => conn'[d] = conn[d] /\ cth'[d] = cth[d]
      /\ conn'[n] = [conn[n] EXCEPT !.key = k, !.gNxt = seq + 1] /\ cth'[n] = "connect"
  BY <1>1 DEF StackType, ThreadType, Opens
<1>3. /\ conn[n] = NewConn /\ io[n] = "none" /\ fwd[n] = "none"
  BY <1>1 DEF FreshInv
<1>4. /\ conn'[n].key = k /\ conn'[n].state = "CONNECTING"
  BY <1>2, <1>3 DEF NewConn
<1>5. \A q \in Keys : q # k => conns'[q] = 0 \/ (conns'[q] = conns[q] /\ q \notin done)
  BY ReapedFacts DEF Opens
<1>6. conns'[k] = n
  BY <1>1, ReapedFacts DEF Opens
<1> HIDE DEF n
<1>7. FreshInv'
  <2> SUFFICES ASSUME NEW d \in Conns, d > made'
               PROVE  /\ conn'[d] = NewConn /\ host'[d] = NewHost /\ tries'[d] = 0
                      /\ cth'[d] = "none" /\ io'[d] = "none" /\ fwd'[d] = "none"
    BY DEF FreshInv
  <2>1. d > made /\ d # n
    BY <1>1 DEF n, Conns
  <2> QED BY <1>1, <1>2, <2>1 DEF FreshInv
<1>8. TableInv'
  <2> SUFFICES ASSUME NEW q \in Keys, conns'[q] # 0
               PROVE  conns'[q] <= made' /\ conn'[conns'[q]].key = q
    BY DEF TableInv
  <2>1. CASE q = k
    BY <1>1, <1>4, <1>6, <2>1 DEF n
  <2>2. CASE q # k
    <3>1. conns'[q] = conns[q] /\ conns[q] # 0
      BY <1>5, <2>2
    <3>2. conns[q] <= made /\ conn[conns[q]].key = q /\ conns[q] \in Conns
      BY <1>1, <3>1 DEF TableInv, StackType, TableType, Conns
    <3>3. conns[q] # n /\ conns[q] <= n
      BY <1>1, <3>2 DEF n, Conns
    <3> QED BY <1>1, <1>2, <3>1, <3>2, <3>3
  <2> QED BY <2>1, <2>2
<1>9. ThreadInv'
  <2> SUFFICES ASSUME NEW d \in Conns
               PROVE  /\ d <= made' => conn'[d].key \in Keys
                      /\ fwd[d] # "none" => conn'[d].key \in InKeys
                      /\ cth'[d] # "none" => conn'[d].key \in OutKeys
                      /\ io'[d] # "none" <=> conn'[d].state = "ESTABLISHED"
                      /\ conn'[d].state # "CONNECTING" => conn'[d].fd
                      /\ cth'[d] \in {"connect", "fail"} => conn'[d].state = "CONNECTING"
                      /\ fwd[d] = "insert" => conns'[conn'[d].key] # d /\ io'[d] = "none" /\ tries[d] = 0
                      /\ fwd[d] = "syn" => tries[d] < Attempts
    BY DEF ThreadInv
  <2>1. CASE d = n
    BY <1>1, <1>2, <1>3, <1>4, <2>1
  <2>2. CASE d # n
    <3>1. d <= made' => d <= made
      BY <1>1, <2>2 DEF n, Conns
    <3>2. fwd[d] = "insert" => conns[conn[d].key] # d /\ conn[d].key \in Keys
      BY DEF ThreadInv, Keys
    <3>3. fwd[d] = "insert" => conns'[conn[d].key] # d
      BY <1>5, <1>6, <2>2, <3>2 DEF Conns
    <3> QED BY <1>1, <1>2, <2>2, <3>1, <3>3 DEF ThreadInv
  <2> QED BY <2>1, <2>2
<1>10. EndedIsQueued'
  <2> SUFFICES ASSUME NEW q \in Keys, conns'[q] # 0, io'[conns'[q]] = "exited" PROVE FALSE
    BY DEF EndedIsQueued
  <2>1. q # k
    BY <1>1, <1>3, <1>6
  <2>2. conns'[q] = conns[q] /\ q \notin done
    BY <1>5, <2>1
  <2> QED BY <1>1, <2>2 DEF EndedIsQueued
<1> QED BY <1>7, <1>8, <1>9, <1>10

\* Everything but the streams.
LEMMA HandleTable ==
    ASSUME StackType, TableInv, FreshInv, ThreadInv, EndedIsQueued, HandlerInv,
           NEW k \in Keys, NEW flag \in Flags, NEW seq \in Nat, NEW ack \in Nat,
           Handles(k, flag, seq, ack), flag = "SYN" => k \in OutKeys, flag \in Datas => seq # 0,
           host' = host,
           \A c \in Conns : (c = conns[k] /\ flag \in Datas /\ conn[c].key \notin OutKeys)
              => seq # conn[c].gNxt
    PROVE  StackType' /\ FreshInv' /\ TableInv' /\ ThreadInv' /\ EndedIsQueued' /\ HandlerInv'
<1> USE StrideFacts
<1>1. StackType'
  BY HandleType
<1>2. fwd' = fwd /\ tries' = tries /\ made \in 0..MaxConn
  BY DEF Handles, StackType, TableType
<1>3. CASE flag = "SYN" /\ Opens(k, seq)
  <2>1. FreshInv' /\ TableInv' /\ ThreadInv' /\ EndedIsQueued'
    BY <1>1, <1>2, <1>3, TableGrows
  <2>2. HandlerInv'
    BY <1>3, HandlerRecs DEF Opens, HandlerInv
  <2> QED BY <1>1, <2>1, <2>2
<1>4. ASSUME NEW c \in 1..made, c = conns[k],
             \/ Aborts(k, c) \/ Establishes(c) \/ (flag = "DATA" /\ Takes(k, c, seq)) \/ Ends(k, c)
             \/ flag = "DATAFIN" /\ Finishes(k, c, seq)
      PROVE  FreshInv' /\ TableInv' /\ ThreadInv' /\ EndedIsQueued' /\ HandlerInv'
  <2>1. c \in Conns /\ conn[c] \in Records /\ conn \in [Conns -> Records] /\ c # 0
    BY <1>2 DEF Conns, StackType
  <2>2. \A q \in Keys : conns'[q] = 0 \/ (conns'[q] = conns[q] /\ q \notin done)
    BY <1>4, ReapedFacts DEF Aborts, Establishes, Takes, Ends, Finishes
  <2>3. /\ conn' = [conn EXCEPT ![c] = conn'[c]] /\ conn'[c].key = conn[c].key
        /\ conn'[c].fd = conn[c].fd
        /\ ~Establishes(c) => conn'[c].state = conn[c].state
        /\ Establishes(c) => conn'[c].state = "ESTABLISHED"
    <3>1. CASE Aborts(k, c) /\ ~Establishes(c)
      BY <2>1, <3>1 DEF Aborts, Records
    <3>2. CASE Establishes(c)
      BY <2>1, <3>2 DEF Establishes, Records
    <3>3. CASE Takes(k, c, seq) /\ ~Establishes(c)
      BY <2>1, <3>3 DEF Takes, Records
    <3>4. CASE Ends(k, c) /\ ~Establishes(c)
      BY <2>1, <3>4 DEF Ends, Records
    <3>5. CASE Finishes(k, c, seq) /\ ~Establishes(c)
      BY <2>1, <3>5 DEF Finishes, Records
    <3> QED BY <1>4, <3>1, <3>2, <3>3, <3>4, <3>5
  <2>4. fwd[c] # "insert"
    BY <1>2, <1>4, <2>1 DEF ThreadInv, TableInv
  <2>5. \/ io' = io /\ conn'[c].state = conn[c].state
        \/ /\ conn[c].state = "SYNACK_SENT" /\ conn'[c].state = "ESTABLISHED"
           /\ fwd[c] # "insert" /\ io' = [io EXCEPT ![c] = "loop"]
    <3>1. CASE Establishes(c)
      BY <2>3, <2>4, <3>1 DEF Establishes
    <3>2. CASE ~Establishes(c)
      BY <1>4, <2>3, <3>2 DEF Aborts, Takes, Ends, Finishes
    <3> QED BY <3>1, <3>2
  <2>6. made' = made /\ cth' = cth
    BY <1>4 DEF Aborts, Establishes, Takes, Ends, Finishes
  <2>7. FreshInv' /\ TableInv' /\ ThreadInv' /\ EndedIsQueued'
    BY <1>1, <1>2, <2>2, <2>3, <2>5, <2>6, TableShrinks
  <2>8. HandlerInv'
    <3>1. CASE Aborts(k, c) \/ Establishes(c)
      BY <3>1, HandlerRecs DEF Aborts, Establishes, HandlerInv
    <3>2. CASE flag = "DATA" /\ Takes(k, c, seq)
      <4>1. conn[c].fd /\ conn[c].key \in OutKeys
        BY <1>4, <2>1, <3>2 DEF ThreadInv, Takes, Datas
      <4>2. /\ handler'.pc = "finish" /\ handler'.c = c /\ handler'.key = k
            /\ handler'.reply = "ACK"
        BY <3>2 DEF Takes
      <4> QED BY <2>1, <2>3, <4>1, <4>2 DEF HandlerInv
    <3>3. CASE Ends(k, c)
      <4>1. /\ handler'.pc = "finish" /\ handler'.data = 0 /\ handler'.key = k
            /\ handler'.reply = "FIN"
        BY <3>3 DEF Ends
      <4> QED BY <4>1 DEF HandlerInv
    <3>4. CASE flag = "DATAFIN" /\ Finishes(k, c, seq)
      <4>1. conn[c].fd /\ conn[c].key \in OutKeys
        BY <1>4, <2>1, <3>4 DEF ThreadInv, Finishes, Datas
      <4>2. /\ handler'.pc = "finish" /\ handler'.c = c /\ handler'.key = k
            /\ handler'.reply = "FIN"
        BY <3>4 DEF Finishes
      <4> QED BY <2>1, <2>3, <4>1, <4>2 DEF HandlerInv
    <3> QED BY <1>4, <3>1, <3>2, <3>3, <3>4
  <2> QED BY <2>7, <2>8
<1>5. CASE Ignores(k, ack)
  <2>1. \A q \in Keys : conns'[q] = 0 \/ (conns'[q] = conns[q] /\ q \notin done)
    BY <1>5, ReapedFacts DEF Ignores
  <2>2. made' = made /\ conn' = conn /\ cth' = cth /\ io' = io
    BY <1>5 DEF Ignores
  <2>3. FreshInv'
    BY <1>2, <2>2 DEF FreshInv
  <2>4. TableInv'
    BY <2>1, <2>2 DEF TableInv
  <2>5. EndedIsQueued'
    BY <2>1, <2>2 DEF EndedIsQueued
  <2>6. ThreadInv'
    <3>1. \A c \in Conns : fwd[c] = "insert" => conns'[conn[c].key] # c
      BY <2>1 DEF ThreadInv, Keys, Conns
    <3> QED BY <1>2, <2>2, <3>1 DEF ThreadInv
  <2>7. HandlerInv'
    BY <1>5, HandlerRecs DEF Ignores, HandlerInv
  <2> QED BY <1>1, <2>3, <2>4, <2>5, <2>6, <2>7
<1> QED BY <1>1, <1>3, <1>4, <1>5 DEF Handles

-----------------------------------------------------------------------------
(***************************************************************************)
(* The guest's bytes.                                                      *)
(***************************************************************************)
\* A stream whose variables do not change.
LEMMA StreamKept ==
    ASSUME NEW c, Stream(c), conn'[c].key = conn[c].key, conn'[c].gNxt = conn[c].gNxt,
           host'[c].got = host[c].got, Pend(c)' <=> Pend(c), Pend(c) => handler'.data = handler.data,
           Left(c) => Left(c)'
    PROVE  Stream(c)'
<1>1. ASSUME NEW m \in Incs, OutStream(c, m) PROVE OutStream(c, m)'
  BY <1>1 DEF OutStream
<1>2. ASSUME InStream(c) PROVE InStream(c)'
  BY <1>2 DEF InStream
<1> QED BY <1>1, <1>2 DEF Stream

\* A connection out of the table stays out when entries are only removed.
LEMMA LeftStays ==
    ASSUME StackType, ThreadInv, NEW c \in 1..made, Left(c), conn'[c].key = conn[c].key,
           \A q \in Keys : conns'[q] \in {0, conns[q]}, fwd' = fwd
    PROVE  Left(c)'
<1>1. c \in Conns /\ c <= made /\ c # 0
  BY StrideFacts DEF StackType, TableType, Conns
<1>2. conn[c].key \in Keys
  BY <1>1 DEF ThreadInv
<1> QED BY <1>1, <1>2 DEF Left

LEMMA HandleStream ==
    ASSUME StackType, StackType', TableInv, FreshInv, ThreadInv, HandlerInv, StreamInv,
           host \in [Conns -> HostRecs], host' = host,
           NEW k \in Keys, NEW flag \in Flags, NEW seq \in Nat, NEW ack \in Nat,
           Handles(k, flag, seq, ack),
           NEW m \in Incs,
           flag = "SYN" => seq = Start(m) /\ k \in OutKeys,
           flag \in Datas => seq \in (Start(m) + 1)..(Start(m) + MaxGuest)
    PROVE  /\ StreamInv'
           /\ flag \in Datas => seq # 0
           /\ (conns[k] \in 1..made /\ flag \in Datas /\ conn[conns[k]].key \notin OutKeys)
                 => seq # conn[conns[k]].gNxt
<1> USE StrideFacts
<1>1. /\ handler = Idle /\ fwd' = fwd /\ Start(m) \in Nat /\ made \in 0..MaxConn
      /\ \A c \in 1..made : c \in Conns /\ c # 0 /\ conn[c] \in Records /\ Stream(c)
  BY StartFacts DEF Handles, StackType, TableType, Conns, StreamInv
<1>2. \A c \in Conns : ~Pend(c)
  BY <1>1 DEF Pend, Idle
<1>3. flag \in Datas => seq # 0
  BY <1>1
<1>4. ASSUME NEW c \in 1..made, c = conns[k] PROVE conn[c].key = k /\ ~Left(c)
  BY <1>1, <1>4 DEF TableInv, Left
<1>5. ASSUME NEW c \in 1..made, c = conns[k], conn[c].key \notin OutKeys
      PROVE  conn[c].gNxt = 0 /\ host[c].got = <<>>
  BY <1>1, <1>4, <1>5 DEF Stream, InStream
<1>6. ASSUME NEW c \in 1..made, c = conns[k], flag \in Datas, seq = conn[c].gNxt
      PROVE  conn[c].key \in OutKeys
  BY <1>3, <1>5, <1>6
<1>7. CASE Ignores(k, ack)
  <2>1. \A q \in Keys : conns'[q] \in {0, conns[q]}
    BY <1>7, ReapedFacts DEF Ignores
  <2>2. made' = made /\ conn' = conn /\ handler'.data = 0
    BY <1>7, HandlerRecs DEF Ignores
  <2>3. ASSUME NEW c \in 1..made PROVE Stream(c)'
    <3>1. ~Pend(c) /\ ~Pend(c)'
      BY <1>1, <1>2, <2>2 DEF Pend
    <3> QED BY <1>1, <2>1, <2>2, <3>1, StreamKept, LeftStays
  <2> QED BY <1>3, <1>6, <2>2, <2>3 DEF StreamInv
<1>8. CASE flag = "SYN" /\ Opens(k, seq)
  <2>0. made + 1 \in Conns
    BY <1>1, <1>8 DEF Opens, Conns
  <2>a. PICK n \in Conns : n = made + 1
    BY <2>0
  <2>1. /\ n \in Conns /\ n # 0 /\ made' = n
        /\ conn' = [conn EXCEPT ![n] = [conn[n] EXCEPT !.key = k, !.gNxt = seq + 1]]
        /\ handler'.data = 0 /\ conn[n] = NewConn /\ host[n].got = <<>>
    <3>1. n > made /\ n # 0
      BY <1>1, <2>a DEF Conns
    <3>2. conn[n] = NewConn /\ host[n] = NewHost
      BY <3>1 DEF FreshInv
    <3>3. host[n].got = <<>>
      BY <3>2 DEF NewHost
    <3>4. handler'.data = 0
      BY <1>8, HandlerRecs DEF Opens
    <3>5. made' = n /\ conn' = [conn EXCEPT ![n] = [conn[n] EXCEPT !.key = k, !.gNxt = seq + 1]]
      BY <1>8, <2>a DEF Opens
    <3> QED BY <3>1, <3>2, <3>3, <3>4, <3>5
  <2>2. /\ conn'[n].key = k /\ conn'[n].gNxt = seq + 1
        /\ \A c \in 1..made : conn'[c] = conn[c] /\ c # n
    BY <1>1, <2>1, <2>a DEF NewConn, StackType
  <2>3. \A q \in Keys : conns'[q] = (IF q = k THEN n ELSE Reaped[q])
    BY <1>8, <2>a, ReapedFacts DEF Opens
  <2>4. k \in OutKeys /\ seq = Start(m)
    BY <1>8
  <2>5. Stream(n)'
    <3>1. OutStream(n, m)'
      <4>1. ~Pend(n)' /\ host'[n].got = <<>> /\ Len(host'[n].got) = 0
        BY <2>1 DEF Pend
      <4>2. conn'[n].gNxt = Start(m) + 1 + (0 + 0)
        BY <1>1, <2>2, <2>4
      <4> QED BY <1>1, <4>1, <4>2 DEF OutStream
    <3> QED BY <2>2, <2>4, <3>1 DEF Stream
  <2>6. ASSUME NEW c \in 1..made PROVE Stream(c)'
    <3>1. ~Pend(c) /\ ~Pend(c)'
      BY <1>1, <1>2, <2>1 DEF Pend
    <3>2. conn[c].key \in Keys /\ conn'[c] = conn[c] /\ c # n
      BY <1>1, <2>2 DEF ThreadInv
    <3>3. Left(c) => Left(c)'
      BY <1>1, <2>3, <3>2, ReapedFacts DEF Left
    <3> QED BY <1>1, <3>1, <3>2, <3>3, StreamKept
  <2>7. \A c \in 1..made' : c = n \/ c \in 1..made
    BY <1>1, <2>1, <2>a
  <2> QED BY <1>3, <1>6, <2>5, <2>6, <2>7 DEF StreamInv
<1>9. ASSUME NEW c \in 1..made, c = conns[k],
             \/ Aborts(k, c) \/ Establishes(c) \/ (flag = "DATA" /\ Takes(k, c, seq)) \/ Ends(k, c)
             \/ flag = "DATAFIN" /\ Finishes(k, c, seq)
      PROVE  StreamInv'
  <2>1. \A q \in Keys : conns'[q] \in {0, conns[q]}
    BY <1>9, ReapedFacts DEF Aborts, Establishes, Takes, Ends, Finishes
  <2>2. /\ made' = made /\ \A d \in 1..made : d # c => conn'[d] = conn[d] /\ ~Pend(d)'
        /\ conn'[c].key = k
    <3>1. made' = made /\ (handler'.data = 0 \/ handler'.c = c)
      BY <1>9, HandlerRecs DEF Aborts, Establishes, Takes, Ends, Finishes
    <3>2. \A d \in 1..made : d # c => conn'[d] = conn[d]
      BY <1>1, <1>9 DEF Aborts, Establishes, Takes, Ends, Finishes, StackType
    <3>3. conn'[c].key = k
      <4>1. conn \in [Conns -> Records] /\ c \in Conns /\ conn[c].key = k /\ conn[c] \in Records
        BY <1>1, <1>4, <1>9 DEF StackType
      <4>2. CASE Aborts(k, c)
        BY <4>1, <4>2 DEF Aborts, Records
      <4>3. CASE Establishes(c)
        BY <4>1, <4>3 DEF Establishes, Records
      <4>4. CASE Takes(k, c, seq)
        BY <4>1, <4>4 DEF Takes, Records
      <4>5. CASE Ends(k, c)
        BY <4>1, <4>5 DEF Ends, Records
      <4>6. CASE Finishes(k, c, seq)
        BY <4>1, <4>6 DEF Finishes, Records
      <4> QED BY <1>9, <4>2, <4>3, <4>4, <4>5, <4>6
    <3>4. made' = made
      BY <1>9 DEF Aborts, Establishes, Takes, Ends, Finishes
    <3> QED BY <3>1, <3>2, <3>3, <3>4 DEF Pend
  <2>3. ASSUME NEW d \in 1..made, d # c PROVE Stream(d)'
    BY <1>1, <1>2, <2>1, <2>2, <2>3, StreamKept, LeftStays
  <2>4. conn[c].key = k /\ ~Left(c) /\ Stream(c) /\ ~Pend(c) /\ conn[c].gNxt \in Nat /\ c \in Conns
    BY <1>1, <1>2, <1>4, <1>9 DEF Records
  <2>5. host[c].got \in Seq(Nat) /\ host'[c].got = host[c].got /\ Len(host[c].got) \in Nat
    BY <2>4 DEF HostRecs
  <2>6. Stream(c)'
    <3>1. CASE Aborts(k, c) \/ Establishes(c)
      <4>0. conn[c] \in Records /\ conn \in [Conns -> Records]
        BY <1>1, <2>4 DEF StackType
      <4>a. handler'.data = 0
        BY <3>1, HandlerRecs DEF Aborts, Establishes
      <4>b. Aborts(k, c) => conn'[c].gNxt = conn[c].gNxt
        BY <2>4, <4>0 DEF Aborts, Records
      <4>c. Establishes(c) => conn'[c].gNxt = conn[c].gNxt
        BY <2>4, <4>0 DEF Establishes, Records
      <4>1. conn'[c].gNxt = conn[c].gNxt /\ handler'.data = 0
        BY <3>1, <4>a, <4>b, <4>c
      <4> QED BY <2>2, <2>4, <2>5, <4>1, StreamKept DEF Pend
    <3>2. ASSUME flag \in Datas, seq = conn[c].gNxt
          PROVE  \E p \in Incs :
                    /\ seq = Start(p) + (Len(host[c].got) + 1) /\ Start(p) \in Nat
                    /\ Len(host[c].got) + 1 <= MaxGuest
                    /\ \A i \in 1..Len(host[c].got) : host[c].got[i] \in {0, Start(p) + i}
      <4>1. PICK p \in Incs : OutStream(c, p)
        BY <1>6, <1>9, <2>4, <3>2 DEF Stream
      <4>2. /\ seq = Start(p) + 1 + Len(host[c].got) /\ Len(host[c].got) <= MaxGuest
            /\ Start(p) \in Nat
            /\ \A i \in 1..Len(host[c].got) : host[c].got[i] \in {0, Start(p) + i}
        BY <2>4, <2>5, <3>2, <4>1, StartFacts DEF OutStream
      <4>3. p = m
        <5>1. /\ Start(p) <= seq /\ seq < Start(p) + Stride
              /\ Start(m) <= seq /\ seq < Start(m) + Stride
          BY <1>1, <2>5, <3>2, <4>2
        <5> QED BY <5>1, StartApart
      <4>4. Len(host[c].got) + 1 <= MaxGuest
        BY <1>1, <2>5, <3>2, <4>2, <4>3
      <4>5. seq = Start(p) + (Len(host[c].got) + 1)
        <5> DEFINE l == Len(host[c].got)
                   b == Start(p)
        <5>1. l \in Nat /\ b \in Nat /\ seq = b + 1 + l
          BY <2>5, <4>2
        <5> HIDE DEF l, b
        <5>2. seq = b + (l + 1)
          BY <5>1
        <5> QED BY <5>2 DEF l, b
      <4> QED BY <4>2, <4>4, <4>5
    <3>3. CASE Ends(k, c)
      <4>1. /\ conn'[c].gNxt = conn[c].gNxt + 1 /\ handler'.data = 0 /\ conns'[k] = 0
        <5>1. conn'[c].gNxt = conn[c].gNxt + 1
          BY <1>1, <2>4, <3>3 DEF Ends, Records, StackType
        <5> QED BY <3>3, <5>1, ReapedFacts DEF Ends
      <4>2. Left(c)' /\ ~Pend(c)'
        BY <1>1, <1>9, <2>2, <2>4, <4>1 DEF Left, Pend, ThreadInv
      <4>3. CASE k \in OutKeys
        <5>1. PICK p \in Incs : OutStream(c, p)
          BY <2>4, <4>3 DEF Stream
        <5>2. OutStream(c, p)'
          <6>1. conn[c].gNxt = Start(p) + 1 + Len(host[c].got) /\ Len(host[c].got) <= MaxGuest
            BY <2>4, <2>5, <5>1 DEF OutStream
          <6>2. conn'[c].gNxt = Start(p) + 2 + Len(host[c].got) /\ Start(p) \in Nat
            <7>1. Start(p) \in Nat
              BY StartFacts
            <7> DEFINE l == Len(host[c].got)
                       b == Start(p)
                       g == conn[c].gNxt
            <7>2. l \in Nat /\ b \in Nat /\ g = b + 1 + l /\ conn'[c].gNxt = g + 1
              BY <2>5, <4>1, <6>1, <7>1
            <7> HIDE DEF l, b, g
            <7>3. conn'[c].gNxt = b + 2 + l
              BY <7>2
            <7> QED BY <7>1, <7>3 DEF l, b
          <6>3. \A i \in 1..Len(host[c].got) : host[c].got[i] \in {0, Start(p) + i}
            BY <5>1 DEF OutStream
          <6> QED BY <2>5, <4>2, <6>1, <6>2, <6>3 DEF OutStream
        <5> QED BY <2>2, <4>3, <5>2 DEF Stream
      <4>4. CASE k \notin OutKeys
        BY <1>5, <1>9, <2>2, <2>4, <2>5, <4>1, <4>2, <4>4 DEF Stream, InStream
      <4> QED BY <4>3, <4>4
    <3>4. CASE (flag = "DATA" /\ Takes(k, c, seq)) \/ (flag = "DATAFIN" /\ Finishes(k, c, seq))
      <4>1. flag \in Datas /\ seq = conn[c].gNxt
        BY <3>4 DEF Datas, Takes, Finishes
      <4>2. PICK p \in Incs :
                    /\ seq = Start(p) + (Len(host[c].got) + 1) /\ Start(p) \in Nat
                    /\ Len(host[c].got) + 1 <= MaxGuest
                    /\ \A i \in 1..Len(host[c].got) : host[c].got[i] \in {0, Start(p) + i}
        BY <3>2, <4>1
      <4>3. /\ conn'[c].gNxt = seq + 1 \/ (conn'[c].gNxt = seq + 2 /\ conns'[k] = 0)
            /\ handler'.data = seq /\ handler'.c = c
        <5>1. CASE Takes(k, c, seq)
          BY <2>4, <5>1 DEF Takes, StackType
        <5>2. CASE Finishes(k, c, seq)
          <6>1. conns'[k] = 0 /\ handler'.data = seq /\ handler'.c = c
            BY <5>2, ReapedFacts DEF Finishes
          <6>2. conn'[c].gNxt = seq + 2
            BY <1>1, <2>4, <5>2 DEF Finishes, Records, StackType
          <6> QED BY <6>1, <6>2
        <5> QED BY <3>4, <5>1, <5>2
      <4>4. Pend(c)' /\ (conns'[k] = 0 => Left(c)')
        BY <1>1, <1>3, <1>9, <2>2, <2>4, <4>1, <4>3 DEF Left, Pend, ThreadInv
      <4>5. OutStream(c, p)'
        <5> DEFINE l == Len(host[c].got)
        <5>1. /\ \/ conn'[c].gNxt = Start(p) + 1 + (l + 1)
                 \/ conns'[k] = 0 /\ conn'[c].gNxt = Start(p) + 2 + (l + 1)
              /\ handler'.data = Start(p) + (l + 1) /\ l + 1 <= MaxGuest
          <6>1. l \in Nat /\ seq = Start(p) + (l + 1) /\ Start(p) \in Nat /\ l + 1 <= MaxGuest
            BY <2>5, <4>2
          <6> HIDE DEF l
          <6> QED BY <4>3, <6>1
        <5> QED BY <2>5, <4>2, <4>4, <5>1 DEF OutStream
      <4> QED BY <1>6, <1>9, <2>2, <2>4, <4>1, <4>5 DEF Stream
    <3> QED BY <1>9, <3>1, <3>3, <3>4
  <2> QED BY <2>2, <2>3, <2>6 DEF StreamInv
<1> QED BY <1>3, <1>6, <1>7, <1>8, <1>9 DEF Handles

-----------------------------------------------------------------------------
(***************************************************************************)
(* What the guest sends.                                                   *)
(***************************************************************************)
\* A step that leaves the guest's receiving side alone.
SameReceiver(g, h) ==
    h.isn = g.isn /\ h.rcv = g.rcv /\ h.got = g.got /\ h.peerFin = g.peerFin

\* The guest's record goes from g to h when it sends flag with seq.
Sends(k, g, h, flag, seq) ==
    \/ /\ flag = "SYN" /\ k \in OutKeys /\ h.st = "synSent" /\ seq = h.isn
       /\ \/ h = g
          \/ /\ g.isn = 0 \/ Reopen
             /\ h.isn # 0 /\ h.got = <<>> /\ h.due = "none" /\ ~h.peerFin /\ h.rcv = 0
    \/ /\ flag = "SYNACK" /\ SameReceiver(g, h) /\ h.st = g.st /\ h.due \in {"none", g.due}
       /\ g.st = "synRcvd" \/ g.due = "SYNACK"
    \/ /\ flag = "ACK" /\ SameReceiver(g, h) /\ h.st = g.st /\ h.due = "none" /\ g.due = "ACK"
    \/ /\ flag = "DATA" /\ SameReceiver(g, h) /\ h.st = g.st /\ h.due = g.due
       /\ g.st \in {"est", "finSent"} /\ seq \in (g.isn + 1)..(g.isn + MaxGuest)
    \/ /\ flag \in Fins
       /\ flag = "DATAFIN" => seq \in (g.isn + 1)..(g.isn + MaxGuest)
       /\ SameReceiver(g, h) /\ h.due = g.due /\ g.st \in {"est", "finSent"}
       /\ h.st = "closed" \/ (h.st = "finSent" /\ (g.st = "finSent" \/ ~g.peerFin))
    \/ flag = "RST" /\ SameReceiver(g, h) /\ h.st = "closed" /\ h.due = "none"

GuestSend(k) ==
    \/ GuestOpen(k) \/ GuestResend(k) \/ GuestAck(k)
    \/ GuestData(k) \/ GuestFin(k) \/ GuestDataFin(k) \/ GuestAbort(k)

\* A step of the guest that sends: its segment, its new record h, and frames
\* of its own that it has dropped.
SendStep(k, h, flag, seq) ==
    /\ HandleTcp(k, flag, seq, guest[k].rcv)
    /\ Sends(k, guest[k], h, flag, seq)
    /\ guest' = [guest EXCEPT ![k] = h] /\ h \in GuestRecs
    /\ host' = host /\ wire' \subseteq wire
    /\ flag = "SYN" /\ h # guest[k] => \A s \in wire' : s.key # k
    /\ \E m \in Incs : Numbers(h, m)
    /\ h.st = "synSent" => k \in OutKeys

\* Assignments keep a guest's record a record.
LEMMA PutNxt ==
    ASSUME NEW r \in GuestRecs, NEW n \in Nat
    PROVE  LET e == [r EXCEPT !.nxt = n]
           IN  e \in GuestRecs /\ e.nxt = n /\ e.st = r.st /\ e.due = r.due /\ SameReceiver(r, e)
  BY DEF GuestRecs, SameReceiver

LEMMA GuestSendStep ==
    ASSUME TypeOK, GuestInv, NEW k \in Keys, GuestSend(k)
    PROVE  \E h \in GuestRecs, flag \in Flags, seq \in Nat : SendStep(k, h, flag, seq)
<1> USE StrideFacts
<1> DEFINE g == guest[k]
<1>1. g \in GuestRecs /\ guest \in [Keys -> GuestRecs] /\ made \in 0..MaxConn
  BY TypeParts DEF StackType, TableType
<1>2. PICK m \in Incs : Numbers(g, m)
  BY DEF GuestInv
<1>3. /\ g.isn \in Nat /\ g.nxt \in Nat /\ g.rcv \in Nat /\ g.peerFin \in BOOLEAN
      /\ g.st \in {"closed", "synSent", "synRcvd", "est", "finSent", "reset"}
      /\ g.due \in {"none", "ACK", "SYNACK"}
  BY <1>1 DEF GuestRecs
<1>4. g.st = "synSent" => k \in OutKeys
  BY DEF GuestInv
<1>5. Flags = {"SYN", "SYNACK", "ACK", "DATA", "FIN", "DATAFIN", "RST"} /\ Fins = {"FIN", "DATAFIN"}
  BY DEF Flags, Fins
<1>6. CASE GuestOpen(k)
  <2> DEFINE i == (made + 1) * Stride
             h == [st |-> "synSent", isn |-> i, nxt |-> i + 1, rcv |-> 0, due |-> "none",
                   got |-> <<>>, peerFin |-> FALSE]
  <2>1. /\ made + 1 \in Incs /\ i = Start(made + 1) /\ i \in Nat /\ i # 0
    <3>1. made + 1 \in Incs /\ made + 1 \in Nat /\ made + 1 > 0 /\ made < MaxConn
      BY <1>1, <1>6 DEF GuestOpen, Incs
    <3>2. i = Start(made + 1) /\ i \in Nat
      BY <3>1, StartFacts DEF Start
    <3>3. ASSUME NEW a \in Nat, a > 0 PROVE a * Stride # 0
      BY <3>3, SMT
    <3> QED BY <3>1, <3>2, <3>3
  <2>2. /\ guest' = [guest EXCEPT ![k] = h] /\ host' = host /\ wire' \subseteq wire
        /\ \A s \in wire' : s.key # k
        /\ HandleTcp(k, "SYN", i, g.rcv) /\ k \in OutKeys /\ (g.isn = 0 \/ Reopen)
    BY <1>6 DEF GuestOpen, Send
  <2> HIDE DEF i
  <2>3. /\ h \in GuestRecs /\ h.st = "synSent" /\ h.isn = i /\ h.nxt = i + 1 /\ h.rcv = 0
        /\ h.due = "none" /\ h.got = <<>> /\ h.peerFin = FALSE
    BY <2>1 DEF GuestRecs
  <2> HIDE DEF h
  <2>4. Numbers(h, made + 1)
    BY <2>1, <2>3 DEF Numbers
  <2>5. Sends(k, g, h, "SYN", i)
    BY <2>1, <2>2, <2>3 DEF Sends
  <2> QED BY <1>5, <2>1, <2>2, <2>3, <2>4, <2>5 DEF SendStep
<1>7. CASE GuestResend(k)
  <2>1. host' = host /\ guest' = guest /\ wire' = wire /\ guest' = [guest EXCEPT ![k] = g]
    BY <1>1, <1>7 DEF GuestResend
  <2>2. \E flag \in Flags, seq \in Nat : HandleTcp(k, flag, seq, g.rcv) /\ Sends(k, g, g, flag, seq)
    <3>1. CASE g.st = "synSent" /\ Send(k, "SYN", g.isn)
      BY <1>3, <1>4, <1>5, <3>1 DEF Send, Sends
    <3>2. CASE g.st = "synRcvd" /\ Send(k, "SYNACK", g.isn)
      BY <1>3, <1>5, <3>2 DEF Send, Sends, SameReceiver
    <3>3. CASE /\ g.st \in {"est", "finSent"}
               /\ \E n \in (g.isn + 1)..(g.nxt - 1) :
                     Send(k, IF n = g.nxt - 1 /\ g.st = "finSent" THEN "FIN" ELSE "DATA", n)
      <4>1. PICK n \in (g.isn + 1)..(g.nxt - 1) :
                    Send(k, IF n = g.nxt - 1 /\ g.st = "finSent" THEN "FIN" ELSE "DATA", n)
        BY <3>3
      <4>2. n \in Nat
        BY <1>3
      <4>3. CASE n = g.nxt - 1 /\ g.st = "finSent"
        <5>1. HandleTcp(k, "FIN", n, g.rcv)
          BY <4>1, <4>3 DEF Send
        <5>2. Sends(k, g, g, "FIN", n)
          BY <1>5, <4>3 DEF Sends, SameReceiver
        <5> QED BY <1>5, <4>2, <5>1, <5>2
      <4>4. CASE ~(n = g.nxt - 1 /\ g.st = "finSent")
        <5>1. HandleTcp(k, "DATA", n, g.rcv)
          BY <4>1, <4>4 DEF Send
        <5>2. n \in (g.isn + 1)..(g.isn + MaxGuest)
          BY <1>2, <1>3, <3>3, <4>4 DEF Numbers
        <5>3. Sends(k, g, g, "DATA", n)
          BY <3>3, <5>2 DEF Sends, SameReceiver
        <5> QED BY <1>5, <4>2, <5>1, <5>3
      <4> QED BY <4>3, <4>4
    <3>4. CASE g.st = "finSent" /\ g.nxt > g.isn + 2 /\ Send(k, "DATAFIN", g.nxt - 2)
      <4>1. g.nxt - 2 \in (g.isn + 1)..(g.isn + MaxGuest) /\ g.nxt - 2 \in Nat
        BY <1>2, <1>3, <3>4 DEF Numbers
      <4>2. Sends(k, g, g, "DATAFIN", g.nxt - 2)
        BY <1>5, <3>4, <4>1 DEF Sends, SameReceiver
      <4> QED BY <1>5, <3>4, <4>1, <4>2 DEF Send
    <3> QED BY <1>7, <3>1, <3>2, <3>3, <3>4 DEF GuestResend
  <2> QED BY <1>1, <1>2, <1>4, <2>1, <2>2 DEF SendStep
<1>8. CASE GuestAck(k)
  <2> DEFINE h == [g EXCEPT !.due = "none"]
  <2>1. /\ guest' = [guest EXCEPT ![k] = h] /\ host' = host /\ wire' = wire /\ g.due # "none"
    BY <1>8 DEF GuestAck
  <2>2. /\ h \in GuestRecs /\ h.due = "none" /\ h.st = g.st /\ h.nxt = g.nxt /\ SameReceiver(g, h)
    BY <1>1 DEF GuestRecs, SameReceiver
  <2> HIDE DEF h
  <2>3. Numbers(h, m) /\ (h.st = "synSent" => k \in OutKeys)
    BY <1>2, <1>4, <2>2 DEF Numbers, SameReceiver
  <2>4. CASE g.due = "SYNACK"
    <3>1. HandleTcp(k, "SYNACK", g.isn, g.rcv)
      BY <1>8, <2>4 DEF GuestAck, Send
    <3>2. Sends(k, g, h, "SYNACK", g.isn)
      BY <2>2, <2>4 DEF Sends
    <3> QED BY <1>3, <1>5, <2>1, <2>2, <2>3, <3>1, <3>2 DEF SendStep
  <2>5. CASE g.due = "ACK"
    <3>1. HandleTcp(k, "ACK", g.nxt, g.rcv)
      BY <1>8, <2>5 DEF GuestAck, Send
    <3>2. Sends(k, g, h, "ACK", g.nxt)
      BY <2>2, <2>5 DEF Sends
    <3> QED BY <1>3, <1>5, <2>1, <2>2, <2>3, <3>1, <3>2 DEF SendStep
  <2> QED BY <1>3, <2>1, <2>4, <2>5
<1>9. CASE GuestData(k)
  <2> DEFINE h == [g EXCEPT !.nxt = g.nxt + 1]
  <2>1. /\ guest' = [guest EXCEPT ![k] = h] /\ host' = host /\ wire' = wire
        /\ g.st = "est" /\ g.nxt <= g.isn + MaxGuest /\ HandleTcp(k, "DATA", g.nxt, g.rcv)
    BY <1>9 DEF GuestData, Send
  <2>2. /\ h \in GuestRecs /\ h.due = g.due /\ h.st = g.st /\ h.nxt = g.nxt + 1 /\ SameReceiver(g, h)
    <3> DEFINE n == g.nxt + 1
    <3>1. n \in Nat
      BY <1>3
    <3> HIDE DEF n
    <3>2. LET e == [g EXCEPT !.nxt = n]
          IN  e \in GuestRecs /\ e.nxt = n /\ e.st = g.st /\ e.due = g.due /\ SameReceiver(g, e)
      BY <1>1, <3>1, PutNxt
    <3> QED BY <3>2 DEF n
  <2> HIDE DEF h
  <2>3. Numbers(h, m) /\ g.nxt \in (g.isn + 1)..(g.isn + MaxGuest)
    BY <1>2, <1>3, <2>1, <2>2 DEF Numbers, SameReceiver
  <2>4. Sends(k, g, h, "DATA", g.nxt)
    BY <2>1, <2>2, <2>3 DEF Sends
  <2> QED BY <1>3, <1>5, <2>1, <2>2, <2>3, <2>4 DEF SendStep
<1>10. CASE GuestFin(k)
  <2> DEFINE t == IF g.peerFin THEN "closed" ELSE "finSent"
             h == [g EXCEPT !.nxt = g.nxt + 1, !.st = t]
  <2>1. /\ guest' = [guest EXCEPT ![k] = h] /\ host' = host /\ wire' = wire
        /\ g.st = "est" /\ HandleTcp(k, "FIN", g.nxt, g.rcv)
    BY <1>10 DEF GuestFin, Send
  <2>2. /\ h \in GuestRecs /\ h.due = g.due /\ h.st = t /\ h.nxt = g.nxt + 1 /\ SameReceiver(g, h)
    <3> DEFINE n == g.nxt + 1
    <3>1. n \in Nat /\ t \in {"closed", "finSent"}
      BY <1>3
    <3> HIDE DEF n, t
    <3>2. LET e == [g EXCEPT !.nxt = n, !.st = t]
          IN  e \in GuestRecs /\ e.nxt = n /\ e.st = t /\ e.due = g.due /\ SameReceiver(g, e)
      BY <1>1, <3>1 DEF GuestRecs, SameReceiver
    <3> QED BY <3>2 DEF n
  <2> HIDE DEF h
  <2>3. Numbers(h, m)
    BY <1>2, <1>3, <2>1, <2>2 DEF Numbers, SameReceiver
  <2>4. Sends(k, g, h, "FIN", g.nxt)
    BY <1>5, <2>1, <2>2 DEF Sends
  <2> QED BY <1>3, <1>5, <2>1, <2>2, <2>3, <2>4 DEF SendStep
<1>11. CASE GuestAbort(k)
  <2> DEFINE h == [g EXCEPT !.st = "closed", !.due = "none"]
  <2>1. /\ guest' = [guest EXCEPT ![k] = h] /\ host' = host /\ wire' = wire
        /\ HandleTcp(k, "RST", g.nxt, g.rcv)
    BY <1>11 DEF GuestAbort, Send
  <2>2. /\ h \in GuestRecs /\ h.due = "none" /\ h.st = "closed" /\ h.nxt = g.nxt /\ SameReceiver(g, h)
    BY <1>1, <1>3 DEF GuestRecs, SameReceiver
  <2> HIDE DEF h
  <2>3. Numbers(h, m)
    BY <1>2, <1>3, <2>1, <2>2 DEF Numbers, SameReceiver
  <2>4. Sends(k, g, h, "RST", g.nxt)
    BY <2>1, <2>2 DEF Sends
  <2> QED BY <1>3, <1>5, <2>1, <2>2, <2>3, <2>4 DEF SendStep
<1>12. CASE GuestDataFin(k)
  <2> DEFINE t == IF g.peerFin THEN "closed" ELSE "finSent"
             h == [g EXCEPT !.nxt = g.nxt + 2, !.st = t]
  <2>1. /\ guest' = [guest EXCEPT ![k] = h] /\ host' = host /\ wire' = wire
        /\ g.st = "est" /\ g.nxt <= g.isn + MaxGuest /\ HandleTcp(k, "DATAFIN", g.nxt, g.rcv)
    BY <1>12 DEF GuestDataFin, Send
  <2>2. /\ h \in GuestRecs /\ h.due = g.due /\ h.st = t /\ h.nxt = g.nxt + 2 /\ SameReceiver(g, h)
    <3> DEFINE n == g.nxt + 2
    <3>1. n \in Nat /\ t \in {"closed", "finSent"}
      BY <1>3
    <3> HIDE DEF n, t
    <3>2. LET e == [g EXCEPT !.nxt = n, !.st = t]
          IN  e \in GuestRecs /\ e.nxt = n /\ e.st = t /\ e.due = g.due /\ SameReceiver(g, e)
      BY <1>1, <3>1 DEF GuestRecs, SameReceiver
    <3> QED BY <3>2 DEF n
  <2> HIDE DEF h
  <2>3. Numbers(h, m) /\ g.nxt \in (g.isn + 1)..(g.isn + MaxGuest)
    BY <1>2, <1>3, <2>1, <2>2 DEF Numbers, SameReceiver
  <2>4. Sends(k, g, h, "DATAFIN", g.nxt)
    BY <1>5, <2>1, <2>2, <2>3 DEF Sends
  <2> QED BY <1>3, <1>5, <2>1, <2>2, <2>3, <2>4 DEF SendStep
<1> QED BY <1>6, <1>7, <1>8, <1>9, <1>10, <1>11, <1>12 DEF GuestSend

LEMMA GuestSendKeeps ==
    ASSUME IndInv, NEW k \in Keys, GuestSend(k)
    PROVE  IndInv'
<1> USE StrideFacts
<1>0. /\ TypeOK /\ FreshInv /\ TableInv /\ ThreadInv /\ EndedIsQueued /\ GuestInv /\ HandlerInv
      /\ StreamInv
  BY DEF IndInv
<1>1. /\ StackType /\ host \in [Conns -> HostRecs] /\ guest \in [Keys -> GuestRecs]
      /\ wire \subseteq Segments
  BY <1>0, TypeParts
<1>2. PICK h \in GuestRecs, flag \in Flags, seq \in Nat : SendStep(k, h, flag, seq)
  BY <1>0, GuestSendStep
<1>3. /\ HandleTcp(k, flag, seq, guest[k].rcv) /\ Sends(k, guest[k], h, flag, seq)
      /\ guest' = [guest EXCEPT ![k] = h] /\ host' = host /\ wire' \subseteq wire
      /\ h.st = "synSent" => k \in OutKeys
  BY <1>2 DEF SendStep
<1>4. PICK m \in Incs : Numbers(h, m)
  BY <1>2 DEF SendStep
<1>5. guest[k].rcv \in Nat
  BY <1>1 DEF GuestRecs
<1>6. Handles(k, flag, seq, guest[k].rcv)
  BY <1>0, <1>3, <1>5, HandleCases
<1>7. StackType'
  BY <1>1, <1>5, <1>6, HandleType
<1>8. /\ flag = "SYN" => seq = Start(m) /\ k \in OutKeys
      /\ flag \in Datas => seq \in (Start(m) + 1)..(Start(m) + MaxGuest)
  BY <1>3, <1>4 DEF Sends, SameReceiver, Numbers, Datas, Fins
<1>9. /\ StreamInv'
      /\ flag \in Datas => seq # 0
      /\ (conns[k] \in 1..made /\ flag \in Datas /\ conn[conns[k]].key \notin OutKeys)
            => seq # conn[conns[k]].gNxt
  BY <1>0, <1>1, <1>3, <1>5, <1>6, <1>7, <1>8, HandleStream
<1>10. \A c \in Conns : (c = conns[k] /\ flag \in Datas /\ conn[c].key \notin OutKeys)
          => seq # conn[c].gNxt
  <2>1. \A c \in Conns : c = conns[k] => conns[k] \in 1..made
    BY <1>0, <1>1 DEF TableInv, Conns, StackType, TableType
  <2> QED BY <1>9, <2>1
<1>11. FreshInv' /\ TableInv' /\ ThreadInv' /\ EndedIsQueued' /\ HandlerInv'
  BY <1>0, <1>1, <1>3, <1>5, <1>6, <1>8, <1>9, <1>10, HandleTable
<1>12. GuestInv'
  <2> SUFFICES ASSUME NEW q \in Keys
               PROVE  /\ \E p \in Incs : Numbers(guest'[q], p)
                      /\ guest'[q].st = "synSent" => q \in OutKeys
    BY DEF GuestInv, Numbers
  <2>1. CASE q = k
    BY <1>1, <1>3, <1>4, <2>1
  <2>2. CASE q # k
    BY <1>0, <1>1, <1>3, <2>2 DEF GuestInv
  <2> QED BY <2>1, <2>2
<1>13. TypeOK'
  <2>1. (guest \in [Keys -> GuestRecs])' /\ (host \in [Conns -> HostRecs])'
    BY <1>1, <1>3
  <2> QED BY <1>1, <1>3, <1>7, <2>1, TypePartsNext
<1> QED BY <1>9, <1>11, <1>12, <1>13 DEF IndInv

-----------------------------------------------------------------------------
(***************************************************************************)
(* The steps of the guest that receives, of the network and of the host.   *)
(***************************************************************************)
\* The stack does nothing.
LEMMA StackKept ==
    ASSUME IndInv, UNCHANGED stackVars, TypeOK', GuestInv',
           \A c \in Conns : host'[c].got = host[c].got /\ (c > made => host'[c] = host[c])
    PROVE  IndInv'
<1>0. /\ TypeOK /\ FreshInv /\ TableInv /\ ThreadInv /\ EndedIsQueued /\ GuestInv /\ HandlerInv
      /\ StreamInv
  BY DEF IndInv
<1>1. /\ conns' = conns /\ done' = done /\ made' = made /\ conn' = conn /\ cth' = cth /\ io' = io
      /\ fwd' = fwd /\ tries' = tries /\ handler' = handler
  BY DEF stackVars
<1>2. FreshInv' /\ TableInv' /\ EndedIsQueued' /\ HandlerInv'
  BY <1>0, <1>1 DEF FreshInv, TableInv, EndedIsQueued, HandlerInv
<1>3. ThreadInv'
  BY <1>0, <1>1 DEF ThreadInv
<1>4. StreamInv'
  <2> SUFFICES ASSUME NEW c \in 1..made PROVE Stream(c)'
    BY <1>1 DEF StreamInv
  <2>1. c \in Conns
    BY <1>0, StrideFacts, TypeParts DEF StackType, TableType, Conns
  <2>2. (Pend(c)' <=> Pend(c)) /\ (Left(c) => Left(c)')
    BY <1>1 DEF Pend, Left
  <2> QED BY <1>0, <1>1, <2>1, <2>2, StreamKept DEF StreamInv
<1> QED BY <1>2, <1>3, <1>4 DEF IndInv

\* What a receiving guest does to its record: the numbers it has sent stay.
LEMMA ReceiveStep ==
    ASSUME TypeOK, GuestInv, NEW k \in Keys, NEW s \in wire, GuestReceive(k, s)
    PROVE  \E h \in GuestRecs :
              /\ guest' = [guest EXCEPT ![k] = h] /\ \E m \in Incs : Numbers(h, m)
              /\ h.st # "synSent"
<1> USE StrideFacts
<1> DEFINE g == guest[k]
<1>1. g \in GuestRecs /\ guest \in [Keys -> GuestRecs] /\ s \in Segments
  BY TypeParts
<1>2. PICK m \in Incs : Numbers(g, m)
  BY DEF GuestInv
<1>3. s.byte \in (0..MaxConn) \X (0..MaxHost) /\ g.rcv + 1 \in Nat /\ g.got \in Seq((0..MaxConn) \X (0..MaxHost))
  BY <1>1 DEF Segments, GuestRecs
<1>4. PICK b \in Seq((0..MaxConn) \X (0..MaxHost)) : b = Append(g.got, s.byte)
  <2>1. ASSUME NEW S, NEW q \in Seq(S), NEW e \in S PROVE Append(q, e) \in Seq(S)
    OBVIOUS
  <2>2. Append(g.got, s.byte) \in Seq((0..MaxConn) \X (0..MaxHost))
    BY <1>3, <2>1
  <2> QED BY <2>2
<1>5. PICK r \in Nat : r = g.rcv + 1
  BY <1>3
<1>6. ASSUME NEW h \in GuestRecs, h.isn = g.isn, h.nxt = g.nxt,
             h.st \in {"closed", "reset", "finSent"} \/ (h.st = "est" /\ g.st \in {"synSent", "synRcvd", "est"})
      PROVE  Numbers(h, m) /\ h.st # "synSent"
  BY <1>2, <1>6 DEF Numbers
<1>7. CASE /\ s.flag = "SYN"
           /\ guest' = [guest EXCEPT ![k] = [@ EXCEPT !.st = "synRcvd", !.isn = Stride,
                          !.nxt = Stride + 1, !.rcv = 1, !.due = "SYNACK"]]
  <2>1. PICK n \in Nat : n = Stride + 1
    OBVIOUS
  <2> DEFINE h == [g EXCEPT !.st = "synRcvd", !.isn = Stride, !.nxt = n, !.rcv = 1, !.due = "SYNACK"]
  <2>2. h \in GuestRecs /\ h.st = "synRcvd" /\ h.isn = Stride /\ h.nxt = n
    BY <1>1 DEF GuestRecs
  <2>3. guest' = [guest EXCEPT ![k] = h]
    BY <1>7, <2>1
  <2> HIDE DEF h
  <2>4. 1 \in Incs /\ Numbers(h, 1)
    BY <2>1, <2>2, StartFacts DEF Incs, Numbers
  <2> QED BY <2>2, <2>3, <2>4
<1>8. CASE g.st = "synSent" /\ guest' = [guest EXCEPT ![k].st = "est", ![k].rcv = 1, ![k].due = "ACK"]
  <2> DEFINE h == [g EXCEPT !.st = "est", !.rcv = 1, !.due = "ACK"]
  <2>1. h \in GuestRecs /\ h.st = "est" /\ h.isn = g.isn /\ h.nxt = g.nxt
    BY <1>1 DEF GuestRecs
  <2>2. guest' = [guest EXCEPT ![k] = h]
    BY <1>8
  <2> HIDE DEF h
  <2> QED BY <1>6, <1>8, <2>1, <2>2
<1>9. CASE /\ g.st \in {"synRcvd", "est", "finSent"}
           /\ guest' = [guest EXCEPT ![k].st = IF @ = "synRcvd" THEN "est" ELSE @,
                          ![k].rcv = @ + 1, ![k].due = "ACK", ![k].got = Append(@, s.byte)]
  <2>1. PICK t \in {"est", "finSent"} : t = IF g.st = "synRcvd" THEN "est" ELSE g.st
    BY <1>9
  <2> DEFINE h == [g EXCEPT !.st = t, !.rcv = r, !.due = "ACK", !.got = b]
  <2>2. h \in GuestRecs /\ h.st = t /\ h.isn = g.isn /\ h.nxt = g.nxt
    BY <1>1, <1>4, <1>5 DEF GuestRecs
  <2>3. guest' = [guest EXCEPT ![k] = h]
    BY <1>1, <1>4, <1>5, <1>9, <2>1
  <2> HIDE DEF h
  <2> QED BY <1>6, <1>9, <2>1, <2>2, <2>3
<1>10. CASE /\ g.st \in {"synRcvd", "est", "finSent"}
            /\ guest' = [guest EXCEPT ![k].st = IF @ = "finSent" THEN "closed" ELSE "est",
                          ![k].rcv = @ + 1, ![k].due = "ACK", ![k].peerFin = TRUE]
  <2>1. PICK t \in {"est", "closed"} : t = IF g.st = "finSent" THEN "closed" ELSE "est"
    OBVIOUS
  <2> DEFINE h == [g EXCEPT !.st = t, !.rcv = r, !.due = "ACK", !.peerFin = TRUE]
  <2>2. h \in GuestRecs /\ h.st = t /\ h.isn = g.isn /\ h.nxt = g.nxt
    BY <1>1, <1>5 DEF GuestRecs
  <2>3. guest' = [guest EXCEPT ![k] = h]
    BY <1>1, <1>5, <1>10, <2>1
  <2> HIDE DEF h
  <2> QED BY <1>6, <1>10, <2>1, <2>2, <2>3
<1>11. CASE /\ g.st \in {"synRcvd", "est", "finSent"}
            /\ guest' = [guest EXCEPT ![k].st = IF @ = "synRcvd" THEN "est" ELSE @]
  <2>1. PICK t \in {"est", "finSent"} : t = IF g.st = "synRcvd" THEN "est" ELSE g.st
    BY <1>11
  <2> DEFINE h == [g EXCEPT !.st = t]
  <2>2. h \in GuestRecs /\ h.st = t /\ h.isn = g.isn /\ h.nxt = g.nxt
    BY <1>1 DEF GuestRecs
  <2>3. guest' = [guest EXCEPT ![k] = h]
    BY <1>1, <1>11, <2>1
  <2> HIDE DEF h
  <2> QED BY <1>6, <1>11, <2>1, <2>2, <2>3
<1>12. CASE guest' = [guest EXCEPT ![k].st = "reset", ![k].due = "none"]
  <2> DEFINE h == [g EXCEPT !.st = "reset", !.due = "none"]
  <2>1. h \in GuestRecs /\ h.st = "reset" /\ h.isn = g.isn /\ h.nxt = g.nxt
    BY <1>1 DEF GuestRecs
  <2>2. guest' = [guest EXCEPT ![k] = h]
    BY <1>12
  <2> HIDE DEF h
  <2> QED BY <1>6, <2>1, <2>2
<1> QED BY <1>7, <1>8, <1>9, <1>10, <1>11, <1>12 DEF GuestReceive

LEMMA ReceiveKeeps ==
    ASSUME IndInv, NEW k \in Keys, NEW s \in wire, GuestReceive(k, s)
    PROVE  IndInv'
<1>0. TypeOK /\ GuestInv
  BY DEF IndInv
<1>1. PICK h \in GuestRecs :
         /\ guest' = [guest EXCEPT ![k] = h] /\ \E m \in Incs : Numbers(h, m)
         /\ h.st # "synSent"
  BY <1>0, ReceiveStep
<1>2. UNCHANGED stackVars /\ host' = host /\ wire' \subseteq wire
  BY DEF GuestReceive
<1>3. /\ StackType /\ host \in [Conns -> HostRecs] /\ guest \in [Keys -> GuestRecs]
      /\ wire \subseteq Segments
  BY <1>0, TypeParts
<1>4. TypeOK'
  <2>1. StackType'
    BY <1>2, <1>3 DEF stackVars, StackType, TableType, ThreadType
  <2>2. (guest \in [Keys -> GuestRecs])' /\ (host \in [Conns -> HostRecs])'
    BY <1>1, <1>2, <1>3
  <2> QED BY <1>2, <1>3, <2>1, <2>2, TypePartsNext
<1>5. GuestInv'
  <2> SUFFICES ASSUME NEW q \in Keys
               PROVE  /\ \E p \in Incs : Numbers(guest'[q], p)
                      /\ guest'[q].st = "synSent" => q \in OutKeys
    BY DEF GuestInv, Numbers
  <2>1. CASE q = k
    BY <1>1, <1>3, <2>1
  <2>2. CASE q # k
    BY <1>0, <1>1, <1>3, <2>2 DEF GuestInv
  <2> QED BY <2>1, <2>2
<1> QED BY <1>2, <1>4, <1>5, StackKept

LEMMA LoseKeeps ==
    ASSUME IndInv, NEW s \in wire, Lose(s)
    PROVE  IndInv'
<1>0. TypeOK /\ GuestInv
  BY DEF IndInv
<1>1. UNCHANGED stackVars /\ host' = host /\ guest' = guest /\ wire' \subseteq wire
  BY DEF Lose
<1>2. /\ StackType /\ host \in [Conns -> HostRecs] /\ guest \in [Keys -> GuestRecs]
      /\ wire \subseteq Segments
  BY <1>0, TypeParts
<1>3. TypeOK'
  <2>1. StackType'
    BY <1>1, <1>2 DEF stackVars, StackType, TableType, ThreadType
  <2> QED BY <1>1, <1>2, <2>1, TypePartsNext
<1>4. GuestInv'
  BY <1>0, <1>1 DEF GuestInv, Numbers
<1> QED BY <1>1, <1>3, <1>4, StackKept

LEMMA HostKeeps ==
    ASSUME IndInv, NEW c \in Conns, HostSend(c) \/ HostClose(c)
    PROVE  IndInv'
<1> USE StrideFacts
<1>0. TypeOK /\ GuestInv /\ FreshInv
  BY DEF IndInv
<1>1. UNCHANGED stackVars /\ guest' = guest /\ wire' = wire /\ conn[c].fd
  BY DEF HostSend, HostClose
<1>2. /\ StackType /\ host \in [Conns -> HostRecs] /\ guest \in [Keys -> GuestRecs]
      /\ wire \subseteq Segments /\ MaxHost \in Nat /\ made \in 0..MaxConn
  BY <1>0, TypeParts, NatAssumption DEF StackType, TableType
<1>3. PICK h \in HostRecs : host' = [host EXCEPT ![c] = h] /\ h.got = host[c].got
  <2>1. host[c] \in HostRecs /\ host[c].sent \in 0..MaxHost
    BY <1>2 DEF HostRecs
  <2>2. CASE HostSend(c)
    <3>1. PICK n \in 0..MaxHost : n = host[c].sent + 1
      BY <1>2, <2>1, <2>2 DEF HostSend
    <3>2. [host[c] EXCEPT !.sent = n] \in HostRecs /\ [host[c] EXCEPT !.sent = n].got = host[c].got
      BY <2>1 DEF HostRecs
    <3> QED BY <2>2, <3>1, <3>2 DEF HostSend
  <2>3. CASE HostClose(c)
    <3>1. [host[c] EXCEPT !.eof = TRUE] \in HostRecs /\ [host[c] EXCEPT !.eof = TRUE].got = host[c].got
      BY <2>1 DEF HostRecs
    <3> QED BY <2>3, <3>1 DEF HostClose
  <2> QED BY <2>2, <2>3
<1>4. TypeOK'
  <2>1. StackType'
    BY <1>1, <1>2 DEF stackVars, StackType, TableType, ThreadType
  <2>2. (host \in [Conns -> HostRecs])'
    BY <1>2, <1>3
  <2> QED BY <1>1, <1>2, <2>1, <2>2, TypePartsNext
<1>5. GuestInv'
  BY <1>0, <1>1 DEF GuestInv, Numbers
<1>6. \A d \in Conns : host'[d].got = host[d].got /\ (d > made => host'[d] = host[d])
  <2>1. ~(c > made)
    BY <1>0, <1>1 DEF FreshInv, NewConn
  <2> QED BY <1>2, <1>3, <2>1
<1> QED BY <1>1, <1>4, <1>5, <1>6, StackKept

-----------------------------------------------------------------------------
(***************************************************************************)
(* The steps of the stack's threads.                                       *)
(***************************************************************************)
\* A segment is put on the wire.
LEMMA SegType ==
    ASSUME NEW k \in Keys, NEW flag \in Flags, NEW seq \in Nat, NEW ack \in Nat
    PROVE  Seg(k, flag, seq, ack) \in Segments
<1>1. NoByte \in (0..MaxConn) \X (0..MaxHost)
  BY NatAssumption DEF NoByte
<1> QED BY <1>1 DEF Seg, Segments

LEMMA FinishKeeps ==
    ASSUME IndInv, HandlerFinish
    PROVE  IndInv'
<1> USE StrideFacts
<1>0. /\ TypeOK /\ FreshInv /\ TableInv /\ ThreadInv /\ EndedIsQueued /\ GuestInv /\ HandlerInv
      /\ StreamInv
  BY DEF IndInv
<1>1. /\ StackType /\ host \in [Conns -> HostRecs] /\ guest \in [Keys -> GuestRecs]
      /\ wire \subseteq Segments /\ handler \in Handlers /\ made \in 0..MaxConn
  BY <1>0, TypeParts DEF StackType, TableType
<1>2. /\ conns' = conns /\ done' = done /\ made' = made /\ conn' = conn /\ cth' = cth /\ io' = io
      /\ fwd' = fwd /\ tries' = tries /\ guest' = guest /\ handler' = Idle
      /\ wire' = wire \cup {Seg(handler.key, handler.reply, handler.seq, handler.ack)}
  BY DEF HandlerFinish
<1>3. TableInv' /\ EndedIsQueued' /\ GuestInv'
  BY <1>0, <1>2 DEF TableInv, EndedIsQueued, GuestInv, Numbers
<1>4. ThreadInv'
  BY <1>0, <1>2 DEF ThreadInv
<1>5. HandlerInv'
  BY <1>2, HandlerRecs DEF HandlerInv
<1>6. wire' \subseteq Segments
  <2>1. handler.key \in Keys /\ handler.reply \in Flags /\ handler.seq \in Nat /\ handler.ack \in Nat
    BY <1>0, <1>1 DEF HandlerFinish, HandlerInv, Handlers, Flags
  <2> QED BY <1>1, <1>2, <2>1, SegType
<1>7. StackType'
  BY <1>1, <1>2, HandlerRecs DEF StackType, TableType, ThreadType
<1>8. CASE handler.data = 0
  <2>1. host' = host
    BY <1>8 DEF HandlerFinish
  <2>2. FreshInv'
    BY <1>0, <1>2, <2>1 DEF FreshInv
  <2>3. StreamInv'
    <3> SUFFICES ASSUME NEW c \in 1..made PROVE Stream(c)'
      BY <1>2 DEF StreamInv
    <3>1. ~Pend(c) /\ ~Pend(c)' /\ (Left(c) => Left(c)')
      BY <1>2, <1>8, HandlerRecs DEF Pend, Left
    <3> QED BY <1>0, <1>2, <2>1, <3>1, StreamKept DEF StreamInv
  <2> QED BY <1>1, <1>2, <1>3, <1>4, <1>5, <1>6, <1>7, <2>1, <2>2, <2>3, TypePartsNext DEF IndInv
<1>9. CASE handler.data # 0
  <2>1. PICK c \in Conns : c = handler.c /\ conn[c].key \in OutKeys /\ conn[c].fd
    BY <1>0, <1>9 DEF HandlerInv
  <2>2. c \in 1..made
    <3>1. conn[c].key # "none"
      BY <2>1, NatAssumption
    <3>2. ~(c > made)
      BY <1>0, <3>1 DEF FreshInv, NewConn
    <3> QED BY <1>1, <3>2 DEF Conns
  <2>a. PICK w \in Written : host' = [host EXCEPT ![c].got = Append(@, w)]
    BY <1>9, <2>1 DEF HandlerFinish
  <2>b. w \in {0, handler.data} /\ w \in Nat
    BY <1>1 DEF Written, Handlers
  <2>3. PICK b \in Seq(Nat) : b = Append(host[c].got, w)
    <3>1. host[c].got \in Seq(Nat)
      BY <1>1 DEF HostRecs
    <3>2. Append(host[c].got, w) \in Seq(Nat)
      BY <2>b, <3>1
    <3> QED BY <3>2
  <2>4. host' = [host EXCEPT ![c] = [host[c] EXCEPT !.got = b]]
    BY <2>a, <2>3
  <2>5. [host[c] EXCEPT !.got = b] \in HostRecs /\ [host[c] EXCEPT !.got = b].got = b
    BY <1>1 DEF HostRecs
  <2>6. /\ host' \in [Conns -> HostRecs] /\ host'[c].got = b
        /\ \A d \in Conns : d # c => host'[d] = host[d]
    BY <1>1, <2>4, <2>5
  <2>7. FreshInv'
    BY <1>0, <1>1, <1>2, <2>2, <2>6 DEF FreshInv, Conns
  <2>8. StreamInv'
    <3> SUFFICES ASSUME NEW d \in 1..made PROVE Stream(d)'
      BY <1>2 DEF StreamInv
    <3>1. ~Pend(d)' /\ (Left(d) => Left(d)') /\ d \in Conns /\ Stream(d)
      BY <1>0, <1>1, <1>2, HandlerRecs DEF Pend, Left, StreamInv, Conns
    <3>2. CASE d # c
      <4>1. ~Pend(d)
        BY <2>1, <3>2 DEF Pend
      <4> QED BY <1>2, <2>6, <3>1, <3>2, <4>1, StreamKept
    <3>3. CASE d = c
      <4>1. Pend(c)
        BY <1>9, <2>1 DEF Pend
      <4>2. PICK m \in Incs : OutStream(c, m)
        BY <2>1, <3>1, <3>3 DEF Stream
      <4>3. host[c].got \in Seq(Nat)
        BY <1>1, <2>1 DEF HostRecs
      <4>4. PICK l \in Nat : l = Len(host[c].got)
        <5>1. host[c].got \in Seq(Nat)
          BY <4>3
        <5>2. Len(host[c].got) \in Nat
          BY <5>1, LenProperties
        <5> QED BY <5>2
      <4>5. /\ \A i \in 1..l : host[c].got[i] \in {0, Start(m) + i}
            /\ l + 1 <= MaxGuest
            /\ conn[c].gNxt = Start(m) + 1 + (l + 1) \/ (Left(c) /\ conn[c].gNxt = Start(m) + 2 + (l + 1))
            /\ handler.data = Start(m) + (l + 1)
        BY <4>1, <4>2, <4>4 DEF OutStream
      <4>6. Len(b) = l + 1 /\ \A i \in 1..(l + 1) : b[i] \in {0, Start(m) + i}
        BY <2>b, <2>3, <4>3, <4>4, <4>5
      <4>7. OutStream(c, m)'
        <5>1. Len(host'[c].got) + 0 = l + 1 /\ host'[c].got = b /\ Len(host'[c].got) = l + 1
          BY <2>6, <4>6
        <5> QED BY <1>2, <3>1, <3>3, <4>5, <4>6, <5>1 DEF OutStream
      <4> QED BY <1>2, <2>1, <3>3, <4>7 DEF Stream
    <3> QED BY <3>2, <3>3
  <2> QED BY <1>1, <1>2, <1>3, <1>4, <1>5, <1>6, <1>7, <2>6, <2>7, <2>8, TypePartsNext DEF IndInv
<1> QED BY <1>8, <1>9

\* A thread of a connection c takes a step: the other connections stay, c keeps
\* its key and g_nxt, and no key enters the table but that of an injected c.
LEMMA ThreadKeeps ==
    ASSUME IndInv, TypeOK', NEW c \in 1..made, made' = made, handler' = handler, guest' = guest,
           \A d \in Conns \ {c} : /\ conn'[d] = conn[d] /\ cth'[d] = cth[d] /\ io'[d] = io[d]
                                  /\ fwd'[d] = fwd[d] /\ tries'[d] = tries[d] /\ host'[d] = host[d],
           host'[c].got = host[c].got,
           conn'[c].key = conn[c].key, conn'[c].gNxt = conn[c].gNxt, conn[c].fd => conn'[c].fd,
           \A q \in Keys : \/ conns'[q] \in {0, conns[q]}
                           \/ conns'[q] = c /\ q = conn[c].key /\ fwd[c] = "insert",
           fwd'[c] # "insert" \/ (fwd' = fwd /\ conns' = conns /\ io' = io /\ tries' = tries),
           fwd'[c] # "none" => conn[c].key \in InKeys, cth'[c] # "none" => conn[c].key \in OutKeys,
           io'[c] # "none" <=> conn'[c].state = "ESTABLISHED",
           conn'[c].state # "CONNECTING" => conn'[c].fd,
           cth'[c] \in {"connect", "fail"} => conn'[c].state = "CONNECTING",
           fwd'[c] = "syn" => tries'[c] < Attempts,
           EndedIsQueued'
    PROVE  IndInv'
<1> USE StrideFacts
<1>0. /\ TypeOK /\ FreshInv /\ TableInv /\ ThreadInv /\ EndedIsQueued /\ GuestInv /\ HandlerInv
      /\ StreamInv
  BY DEF IndInv
<1>1. /\ StackType /\ made \in 0..MaxConn /\ c \in Conns /\ c # 0 /\ c <= made
      /\ conns \in [Keys -> 0..MaxConn]
  BY <1>0, TypeParts DEF StackType, TableType, Conns
<1>2. \A d \in Conns : conn'[d].key = conn[d].key /\ conn'[d].gNxt = conn[d].gNxt
                       /\ (conn[d].fd => conn'[d].fd) /\ host'[d].got = host[d].got
  OBVIOUS
<1>3. conn[c].key \in Keys
  BY <1>0, <1>1 DEF ThreadInv
<1>4. FreshInv'
  BY <1>0, <1>1 DEF FreshInv
<1>5. TableInv'
  <2> SUFFICES ASSUME NEW q \in Keys, conns'[q] # 0
               PROVE  conns'[q] <= made /\ conn'[conns'[q]].key = q
    BY DEF TableInv
  <2>1. CASE conns'[q] = conns[q]
    <3>1. conns[q] \in Conns /\ conns[q] <= made /\ conn[conns[q]].key = q
      BY <1>0, <1>1, <2>1 DEF TableInv, Conns
    <3> QED BY <1>2, <2>1, <3>1
  <2>2. CASE conns'[q] = c /\ q = conn[c].key
    BY <1>1, <1>2, <2>2
  <2> QED BY <2>1, <2>2
<1>6. ThreadInv'
  <2> SUFFICES ASSUME NEW d \in Conns
               PROVE  /\ d <= made => conn'[d].key \in Keys
                      /\ fwd'[d] # "none" => conn'[d].key \in InKeys
                      /\ cth'[d] # "none" => conn'[d].key \in OutKeys
                      /\ io'[d] # "none" <=> conn'[d].state = "ESTABLISHED"
                      /\ conn'[d].state # "CONNECTING" => conn'[d].fd
                      /\ cth'[d] \in {"connect", "fail"} => conn'[d].state = "CONNECTING"
                      /\ fwd'[d] = "insert" => conns'[conn'[d].key] # d /\ io'[d] = "none" /\ tries'[d] = 0
                      /\ fwd'[d] = "syn" => tries'[d] < Attempts
    BY DEF ThreadInv
  <2>1. CASE d = c
    <3>1. fwd'[c] = "insert" => conns'[conn[c].key] # c /\ io'[c] = "none" /\ tries'[c] = 0
      BY <1>0, <1>1 DEF ThreadInv
    <3> QED BY <1>3, <2>1, <3>1
  <2>2. CASE d # c
    <3>1. fwd[d] = "insert" => conn[d].key \in Keys /\ conns[conn[d].key] # d
      BY <1>0 DEF ThreadInv, Keys
    <3>2. fwd[d] = "insert" => conns'[conn[d].key] # d
      BY <2>2, <3>1 DEF Conns
    <3> QED BY <1>0, <2>2, <3>2 DEF ThreadInv
  <2> QED BY <2>1, <2>2
<1>7. GuestInv'
  BY <1>0 DEF GuestInv, Numbers
<1>8. HandlerInv'
  BY <1>0, <1>2 DEF HandlerInv
<1>9. StreamInv'
  <2> SUFFICES ASSUME NEW d \in 1..made PROVE Stream(d)'
    BY DEF StreamInv
  <2>1. d \in Conns /\ d # 0 /\ conn[d].key \in Keys /\ Stream(d)
    BY <1>0, <1>1 DEF StreamInv, ThreadInv, Conns
  <2>2. (Pend(d)' <=> Pend(d)) /\ (Pend(d) => handler'.data = handler.data)
    BY DEF Pend
  <2>3. Left(d) => Left(d)'
    <3>1. CASE d = c
      BY <1>2, <2>1, <3>1 DEF Left
    <3>2. CASE d # c
      BY <1>2, <2>1, <3>2 DEF Left
    <3> QED BY <3>1, <3>2
  <2> QED BY <1>2, <2>1, <2>2, <2>3, StreamKept
<1> QED BY <1>4, <1>5, <1>6, <1>7, <1>8, <1>9 DEF IndInv

\* A connection that has a thread was made.
LEMMA HasThread ==
    ASSUME IndInv, NEW c \in Conns, cth[c] # "none" \/ io[c] # "none" \/ fwd[c] # "none"
    PROVE  /\ c \in 1..made /\ conn[c].key \in Keys /\ conn[c] \in Records /\ host[c] \in HostRecs
           /\ fwd[c] # "none" => conn[c].key \in InKeys /\ cth[c] = "none"
           /\ cth[c] # "none" => conn[c].key \in OutKeys /\ fwd[c] = "none"
           /\ io[c] # "none" <=> conn[c].state = "ESTABLISHED"
           /\ conn[c].state # "CONNECTING" => conn[c].fd
           /\ cth[c] \in {"connect", "fail"} => conn[c].state = "CONNECTING"
           /\ fwd[c] = "insert" => conns[conn[c].key] # c /\ io[c] = "none" /\ tries[c] = 0
           /\ fwd[c] = "syn" => tries[c] < Attempts
<1> USE StrideFacts
<1>1. /\ StackType /\ made \in 0..MaxConn /\ host \in [Conns -> HostRecs] /\ FreshInv /\ ThreadInv
  BY TypeParts DEF StackType, TableType, IndInv
<1>2. c \in 1..made
  BY <1>1 DEF FreshInv, Conns
<1> QED BY <1>1, <1>2, NatAssumption DEF ThreadInv, StackType

LEMMA ConnectKeeps ==
    ASSUME IndInv, NEW c \in Conns, ConnectStep(c)
    PROVE  IndInv'
<1> USE StrideFacts
<1>0. TypeOK /\ EndedIsQueued
  BY DEF IndInv
<1>1. /\ StackType /\ host \in [Conns -> HostRecs] /\ guest \in [Keys -> GuestRecs]
      /\ wire \subseteq Segments
  BY <1>0, TypeParts
<1>2. cth[c] # "none" /\ cth[c] \in CthPcs
  BY <1>1 DEF ConnectStep, Connected, SendSynAck, ConnectFails, ConnectErase, StackType, ThreadType
<1>3. /\ c \in 1..made /\ conn[c].key \in Keys /\ conn[c] \in Records /\ host[c] \in HostRecs
      /\ conn[c].key \in OutKeys /\ fwd[c] = "none"
      /\ io[c] # "none" <=> conn[c].state = "ESTABLISHED"
      /\ conn[c].state # "CONNECTING" => conn[c].fd
      /\ cth[c] \in {"connect", "fail"} => conn[c].state = "CONNECTING"
  BY <1>2, HasThread
<1>4. CASE Connected(c)
  <2>1. /\ conns' = conns /\ done' = done /\ made' = made /\ io' = io /\ fwd' = fwd /\ tries' = tries
        /\ handler' = handler /\ host' = host /\ guest' = guest /\ wire' = wire
        /\ cth[c] = "connect" /\ cth' = [cth EXCEPT ![c] = "synack"]
    BY <1>4 DEF Connected
  <2>2. PICK r \in Records : /\ conn' = [conn EXCEPT ![c] = r] /\ r.key = conn[c].key
                             /\ r.gNxt = conn[c].gNxt /\ r.fd /\ r.state = "SYNACK_SENT"
    <3> DEFINE r == [conn[c] EXCEPT !.fd = TRUE, !.state = "SYNACK_SENT"]
    <3>1. r \in Records /\ r.key = conn[c].key /\ r.gNxt = conn[c].gNxt /\ r.fd /\ r.state = "SYNACK_SENT"
      BY <1>3 DEF Records
    <3>2. conn' = [conn EXCEPT ![c] = r]
      BY <1>4 DEF Connected
    <3> HIDE DEF r
    <3> QED BY <3>1, <3>2
  <2>3. TypeOK'
    <3>1. StackType'
      BY <1>1, <2>1, <2>2 DEF StackType, TableType, ThreadType, CthPcs
    <3> QED BY <1>1, <2>1, <3>1, TypePartsNext
  <2>4. /\ conn'[c] = r /\ \A d \in Conns \ {c} : conn'[d] = conn[d] /\ cth'[d] = cth[d]
        /\ cth'[c] = "synack"
    BY <1>1, <2>1, <2>2 DEF StackType, ThreadType
  <2>5. EndedIsQueued'
    BY <1>0, <2>1 DEF EndedIsQueued
  <2> QED BY <1>3, <2>1, <2>2, <2>3, <2>4, <2>5, ThreadKeeps
<1>5. CASE SendSynAck(c)
  <2>1. /\ conns' = conns /\ done' = done /\ made' = made /\ io' = io /\ fwd' = fwd /\ tries' = tries
        /\ handler' = handler /\ host' = host /\ guest' = guest
        /\ wire' = wire \cup {Seg(conn[c].key, "SYNACK", conn[c].hNxt, conn[c].gNxt)}
        /\ cth[c] = "synack" /\ cth' = [cth EXCEPT ![c] = "exited"]
    BY <1>5 DEF SendSynAck
  <2>2. PICK r \in Records : /\ conn' = [conn EXCEPT ![c] = r] /\ r.key = conn[c].key
                             /\ r.gNxt = conn[c].gNxt /\ r.fd = conn[c].fd /\ r.state = conn[c].state
    <3>1. PICK h \in Nat : h = conn[c].hNxt + 1
      BY <1>3 DEF Records
    <3> DEFINE r == [conn[c] EXCEPT !.hNxt = h]
    <3>2. r \in Records /\ r.key = conn[c].key /\ r.gNxt = conn[c].gNxt /\ r.fd = conn[c].fd
          /\ r.state = conn[c].state
      BY <1>3 DEF Records
    <3>3. conn' = [conn EXCEPT ![c] = r]
      BY <1>5, <3>1 DEF SendSynAck
    <3> HIDE DEF r
    <3> QED BY <3>2, <3>3
  <2>3. TypeOK'
    <3>1. StackType'
      BY <1>1, <2>1, <2>2 DEF StackType, TableType, ThreadType, CthPcs
    <3>2. wire' \subseteq Segments
      <4>1. conn[c].hNxt \in Nat /\ conn[c].gNxt \in Nat /\ "SYNACK" \in Flags
        BY <1>3 DEF Records, Flags
      <4> QED BY <1>1, <1>3, <2>1, <4>1, SegType
    <3> QED BY <1>1, <2>1, <3>1, <3>2, TypePartsNext
  <2>4. /\ conn'[c] = r /\ \A d \in Conns \ {c} : conn'[d] = conn[d] /\ cth'[d] = cth[d]
        /\ cth'[c] = "exited"
    BY <1>1, <2>1, <2>2 DEF StackType, ThreadType
  <2>5. EndedIsQueued'
    BY <1>0, <2>1 DEF EndedIsQueued
  <2> QED BY <1>3, <2>1, <2>2, <2>3, <2>4, <2>5, ThreadKeeps
<1>6. CASE ConnectFails(c) \/ ConnectErase(c)
  <2>1. /\ done' = done /\ made' = made /\ conn' = conn /\ io' = io /\ fwd' = fwd /\ tries' = tries
        /\ handler' = handler /\ host' = host /\ guest' = guest /\ wire' = wire
        /\ cth[c] \in {"connect", "fail"}
        /\ conns' = conns \/ conns' = [conns EXCEPT ![conn[c].key] = 0]
    BY <1>6 DEF ConnectFails, ConnectErase
  <2>2. PICK t \in {"fail", "exited"} : cth' = [cth EXCEPT ![c] = t]
    BY <1>6 DEF ConnectFails, ConnectErase
  <2>3. TypeOK'
    <3>1. StackType'
      BY <1>1, <2>1, <2>2 DEF StackType, TableType, ThreadType, CthPcs
    <3> QED BY <1>1, <2>1, <3>1, TypePartsNext
  <2>4. /\ \A d \in Conns \ {c} : cth'[d] = cth[d]
        /\ cth'[c] = t /\ \A q \in Keys : conns'[q] \in {0, conns[q]}
    BY <1>1, <2>1, <2>2 DEF StackType, ThreadType, TableType
  <2>5. EndedIsQueued'
    BY <1>0, <2>1, <2>4 DEF EndedIsQueued
  <2> QED BY <1>3, <2>1, <2>2, <2>3, <2>4, <2>5, ThreadKeeps
<1> QED BY <1>4, <1>5, <1>6 DEF ConnectStep

\* What the IO thread of c does.
LEMMA IoEffect ==
    ASSUME IndInv, NEW c \in Conns, IoStep(c)
    PROVE  /\ io[c] # "none" /\ UNCHANGED IoVars
           /\ \E t \in IoPcs, r \in Records, h \in HostRecs :
                 /\ t # "none" /\ io' = [io EXCEPT ![c] = t]
                 /\ conn' = [conn EXCEPT ![c] = r] /\ r.key = conn[c].key /\ r.gNxt = conn[c].gNxt
                 /\ r.fd = conn[c].fd /\ r.state = conn[c].state
                 /\ host' = [host EXCEPT ![c] = h] /\ h.got = host[c].got
                 /\ t = "exited" => conn[c].key \in done'
           /\ done \subseteq done' /\ done' \subseteq Keys /\ wire' \subseteq Segments
<1> USE StrideFacts
<1>1. io[c] # "none" /\ UNCHANGED IoVars
  BY DEF IoStep, IoLoop, IoReserve, IoSend, IoCheck, IoFin, IoPush
<1>2. /\ StackType /\ host \in [Conns -> HostRecs] /\ wire \subseteq Segments
      /\ conn \in [Conns -> Records] /\ io \in [Conns -> IoPcs] /\ done \subseteq Keys
  BY TypeParts DEF IndInv, StackType, ThreadType, TableType
<1>3. /\ conn[c].key \in Keys /\ conn[c] \in Records /\ host[c] \in HostRecs /\ c \in 1..made
  BY <1>1, HasThread
<1>4. /\ conn[c].hNxt \in Nat /\ conn[c].gNxt \in Nat /\ host[c].seq \in Nat
      /\ host[c].read \in 0..MaxHost /\ host[c].sent \in 0..MaxHost /\ MaxHost \in Nat
  BY <1>3, NatAssumption DEF Records, HostRecs
<1>5. conn = [conn EXCEPT ![c] = conn[c]] /\ host = [host EXCEPT ![c] = host[c]]
  BY <1>2
<1>6. PICK h1 \in Nat : h1 = conn[c].hNxt + 1
  BY <1>4
<1> DEFINE a == [conn[c] EXCEPT !.hNxt = h1]
<1>7. /\ a \in Records /\ a.key = conn[c].key /\ a.gNxt = conn[c].gNxt
      /\ a.fd = conn[c].fd /\ a.state = conn[c].state
  BY <1>3 DEF Records
<1> DEFINE b == [host[c] EXCEPT !.seq = conn[c].hNxt]
<1>8. b \in HostRecs /\ b.got = host[c].got
  BY <1>3, <1>4 DEF HostRecs
<1>9. CASE IoLoop(c)
  <2>1. conn' = conn /\ done' = done /\ wire' = wire
    BY <1>9 DEF IoLoop
  <2>2. CASE host[c].read < host[c].sent /\ host' = [host EXCEPT ![c].read = @ + 1]
             /\ io' = [io EXCEPT ![c] = "reserve"]
    <3>1. PICK n \in 0..MaxHost : n = host[c].read + 1
      BY <1>4, <2>2
    <3> DEFINE h == [host[c] EXCEPT !.read = n]
    <3>2. h \in HostRecs /\ h.got = host[c].got
      BY <1>3 DEF HostRecs
    <3>3. host' = [host EXCEPT ![c] = h]
      BY <2>2, <3>1
    <3> HIDE DEF h
    <3> QED BY <1>1, <1>2, <1>3, <1>5, <2>1, <2>2, <3>2, <3>3 DEF IoPcs
  <2>3. CASE host' = host /\ io' = [io EXCEPT ![c] = "check"]
    BY <1>1, <1>2, <1>3, <1>5, <2>1, <2>3 DEF IoPcs
  <2> QED BY <1>9, <2>2, <2>3 DEF IoLoop
<1>10. CASE IoReserve(c)
  <2>1. /\ done' = done /\ wire' = wire /\ host' = [host EXCEPT ![c] = b]
        /\ conn' = [conn EXCEPT ![c] = a] /\ io' = [io EXCEPT ![c] = "send"]
    BY <1>6, <1>10 DEF IoReserve
  <2> HIDE DEF a, b
  <2> QED BY <1>1, <1>2, <1>7, <1>8, <2>1 DEF IoPcs
<1>11. CASE IoSend(c)
  <2>1. /\ done' = done /\ conn' = conn /\ host' = host /\ io' = [io EXCEPT ![c] = "loop"]
    BY <1>11 DEF IoSend
  <2>2. wire' \subseteq Segments
    <3>1. Seg(conn[c].key, "DATA", host[c].seq, conn[c].gNxt) \in Segments
      BY <1>3, <1>4, SegType DEF Flags
    <3>2. <<c, host[c].read>> \in (0..MaxConn) \X (0..MaxHost)
      BY <1>4 DEF Conns
    <3>3. ASSUME NEW s \in Segments, NEW y \in (0..MaxConn) \X (0..MaxHost)
          PROVE  [s EXCEPT !.byte = y] \in Segments
      BY DEF Segments
    <3>4. [Seg(conn[c].key, "DATA", host[c].seq, conn[c].gNxt) EXCEPT !.byte = <<c, host[c].read>>]
             \in Segments
      BY <3>1, <3>2, <3>3
    <3> QED BY <1>2, <1>11, <3>4 DEF IoSend
  <2> QED BY <1>1, <1>2, <1>3, <1>5, <2>1, <2>2 DEF IoPcs
<1>12. CASE IoCheck(c)
  <2>1. /\ done' = done /\ conn' = conn /\ host' = host /\ wire' = wire
    BY <1>12 DEF IoCheck
  <2>2. PICK t \in {"push", "fin"} : io' = [io EXCEPT ![c] = t]
    BY <1>12 DEF IoCheck
  <2> QED BY <1>1, <1>2, <1>3, <1>5, <2>1, <2>2 DEF IoPcs
<1>13. CASE IoFin(c)
  <2>1. /\ done' = done /\ conn' = [conn EXCEPT ![c] = a] /\ host' = host
        /\ io' = [io EXCEPT ![c] = "push"]
        /\ wire' = wire \cup {Seg(conn[c].key, "FIN", conn[c].hNxt, conn[c].gNxt)}
    BY <1>6, <1>13 DEF IoFin
  <2>2. wire' \subseteq Segments
    BY <1>2, <1>3, <1>4, <2>1, SegType DEF Flags
  <2> HIDE DEF a
  <2> QED BY <1>1, <1>2, <1>3, <1>5, <1>7, <2>1, <2>2 DEF IoPcs
<1>14. CASE IoPush(c)
  <2>1. /\ done' = done \cup {conn[c].key} /\ conn' = conn /\ host' = host /\ wire' = wire
        /\ io' = [io EXCEPT ![c] = "exited"]
    BY <1>14 DEF IoPush
  <2> QED BY <1>1, <1>2, <1>3, <1>5, <2>1 DEF IoPcs
<1> QED BY <1>9, <1>10, <1>11, <1>12, <1>13, <1>14 DEF IoStep

LEMMA IoKeeps ==
    ASSUME IndInv, NEW c \in Conns, IoStep(c)
    PROVE  IndInv'
<1> USE StrideFacts
<1>0. TypeOK /\ EndedIsQueued /\ TableInv
  BY DEF IndInv
<1>1. /\ StackType /\ host \in [Conns -> HostRecs] /\ guest \in [Keys -> GuestRecs]
  BY <1>0, TypeParts
<1>2. PICK t \in IoPcs, r \in Records, h \in HostRecs :
         /\ t # "none" /\ io' = [io EXCEPT ![c] = t]
         /\ conn' = [conn EXCEPT ![c] = r] /\ r.key = conn[c].key /\ r.gNxt = conn[c].gNxt
         /\ r.fd = conn[c].fd /\ r.state = conn[c].state
         /\ host' = [host EXCEPT ![c] = h] /\ h.got = host[c].got
         /\ t = "exited" => conn[c].key \in done'
  BY IoEffect
<1>3. /\ io[c] # "none" /\ done \subseteq done' /\ done' \subseteq Keys /\ wire' \subseteq Segments
      /\ conns' = conns /\ made' = made /\ cth' = cth /\ fwd' = fwd /\ tries' = tries
      /\ handler' = handler /\ guest' = guest
  BY IoEffect DEF IoVars
<1>4. /\ c \in 1..made
      /\ fwd[c] # "none" => conn[c].key \in InKeys
      /\ cth[c] # "none" => conn[c].key \in OutKeys
      /\ io[c] # "none" <=> conn[c].state = "ESTABLISHED"
      /\ conn[c].state # "CONNECTING" => conn[c].fd
      /\ cth[c] \in {"connect", "fail"} => conn[c].state = "CONNECTING"
      /\ fwd[c] # "insert"
      /\ fwd[c] = "syn" => tries[c] < Attempts
  BY <1>3, HasThread
<1>5. TypeOK'
  <2>1. StackType'
    BY <1>1, <1>2, <1>3 DEF StackType, TableType, ThreadType
  <2>2. host' \in [Conns -> HostRecs]
    BY <1>1, <1>2
  <2> QED BY <1>1, <1>3, <2>1, <2>2, TypePartsNext
<1>6. /\ conn'[c] = r /\ io'[c] = t /\ host'[c] = h
      /\ \A d \in Conns \ {c} : conn'[d] = conn[d] /\ io'[d] = io[d] /\ host'[d] = host[d]
  BY <1>1, <1>2 DEF StackType, ThreadType
<1>7. EndedIsQueued'
  <2> SUFFICES ASSUME NEW q \in Keys, conns[q] # 0, io'[conns[q]] = "exited" PROVE q \in done'
    BY <1>3 DEF EndedIsQueued
  <2>1. conns[q] \in Conns /\ conn[conns[q]].key = q
    BY <1>0, <1>1 DEF TableInv, StackType, TableType, Conns
  <2>2. CASE conns[q] = c
    BY <1>2, <1>6, <2>1, <2>2
  <2>3. CASE conns[q] # c
    BY <1>0, <1>3, <1>6, <2>1, <2>3 DEF EndedIsQueued
  <2> QED BY <2>2, <2>3
<1> QED BY <1>2, <1>3, <1>4, <1>5, <1>6, <1>7, ThreadKeeps

LEMMA FwdKeeps ==
    ASSUME IndInv, NEW c \in Conns, FwdStep(c)
    PROVE  IndInv'
<1> USE StrideFacts
<1>0. TypeOK /\ EndedIsQueued
  BY DEF IndInv
<1>1. /\ StackType /\ host \in [Conns -> HostRecs] /\ guest \in [Keys -> GuestRecs]
      /\ wire \subseteq Segments /\ Attempts \in Nat
  BY <1>0, TypeParts, NatAssumption
<1>2. /\ fwd[c] # "none" /\ made' = made /\ conn' = conn /\ done' = done /\ cth' = cth /\ io' = io
      /\ handler' = handler /\ host' = host /\ guest' = guest
  BY DEF FwdStep, FwdInsert, FwdSyn, FwdWait, FwdErase, FwdVars
<1>3. /\ c \in 1..made /\ conn[c].key \in Keys
      /\ conn[c].key \in InKeys /\ cth[c] = "none"
      /\ io[c] # "none" <=> conn[c].state = "ESTABLISHED"
      /\ conn[c].state # "CONNECTING" => conn[c].fd
      /\ fwd[c] = "insert" => conns[conn[c].key] # c /\ io[c] = "none" /\ tries[c] = 0
      /\ fwd[c] = "syn" => tries[c] < Attempts
  BY <1>2, HasThread
<1>4. tries \in [Conns -> 0..Attempts] /\ conns \in [Keys -> 0..MaxConn]
  BY <1>1 DEF StackType, ThreadType, TableType
<1>5. PICK t \in FwdPcs, n \in 0..Attempts :
         /\ fwd' = [fwd EXCEPT ![c] = t] /\ tries' = [tries EXCEPT ![c] = n]
         /\ t \notin {"none", "insert"} /\ (t = "syn" => n < Attempts)
         /\ wire' \subseteq Segments
         /\ \/ conns' = conns
            \/ conns' = [conns EXCEPT ![conn[c].key] = 0]
            \/ conns' = [conns EXCEPT ![conn[c].key] = c] /\ fwd[c] = "insert"
  <2>1. tries = [tries EXCEPT ![c] = tries[c]]
    BY <1>4
  <2>2. CASE FwdInsert(c)
    <3>1. /\ fwd[c] = "insert" /\ fwd' = [fwd EXCEPT ![c] = "syn"] /\ tries' = tries /\ wire' = wire
          /\ conns' = [conns EXCEPT ![conn[c].key] = IF conns[conn[c].key] = 0 THEN c ELSE conns[conn[c].key]]
      BY <2>2 DEF FwdInsert
    <3>2. conns' = conns \/ conns' = [conns EXCEPT ![conn[c].key] = c]
      BY <1>3, <1>4, <3>1
    <3>3. tries[c] \in 0..Attempts /\ tries[c] < Attempts
      BY <1>3, <1>4, <3>1, NatAssumption
    <3> QED BY <1>1, <2>1, <3>1, <3>2, <3>3 DEF FwdPcs
  <2>3. CASE FwdSyn(c)
    <3>1. /\ fwd[c] = "syn" /\ fwd' = [fwd EXCEPT ![c] = "wait"] /\ conns' = conns
          /\ tries' = [tries EXCEPT ![c] = tries[c] + 1]
          /\ wire' = wire \cup {Seg(conn[c].key, "SYN", 0, 0)}
      BY <2>3 DEF FwdSyn
    <3>2. tries[c] + 1 \in 0..Attempts /\ wire' \subseteq Segments
      BY <1>1, <1>3, <1>4, <3>1, SegType DEF Flags
    <3> QED BY <3>1, <3>2 DEF FwdPcs
  <2>4. CASE FwdWait(c)
    <3>1. PICK t \in {"exited", "syn", "erase"} :
             fwd' = [fwd EXCEPT ![c] = t] /\ (t = "syn" => tries[c] < Attempts)
      BY <2>4 DEF FwdWait
    <3>2. tries' = tries /\ wire' = wire /\ conns' = conns /\ tries[c] \in 0..Attempts
      BY <1>4, <2>4 DEF FwdWait
    <3> QED BY <1>1, <2>1, <3>1, <3>2 DEF FwdPcs
  <2>5. CASE FwdErase(c)
    <3>1. /\ fwd' = [fwd EXCEPT ![c] = "exited"] /\ tries' = tries /\ wire' = wire
          /\ conns' = [conns EXCEPT ![conn[c].key] = 0] /\ tries[c] \in 0..Attempts
      BY <1>4, <2>5 DEF FwdErase
    <3> QED BY <1>1, <2>1, <3>1 DEF FwdPcs
  <2> QED BY <2>2, <2>3, <2>4, <2>5 DEF FwdStep
<1>6. TypeOK'
  <2>1. conns' \in [Keys -> 0..MaxConn]
    BY <1>3, <1>4, <1>5 DEF Conns
  <2>2. StackType'
    BY <1>1, <1>2, <1>5, <2>1 DEF StackType, TableType, ThreadType
  <2> QED BY <1>1, <1>2, <1>5, <2>2, TypePartsNext
<1>7. /\ fwd'[c] = t /\ tries'[c] = n
      /\ \A d \in Conns \ {c} : fwd'[d] = fwd[d] /\ tries'[d] = tries[d]
  BY <1>1, <1>4, <1>5 DEF StackType, ThreadType
<1>8. \A q \in Keys : \/ conns'[q] \in {0, conns[q]}
                      \/ conns'[q] = c /\ q = conn[c].key /\ fwd[c] = "insert"
  BY <1>3, <1>4, <1>5
<1>9. EndedIsQueued'
  <2> SUFFICES ASSUME NEW q \in Keys, conns'[q] # 0, io[conns'[q]] = "exited" PROVE q \in done
    BY <1>2 DEF EndedIsQueued
  <2>1. conns'[q] = conns[q]
    BY <1>3, <1>8
  <2> QED BY <1>0, <2>1 DEF EndedIsQueued
<1> QED BY <1>2, <1>3, <1>5, <1>6, <1>7, <1>8, <1>9, ThreadKeeps

LEMMA AcceptKeeps ==
    ASSUME IndInv, NEW k \in InKeys, FwdAccept(k)
    PROVE  IndInv'
<1> USE StrideFacts
<1>0. /\ TypeOK /\ FreshInv /\ TableInv /\ ThreadInv /\ EndedIsQueued /\ GuestInv /\ HandlerInv
      /\ StreamInv
  BY DEF IndInv
<1>1. /\ StackType /\ host \in [Conns -> HostRecs] /\ guest \in [Keys -> GuestRecs]
      /\ wire \subseteq Segments /\ made \in 0..MaxConn /\ conns \in [Keys -> 0..MaxConn]
      /\ conn \in [Conns -> Records] /\ fwd \in [Conns -> FwdPcs]
  BY <1>0, TypeParts DEF StackType, TableType, ThreadType
<1>2. PICK n \in Conns : n = made + 1
  BY <1>1 DEF FwdAccept, Conns
<1>3. /\ n > made /\ n # 0 /\ k \in Keys /\ k \notin OutKeys
  BY <1>1, <1>2, NatAssumption DEF Keys, Conns
<1>4. /\ made' = n /\ conns' = conns /\ tries' = tries /\ wire' = wire /\ done' = done /\ cth' = cth
      /\ io' = io /\ handler' = handler /\ host' = host /\ guest' = guest
      /\ fwd' = [fwd EXCEPT ![n] = "insert"]
  BY <1>2 DEF FwdAccept, FwdVars
<1>5. PICK r \in Records : /\ conn' = [conn EXCEPT ![n] = r] /\ r.key = k /\ r.gNxt = 0 /\ r.fd
                           /\ r.state = "SYNACK_SENT"
  <2> DEFINE r == [conn[n] EXCEPT !.key = k, !.fd = TRUE, !.hNxt = 1, !.state = "SYNACK_SENT"]
  <2>1. conn[n] = NewConn /\ conn[n] \in Records /\ conn[n].gNxt = 0
    BY <1>0, <1>1, <1>3 DEF FreshInv, NewConn
  <2>2. r \in Records /\ r.key = k /\ r.gNxt = conn[n].gNxt /\ r.fd /\ r.state = "SYNACK_SENT"
    BY <1>3, <2>1 DEF Records
  <2>3. conn' = [conn EXCEPT ![n] = r]
    BY <1>2 DEF FwdAccept
  <2> HIDE DEF r
  <2> QED BY <2>1, <2>2, <2>3
<1>6. /\ conn'[n] = r /\ fwd'[n] = "insert"
      /\ \A d \in Conns \ {n} : conn'[d] = conn[d] /\ fwd'[d] = fwd[d]
  BY <1>1, <1>4, <1>5
<1>7. /\ conn[n] = NewConn /\ host[n] = NewHost /\ tries[n] = 0 /\ cth[n] = "none" /\ io[n] = "none"
      /\ fwd[n] = "none"
  BY <1>0, <1>3 DEF FreshInv
<1>8. TypeOK'
  <2>1. StackType'
    BY <1>1, <1>4, <1>5 DEF StackType, TableType, ThreadType, FwdPcs, Conns
  <2> QED BY <1>1, <1>4, <2>1, TypePartsNext
<1>9. FreshInv'
  <2>1. \A d \in Conns : d > n => d > made /\ d # n
    BY <1>1, <1>2 DEF Conns
  <2> QED BY <1>0, <1>4, <1>6, <2>1 DEF FreshInv
<1>10. \A q \in Keys : conns[q] # 0 => conns[q] \in Conns /\ conns[q] # n /\ conns[q] <= made
  BY <1>0, <1>1, <1>3 DEF TableInv, Conns
<1>11. TableInv' /\ EndedIsQueued'
  <2>1. TableInv'
    BY <1>0, <1>1, <1>2, <1>4, <1>6, <1>10 DEF TableInv, Conns
  <2>2. EndedIsQueued'
    BY <1>0, <1>4 DEF EndedIsQueued
  <2> QED BY <2>1, <2>2
<1>12. ThreadInv'
  <2> SUFFICES ASSUME NEW d \in Conns
               PROVE  /\ d <= made' => conn'[d].key \in Keys
                      /\ fwd'[d] # "none" => conn'[d].key \in InKeys
                      /\ cth[d] # "none" => conn'[d].key \in OutKeys
                      /\ io[d] # "none" <=> conn'[d].state = "ESTABLISHED"
                      /\ conn'[d].state # "CONNECTING" => conn'[d].fd
                      /\ cth[d] \in {"connect", "fail"} => conn'[d].state = "CONNECTING"
                      /\ fwd'[d] = "insert" => conns[conn'[d].key] # d /\ io[d] = "none" /\ tries[d] = 0
                      /\ fwd'[d] = "syn" => tries[d] < Attempts
    BY <1>4 DEF ThreadInv
  <2>1. CASE d = n
    BY <1>3, <1>5, <1>6, <1>7, <1>10, <2>1
  <2>2. CASE d # n
    <3>1. d <= made' => d <= made
      BY <1>1, <1>2, <1>4, <2>2 DEF Conns
    <3> QED BY <1>0, <1>6, <2>2, <3>1 DEF ThreadInv
  <2> QED BY <2>1, <2>2
<1>13. GuestInv'
  BY <1>0, <1>4 DEF GuestInv, Numbers
<1>14. handler.data # 0 => handler.c # n
  BY <1>0, <1>7, NatAssumption DEF HandlerInv, NewConn
<1>15. HandlerInv'
  BY <1>0, <1>4, <1>6, <1>14 DEF HandlerInv
<1>16. StreamInv'
  <2>1. Stream(n)'
    <3>1. host'[n].got = <<>> /\ conn'[n].gNxt = 0 /\ conn'[n].key = k /\ ~Pend(n)'
      BY <1>4, <1>5, <1>6, <1>7, <1>14 DEF NewHost, Pend
    <3> QED BY <1>3, <3>1 DEF Stream, InStream
  <2>2. ASSUME NEW d \in 1..made PROVE Stream(d)'
    <3>1. d \in Conns /\ d # n /\ Stream(d)
      BY <1>0, <1>1, <1>3 DEF Conns, StreamInv
    <3>2. (Pend(d)' <=> Pend(d)) /\ (Left(d) => Left(d)')
      BY <1>4, <1>6, <3>1 DEF Pend, Left
    <3> QED BY <1>4, <1>6, <3>1, <3>2, StreamKept
  <2>3. \A d \in 1..n : d = n \/ d \in 1..made
    BY <1>1, <1>2
  <2> QED BY <1>4, <2>1, <2>2, <2>3 DEF StreamInv
<1> QED BY <1>8, <1>9, <1>11, <1>12, <1>13, <1>15, <1>16 DEF IndInv

-----------------------------------------------------------------------------
(***************************************************************************)
(* The theorems for every guest.                                           *)
(***************************************************************************)
LEMMA InitInd == Init => IndInv
<1> SUFFICES ASSUME Init PROVE IndInv
  OBVIOUS
<1> USE StrideFacts
<1>1. /\ conns = [k \in Keys |-> 0] /\ done = {} /\ made = 0 /\ conn = [c \in Conns |-> NewConn]
      /\ cth = [c \in Conns |-> "none"] /\ io = [c \in Conns |-> "none"]
      /\ fwd = [c \in Conns |-> "none"] /\ tries = [c \in Conns |-> 0] /\ handler = Idle
      /\ host = [c \in Conns |-> NewHost] /\ wire = {}
  BY DEF Init, NewConn, NewHost
<1>2. TypeOK
  <2>1. NewConn \in Records
    BY DEF NewConn, Records
  <2>2. NewHost \in HostRecs
    BY NatAssumption DEF NewHost, HostRecs
  <2>3. guest \in [Keys -> GuestRecs]
    <3>1. [st |-> "closed", isn |-> 0, nxt |-> 0, rcv |-> 0, due |-> "none", got |-> <<>>,
           peerFin |-> FALSE] \in GuestRecs
      BY DEF GuestRecs
    <3> QED BY <3>1 DEF Init
  <2>4. StackType
    <3>1. TableType
      BY <1>1 DEF TableType
    <3>2. ThreadType
      BY <1>1, NatAssumption DEF ThreadType, CthPcs, IoPcs, FwdPcs
    <3>3. conn \in [Conns -> Records]
      BY <1>1, <2>1
    <3> QED BY <1>1, <3>1, <3>2, <3>3, HandlerRecs DEF StackType
  <2>5. host \in [Conns -> HostRecs]
    BY <1>1, <2>2
  <2> QED BY <1>1, <2>3, <2>4, <2>5, TypeParts
<1>3. FreshInv
  BY <1>1 DEF FreshInv
<1>4. TableInv /\ EndedIsQueued
  BY <1>1 DEF TableInv, EndedIsQueued
<1>5. ThreadInv
  <2>1. NewConn.key = "none" /\ NewConn.state = "CONNECTING"
    BY DEF NewConn
  <2>2. \A c \in Conns : ~(c <= made)
    BY <1>1 DEF Conns
  <2> QED BY <1>1, <2>1, <2>2 DEF ThreadInv
<1>6. GuestInv
  <2>1. 0 \in Incs
    BY DEF Incs
  <2>2. \A k \in Keys : guest[k].st = "closed" /\ guest[k].isn = 0 /\ guest[k].nxt = 0
    BY DEF Init
  <2> QED BY <2>1, <2>2, StartFacts DEF GuestInv, Numbers
<1>7. HandlerInv
  BY <1>1, HandlerRecs DEF HandlerInv
<1>8. StreamInv
  BY <1>1 DEF StreamInv
<1> QED BY <1>2, <1>3, <1>4, <1>5, <1>6, <1>7, <1>8 DEF IndInv

LEMMA NextInd == IndInv /\ [Next]_vars => IndInv'
<1> SUFFICES ASSUME IndInv, [Next]_vars PROVE IndInv'
  OBVIOUS
<1>1. CASE \E k \in Keys : GuestStep(k)
  <2>1. PICK k \in Keys : GuestStep(k)
    BY <1>1
  <2>2. CASE GuestSend(k)
    BY <2>2, GuestSendKeeps
  <2>3. CASE \E s \in wire : GuestReceive(k, s)
    BY <2>3, ReceiveKeeps
  <2> QED BY <2>1, <2>2, <2>3 DEF GuestStep, GuestSend
<1>2. CASE \E k \in InKeys : FwdAccept(k)
  BY <1>2, AcceptKeeps
<1>3. CASE \E c \in Conns : ConnectStep(c) \/ IoStep(c) \/ FwdStep(c) \/ HostSend(c) \/ HostClose(c)
  BY <1>3, ConnectKeeps, IoKeeps, FwdKeeps, HostKeeps
<1>4. CASE HandlerFinish
  BY <1>4, FinishKeeps
<1>5. CASE \E s \in wire : Lose(s)
  BY <1>5, LoseKeeps
<1>6. CASE UNCHANGED vars
  <2>1. /\ UNCHANGED stackVars /\ host' = host /\ guest' = guest /\ wire' = wire
    BY <1>6 DEF vars
  <2>2. /\ StackType /\ host \in [Conns -> HostRecs] /\ guest \in [Keys -> GuestRecs]
        /\ wire \subseteq Segments
    BY TypeParts DEF IndInv
  <2>3. StackType'
    BY <2>1, <2>2 DEF stackVars, StackType, TableType, ThreadType
  <2>4. TypeOK'
    BY <2>1, <2>2, <2>3, TypePartsNext
  <2>5. GuestInv'
    BY <2>1 DEF GuestInv, Numbers, IndInv
  <2> QED BY <2>1, <2>4, <2>5, StackKept
<1> QED BY <1>1, <1>2, <1>3, <1>4, <1>5, <1>6 DEF Next

\* The invariant above holds in every state, for any guest and any network.
THEOREM Inductive == Spec => []IndInv
  BY InitInd, NextInd, PTL DEF Spec

\* The table, the TcpConns, the threads' places and the segments keep their types.
THEOREM Typing == Spec => []TypeOK
<1>1. IndInv => TypeOK
  BY DEF IndInv
<1> QED BY <1>1, Inductive, PTL

\* The i-th byte handle_tcp writes to a host socket is the i-th byte the guest
\* sent on one connection, whatever it retransmits, with or without its FIN,
\* reuses or aborts; a write that fails leaves a hole and shifts nothing.
THEOREM HostPrefix == Spec => []HostGetsPrefix
<1>1. IndInv => HostGetsPrefix
  <2> SUFFICES ASSUME IndInv, NEW c \in Conns, NEW i \in DOMAIN host[c].got
               PROVE  host[c].got[i] \in {0, Stride * (conn[c].gNxt \div Stride) + i}
    BY DEF HostGetsPrefix
  <2> USE StrideFacts
  <2>1. /\ made \in 0..MaxConn /\ host[c].got \in Seq(Nat) /\ conn[c].gNxt \in Nat
        /\ FreshInv /\ StreamInv
    BY TypeParts DEF IndInv, StackType, TableType, HostRecs, Records
  <2>2. i \in 1..Len(host[c].got) /\ Len(host[c].got) \in Nat
    BY <2>1
  <2>3. host[c].got # <<>>
    BY <2>2
  <2>4. c \in 1..made
    BY <2>1, <2>3 DEF FreshInv, NewHost, Conns
  <2>5. PICK m \in Incs : OutStream(c, m)
    BY <2>1, <2>3, <2>4 DEF StreamInv, Stream, InStream
  <2>6. /\ host[c].got[i] \in {0, Start(m) + i} /\ Start(m) \in Nat
        /\ Start(m) <= conn[c].gNxt /\ conn[c].gNxt < Start(m) + Stride
    <3>1. Start(m) \in Nat
      BY StartFacts
    <3>2. PICK n \in Nat : /\ n <= MaxGuest
                           /\ conn[c].gNxt = Start(m) + 1 + n \/ conn[c].gNxt = Start(m) + 2 + n
      <4>1. Len(host[c].got) + (IF Pend(c) THEN 1 ELSE 0) \in Nat
        <5>1. CASE Pend(c)
          BY <2>2, <5>1
        <5>2. CASE ~Pend(c)
          BY <2>2, <5>2
        <5> QED BY <5>1, <5>2
      <4> QED BY <2>5, <4>1 DEF OutStream
    <3>3. host[c].got[i] \in {0, Start(m) + i}
      BY <2>2, <2>5 DEF OutStream
    <3> QED BY <3>1, <3>2, <3>3
  <2> QED BY <2>1, <2>6, StartDiv
<1> QED BY <1>1, Inductive, PTL

\* A connection whose IO thread has ended has its key in done_queue as long as
\* it is in the table, whichever thread erased or inserted the key meanwhile.
THEOREM EndedQueued == Spec => []EndedIsQueued
<1>1. IndInv => EndedIsQueued
  BY DEF IndInv
<1> QED BY <1>1, Inductive, PTL

-----------------------------------------------------------------------------
(***************************************************************************)
(* The guest's side: steps that neither make a connection of k nor move    *)
(* its threads nor give the guest data.                                    *)
(***************************************************************************)
\* The guest's record goes from g to h without receiving.
Quieter(g, h) ==
    /\ SameReceiver(g, h) /\ h.due \in {"none", g.due}
    /\ \/ h.st = g.st \/ h.st = "closed" \/ (h.st = "reset" /\ g.st # "closed")
       \/ h.st = "finSent" /\ g.st \in {"est", "finSent"} /\ (g.st = "finSent" \/ ~g.peerFin)

\* What a step may put on the wire for k without anybody having drawn a number.
QuietWire(k) ==
    \A s \in wire' : s.key = k =>
        s \in wire \/ s.flag \in {"ACK", "RST"}
                   \/ (s.flag = "FIN" /\ guest'[k].st \notin {"synSent", "est"})

LEMMA KeyKept ==
    ASSUME NEW k \in OutKeys, KeyInv(k), Of(k)' = Of(k), Quieter(guest[k], guest'[k]),
           \A c \in Of(k) :
              /\ conn'[c].gNxt \in (guest[k].isn + 1)..(guest[k].isn + MaxGuest + 2)
              /\ cth'[c] = cth[c] /\ host'[c].read = host[c].read
              /\ conn'[c].state = "CONNECTING" <=> conn[c].state = "CONNECTING"
              /\ \/ io'[c] = io[c]
                 \/ /\ io[c] = "none" /\ io'[c] = "loop" /\ cth[c] = "exited"
                    /\ Len(guest[k].got) <= host[c].read /\ guest[k].st # "synSent",
           DrawInv(k)', QuietWire(k), k \in done' => k \in done,
           conns'[k] = conns[k] \/ guest'[k].st # "synSent",
           handler'.reply = "FIN" /\ handler'.key = k =>
              (handler.reply = "FIN" /\ handler.key = k) \/ guest'[k].st \notin {"synSent", "est"}
    PROVE  KeyInv(k)'
<1> DEFINE g == guest[k]
           h == guest'[k]
<1>0. AliveInv(k) /\ OpenInv(k) /\ DrawInv(k) /\ WireInv(k) /\ PlaceInv(k) /\ FinInv(k)
  BY DEF KeyInv
<1>1. /\ h.isn = g.isn /\ h.rcv = g.rcv /\ h.got = g.got /\ h.peerFin = g.peerFin
      /\ h.due \in {"none", g.due}
      /\ \/ h.st = g.st \/ h.st = "closed" \/ (h.st = "reset" /\ g.st # "closed")
         \/ h.st = "finSent" /\ g.st \in {"est", "finSent"} /\ (g.st = "finSent" \/ ~g.peerFin)
  BY DEF Quieter, SameReceiver
<1>2. \A c \in Of(k) : (Dead(c)' <=> Dead(c)) /\ (Shaken(c)' <=> Shaken(c))
  BY DEF Dead, Shaken
<1>3. AliveInv(k)'
  BY <1>0, <1>1, <1>2 DEF AliveInv
<1>4. OpenInv(k)'
  <2>1. h.st = "synSent" =>
          /\ k \notin done' /\ h.due = "none" /\ h.got = <<>> /\ ~h.peerFin
          /\ \A c \in Of(k) : Dead(c)' \/ (conns'[k] = c /\ io'[c] = "none")
    BY <1>0, <1>1, <1>2 DEF OpenInv
  <2>2. h.st \in {"est", "finSent"} \/ h.due # "none" => \E c \in Of(k) : Shaken(c)'
    BY <1>0, <1>1, <1>2 DEF OpenInv
  <2>3. \A s \in wire' : s.key = k /\ s.flag = "SYNACK" => \E c \in Of(k) : Shaken(c)'
    BY <1>0, <1>2 DEF OpenInv, QuietWire
  <2> QED BY <2>1, <2>2, <2>3 DEF OpenInv
<1>5. \A s \in wire' : Data(s, k) => s \in wire
  BY DEF QuietWire, Data
<1>6. WireInv(k)'
  <2>1. \A s \in wire' : Data(s, k) =>
          \E c \in Of(k) : \E j \in 1..host'[c].read :
             /\ io'[c] # "none" /\ s.byte = <<c, j>>
             /\ s.seq = j \/ (s.seq = j + 1 /\ Len(h.got) < j)
    <3> SUFFICES ASSUME NEW s \in wire, Data(s, k)
                 PROVE  \E c \in Of(k) : \E j \in 1..host'[c].read :
                           /\ io'[c] # "none" /\ s.byte = <<c, j>>
                           /\ s.seq = j \/ (s.seq = j + 1 /\ Len(h.got) < j)
      BY <1>5
    <3>1. PICK c \in Of(k) : \E j \in 1..host[c].read :
             /\ io[c] # "none" /\ s.byte = <<c, j>>
             /\ s.seq = j \/ (s.seq = j + 1 /\ Len(g.got) < j)
      BY <1>0 DEF WireInv
    <3> QED BY <1>1, <3>1
  <2>2. \A s, t \in wire' : Data(s, k) /\ Data(t, k) /\ s.byte = t.byte => s.seq = t.seq
    BY <1>0, <1>5 DEF WireInv
  <2>3. \A c \in Of(k) : io'[c] # "none" => Len(h.got) <= host'[c].read
    BY <1>0, <1>1 DEF WireInv
  <2>4. \A c \in Of(k) : io'[c] \in {"reserve", "send"} =>
          /\ Len(h.got) < host'[c].read
          /\ \A s \in wire' : Data(s, k) => s.byte # <<c, host'[c].read>>
    BY <1>0, <1>1, <1>5 DEF WireInv
  <2> QED BY <2>1, <2>2, <2>3, <2>4 DEF WireInv, Data
<1>7. PlaceInv(k)'
  <2>1. \A i \in 1..Len(h.got) : \E c \in Of(k) : io'[c] # "none" /\ h.got[i] = <<c, i>>
    BY <1>0, <1>1 DEF PlaceInv
  <2>2. /\ h.st = "finSent" => ~h.peerFin
        /\ h.st \in {"est", "finSent"} /\ ~h.peerFin => h.rcv = Len(h.got) + 1
    BY <1>0, <1>1 DEF PlaceInv
  <2>3. h.st = "est" /\ h.peerFin =>
          \E c \in Of(k) : io'[c] \in {"push", "exited"} /\ h.rcv > host'[c].read + 1
    BY <1>0, <1>1 DEF PlaceInv
  <2> QED BY <2>1, <2>2, <2>3 DEF PlaceInv
<1>8. FinInv(k)'
  <2> SUFFICES ASSUME h.st \in {"synSent", "est"}
               PROVE  /\ \A s \in wire' : s.key = k /\ s.flag = "FIN" =>
                           \E c \in Of(k) : io'[c] \in {"push", "exited"} /\ s.seq > host'[c].read
                      /\ ~(handler'.reply = "FIN" /\ handler'.key = k)
    BY DEF FinInv
  <2>1. g.st \in {"synSent", "est"}
    BY <1>1
  <2>2. \A s \in wire' : s.key = k /\ s.flag = "FIN" => s \in wire
    BY DEF QuietWire
  <2>3. \A s \in wire : s.key = k /\ s.flag = "FIN" =>
                           \E c \in Of(k) : io[c] \in {"push", "exited"} /\ s.seq > host[c].read
    BY <1>0, <2>1 DEF FinInv
  <2>4. \A s \in wire : s.key = k /\ s.flag = "FIN" =>
                           \E c \in Of(k) : io'[c] \in {"push", "exited"} /\ s.seq > host'[c].read
    BY <2>3
  <2> QED BY <1>0, <2>1, <2>2, <2>4 DEF FinInv
<1> QED BY <1>3, <1>4, <1>6, <1>7, <1>8 DEF KeyInv

\* Nothing changes that the numbers depend on.
LEMMA DrawKept ==
    ASSUME NEW k \in OutKeys, DrawInv(k), Of(k)' = Of(k), Quieter(guest[k], guest'[k]),
           conns'[k] \in {0, conns[k]},
           NEW c \in Of(k), conn'[c].hNxt = conn[c].hNxt, conn[c].stop => conn'[c].stop,
           conn'[c].state = "CONNECTING" <=> conn[c].state = "CONNECTING",
           cth'[c] = cth[c], io'[c] = io[c],
           host'[c].read = host[c].read, host'[c].seq = host[c].seq
    PROVE  /\ io'[c] = "none" => host'[c].read = 0 /\ conn'[c].hNxt = (IF Shaken(c)' THEN 1 ELSE 0)
           /\ io'[c] # "none" =>
                 \/ Exact(c)'
                 \/ Over(c)' /\ conn'[c].stop /\ conns'[k] # c /\ guest'[k].st \notin {"synSent", "est"}
<1>1. (Exact(c) => Exact(c)') /\ (Over(c) => Over(c)') /\ (Shaken(c)' <=> Shaken(c))
  BY DEF Exact, Over, Shaken
<1>2. c # 0
  BY StrideFacts DEF Of, Conns
<1>3. guest[k].st \notin {"synSent", "est"} => guest'[k].st \notin {"synSent", "est"}
  BY DEF Quieter
<1>4. /\ io[c] = "none" => host[c].read = 0 /\ conn[c].hNxt = (IF Shaken(c) THEN 1 ELSE 0)
      /\ io[c] # "none" =>
            \/ Exact(c)
            \/ Over(c) /\ conn[c].stop /\ conns[k] # c /\ guest[k].st \notin {"synSent", "est"}
  BY DEF DrawInv
<1>5. ASSUME io[c] = "none"
      PROVE  host'[c].read = 0 /\ conn'[c].hNxt = (IF Shaken(c)' THEN 1 ELSE 0)
  <2>1. CASE Shaken(c)
    BY <1>1, <1>4, <1>5, <2>1
  <2>2. CASE ~Shaken(c)
    BY <1>1, <1>4, <1>5, <2>2
  <2> QED BY <2>1, <2>2
<1> QED BY <1>1, <1>2, <1>3, <1>4, <1>5

\* The connections of k may get an RST or a byte from the guest.
LEMMA KeyFrame ==
    ASSUME NEW k \in OutKeys, KeyInv(k), Quieter(guest[k], guest'[k]),
           \A c \in Conns : conn'[c].key = k <=> conn[c].key = k,
           \A c \in Of(k) :
              /\ \/ conn'[c].gNxt = conn[c].gNxt
                 \/ conn'[c].gNxt \in (guest[k].isn + 1)..(guest[k].isn + MaxGuest + 2)
              /\ conn'[c].hNxt = conn[c].hNxt /\ conn'[c].state = conn[c].state
              /\ conn[c].stop => conn'[c].stop
              /\ cth'[c] = cth[c] /\ io'[c] = io[c]
              /\ host'[c].read = host[c].read /\ host'[c].seq = host[c].seq,
           QuietWire(k), k \in done' => k \in done,
           conns'[k] = conns[k] \/ (conns'[k] = 0 /\ guest'[k].st # "synSent"),
           handler'.reply = "FIN" /\ handler'.key = k =>
              (handler.reply = "FIN" /\ handler.key = k) \/ guest'[k].st \notin {"synSent", "est"}
    PROVE  KeyInv(k)'
<1>1. Of(k)' = Of(k)
  BY DEF Of
<1>2. DrawInv(k) /\ AliveInv(k)
  BY DEF KeyInv
<1>3. DrawInv(k)'
  <2>1. conns'[k] \in {0, conns[k]}
    OBVIOUS
  <2>2. \A c \in Of(k) :
          /\ io'[c] = "none" => host'[c].read = 0 /\ conn'[c].hNxt = (IF Shaken(c)' THEN 1 ELSE 0)
          /\ io'[c] # "none" =>
                \/ Exact(c)'
                \/ Over(c)' /\ conn'[c].stop /\ conns'[k] # c /\ guest'[k].st \notin {"synSent", "est"}
    BY <1>1, <1>2, <2>1, DrawKept
  <2> QED BY <1>1, <2>2 DEF DrawInv
<1>4. \A c \in Of(k) : conn'[c].gNxt \in (guest[k].isn + 1)..(guest[k].isn + MaxGuest + 2)
  BY <1>2 DEF AliveInv
<1> QED BY <1>1, <1>3, <1>4, KeyKept

-----------------------------------------------------------------------------
(***************************************************************************)
(* The guest's side: what the guest sends.                                 *)
(***************************************************************************)
\* The guest sends on another 4-tuple.
LEMMA SendOther ==
    ASSUME IndInv, NEW k \in OutKeys, KeyInv(k), NEW q \in Keys, q # k, NEW flag \in Flags,
           NEW seq \in Nat, NEW ack \in Nat, Handles(q, flag, seq, ack), guest'[k] = guest[k],
           host' = host, wire' \subseteq wire
    PROVE  KeyInv(k)'
<1> USE StrideFacts
<1>1. /\ StackType /\ conn \in [Conns -> Records] /\ made \in 0..MaxConn /\ TableInv /\ FreshInv
      /\ k \in Keys /\ k # "none"
  BY TypeParts, NatAssumption DEF IndInv, StackType, TableType, Keys
<1>2. OpenInv(k)
  BY DEF KeyInv
<1>3. /\ done' = {} /\ Quieter(guest[k], guest'[k]) /\ QuietWire(k)
  BY DEF Handles, Quieter, SameReceiver, QuietWire
<1>4. /\ conns'[k] = Reaped[k]
      /\ handler'.key # k
      /\ \A c \in Conns : conn'[c].key = k <=> conn[c].key = k
      /\ \A c \in Of(k) : conn'[c] = conn[c] /\ cth'[c] = cth[c] /\ io'[c] = io[c]
  <2>1. CASE Ignores(q, ack)
    BY <1>1, <2>1, HandlerRecs DEF Ignores, Of, Idle
  <2>2. CASE Opens(q, seq)
    <3>1. PICK n \in Conns : n = made + 1
      BY <1>1, <2>2 DEF Opens, Conns
    <3>2. n > made /\ conn[n] = NewConn /\ conn[n].key # k
      <4>1. n > made /\ conn[n] = NewConn
        BY <1>1, <3>1 DEF FreshInv
      <4> QED BY <1>1, <4>1 DEF NewConn
    <3>3. /\ conn' = [conn EXCEPT ![n] = [conn[n] EXCEPT !.key = q, !.gNxt = seq + 1]]
          /\ cth' = [cth EXCEPT ![n] = "connect"] /\ io' = io /\ handler' = Idle
          /\ conns' = [Reaped EXCEPT ![q] = n]
      BY <2>2, <3>1 DEF Opens
    <3>4. conn'[n].key = q /\ \A c \in Conns : c # n => conn'[c] = conn[c] /\ cth'[c] = cth[c]
      BY <1>1, <3>2, <3>3 DEF NewConn, StackType, ThreadType
    <3> QED BY <1>1, <3>2, <3>3, <3>4, ReapedFacts DEF Of, Idle
  <2>3. ASSUME NEW c \in 1..made, c = conns[q],
               \/ Aborts(q, c) \/ Establishes(c) \/ Takes(q, c, seq) \/ Ends(q, c)
               \/ Finishes(q, c, seq)
        PROVE  /\ conns'[k] = Reaped[k] /\ handler'.key # k
               /\ \A d \in Conns : conn'[d].key = k <=> conn[d].key = k
               /\ \A d \in Of(k) : conn'[d] = conn[d] /\ cth'[d] = cth[d] /\ io'[d] = io[d]
    <3>1. c \in Conns /\ c # 0 /\ conn[c] \in Records /\ conn[c].key = q
      BY <1>1, <2>3 DEF Conns, TableInv
    <3>2. conn'[c].key = conn[c].key
      <4>1. CASE Aborts(q, c)
        BY <1>1, <3>1, <4>1 DEF Aborts, Records
      <4>2. CASE Establishes(c)
        BY <1>1, <3>1, <4>2 DEF Establishes, Records
      <4>3. CASE Takes(q, c, seq)
        BY <1>1, <3>1, <4>3 DEF Takes, Records
      <4>4. CASE Ends(q, c)
        BY <1>1, <3>1, <4>4 DEF Ends, Records
      <4>5. CASE Finishes(q, c, seq)
        BY <1>1, <3>1, <4>5 DEF Finishes, Records
      <4> QED BY <2>3, <4>1, <4>2, <4>3, <4>4, <4>5
    <3>3. \A d \in Conns : d # c => conn'[d] = conn[d] /\ io'[d] = io[d]
      BY <1>1, <2>3, <3>1 DEF Aborts, Establishes, Takes, Ends, Finishes, StackType, ThreadType
    <3>4. cth' = cth /\ conns'[k] = Reaped[k] /\ handler'.key # k
      BY <1>1, <2>3, ReapedFacts DEF Aborts, Establishes, Takes, Ends, Finishes, Idle
    <3> QED BY <3>1, <3>2, <3>3, <3>4 DEF Of
  <2> QED BY <2>1, <2>2, <2>3 DEF Handles
<1>5. conns'[k] = conns[k] \/ (conns'[k] = 0 /\ guest'[k].st # "synSent")
  BY <1>1, <1>2, <1>4, ReapedFacts DEF OpenInv
<1> QED BY <1>3, <1>4, <1>5, KeyFrame

\* A SYN: the guest opens k, or repeats the SYN because nobody answered.
LEMMA SendSyn ==
    ASSUME IndInv, NEW k \in OutKeys, KeyInv(k), NEW h \in GuestRecs,
           NEW seq \in Nat, NEW ack \in Nat, Handles(k, "SYN", seq, ack), guest'[k] = h,
           seq = h.isn, h.st = "synSent",
           \/ h = guest[k]
           \/ /\ guest[k].isn = 0 /\ h.isn # 0 /\ h.got = <<>> /\ h.due = "none" /\ ~h.peerFin
              /\ \A s \in wire' : s.key # k,
           host' = host, wire' \subseteq wire
    PROVE  KeyInv(k)'
<1> USE StrideFacts
<1>1. /\ StackType /\ conn \in [Conns -> Records] /\ made \in 0..MaxConn /\ TableInv /\ FreshInv
      /\ ThreadInv /\ k \in Keys /\ k # "none" /\ h.isn \in Nat
  BY TypeParts, NatAssumption DEF IndInv, StackType, TableType, Keys, GuestRecs
<1>2. AliveInv(k) /\ OpenInv(k) /\ WireInv(k) /\ FinInv(k) /\ DrawInv(k)
  BY DEF KeyInv
<1>3. /\ done' = {} /\ QuietWire(k)
  BY DEF Handles, QuietWire
<1>4. /\ h.isn # 0 /\ h.due = "none" /\ h.got = <<>> /\ Len(h.got) = 0 /\ ~h.peerFin
  BY <1>2 DEF AliveInv, OpenInv
<1>5. CASE Ignores(k, ack)
  <2>1. /\ conn' = conn /\ cth' = cth /\ io' = io /\ handler'.reply # "FIN" /\ conns' = Reaped
    BY <1>1, <1>5, HandlerRecs DEF Ignores, Idle
  <2>2. CASE h = guest[k]
    <3>1. Quieter(guest[k], guest'[k]) /\ conns'[k] = conns[k]
      BY <1>1, <1>2, <2>1, <2>2, ReapedFacts DEF Quieter, SameReceiver, OpenInv
    <3> QED BY <1>3, <2>1, <3>1, KeyFrame
  <2>3. CASE guest[k].isn = 0 /\ \A s \in wire' : s.key # k
    <3>1. Of(k)' = {}
      BY <1>2, <2>1, <2>3 DEF AliveInv, Of
    <3>2. AliveInv(k)' /\ OpenInv(k)'
      BY <1>3, <1>4, <2>3, <3>1 DEF AliveInv, OpenInv
    <3>3. DrawInv(k)' /\ WireInv(k)'
      BY <2>3, <3>1 DEF DrawInv, WireInv, Data
    <3>4. PlaceInv(k)' /\ FinInv(k)'
      BY <1>4, <2>1, <2>3, <3>1 DEF PlaceInv, FinInv
    <3> QED BY <3>2, <3>3, <3>4 DEF KeyInv
  <2> QED BY <2>2, <2>3
<1>6. CASE Opens(k, seq)
  <2>1. PICK n \in Conns : n = made + 1
    BY <1>1, <1>6 DEF Opens, Conns
  <2>2. n > made /\ n # 0 /\ conn[n] = NewConn /\ host[n] = NewHost /\ io[n] = "none"
    BY <1>1, <2>1 DEF FreshInv
  <2>3. /\ conn' = [conn EXCEPT ![n] = [conn[n] EXCEPT !.key = k, !.gNxt = seq + 1]]
        /\ cth' = [cth EXCEPT ![n] = "connect"] /\ io' = io /\ handler' = Idle
        /\ conns' = [Reaped EXCEPT ![k] = n] /\ Reaped[k] = 0
    BY <1>6, <2>1 DEF Opens
  <2>4. /\ conn'[n].key = k /\ conn'[n].gNxt = h.isn + 1 /\ conn'[n].state = "CONNECTING"
        /\ conn'[n].hNxt = 0 /\ cth'[n] = "connect" /\ io'[n] = "none" /\ conns'[k] = n
        /\ host'[n].read = 0
    BY <1>1, <2>2, <2>3, ReapedFacts DEF NewConn, NewHost, StackType, ThreadType
  <2>5. \A c \in Conns : c # n => conn'[c] = conn[c] /\ cth'[c] = cth[c]
    BY <1>1, <2>3 DEF StackType, ThreadType
  <2>6. Of(k)' = Of(k) \cup {n} /\ n \notin Of(k)
    BY <1>1, <2>2, <2>4, <2>5 DEF Of, NewConn
  <2>7. \A c \in Of(k) : /\ Dead(c) /\ Dead(c)' /\ io'[c] = "none" /\ io[c] = "none" /\ c # n
                         /\ conn'[c] = conn[c] /\ cth'[c] = cth[c] /\ h = guest[k]
    <3>1. ASSUME NEW c \in Of(k) PROVE Dead(c) /\ h = guest[k]
      <4>1. h = guest[k]
        BY <1>2 DEF AliveInv
      <4>2. k \notin done /\ (Dead(c) \/ conns[k] = c)
        BY <1>2, <4>1 DEF OpenInv
      <4>3. c # 0
        BY DEF Of, Conns
      <4> QED BY <1>1, <2>3, <4>1, <4>2, <4>3, ReapedFacts
    <3>2. \A c \in Of(k) : io[c] = "none" /\ c \in Conns
      BY <1>1, <3>1 DEF ThreadInv, Dead, Of
    <3> QED BY <2>3, <2>5, <2>6, <3>1, <3>2 DEF Dead
  <2>8. ~Dead(n)' /\ ~Shaken(n)'
    BY <2>4 DEF Dead, Shaken
  <2>9. \A s \in wire' : s.key = k => s.flag \notin {"SYNACK", "DATA", "FIN"}
    <3>1. ASSUME h = guest[k], NEW s \in wire, s.key = k PROVE s.flag \notin {"SYNACK", "DATA", "FIN"}
      <4>1. s.flag # "SYNACK"
        BY <1>2, <2>7, <3>1 DEF OpenInv, Dead, Shaken
      <4>2. s.flag # "DATA"
        BY <1>2, <2>7, <3>1 DEF WireInv, Data
      <4>3. s.flag # "FIN"
        BY <1>2, <2>7, <3>1 DEF FinInv
      <4> QED BY <4>1, <4>2, <4>3
    <3> QED BY <3>1
  <2>10. AliveInv(k)'
    <3>1. \A c \in Of(k)' : conn'[c].gNxt \in (h.isn + 1)..(h.isn + MaxGuest + 2)
      <4>1. conn'[n].gNxt \in (h.isn + 1)..(h.isn + MaxGuest + 2)
        BY <1>1, <2>4
      <4>2. \A c \in Of(k) : conn'[c].gNxt \in (h.isn + 1)..(h.isn + MaxGuest + 2)
        BY <1>2, <2>7 DEF AliveInv
      <4> QED BY <2>6, <4>1, <4>2
    <3>2. \A c, d \in Of(k)' : Dead(c)' \/ Dead(d)' \/ c = d
      BY <2>6, <2>7
    <3>3. \A c \in Of(k)' : /\ cth'[c] # "none" /\ (io'[c] # "none" => cth'[c] = "exited")
                            /\ cth'[c] = "synack" => conn'[c].state # "CONNECTING"
      BY <1>2, <2>4, <2>6, <2>7 DEF AliveInv
    <3> QED BY <1>4, <3>1, <3>2, <3>3 DEF AliveInv
  <2>11. OpenInv(k)'
    BY <1>3, <1>4, <2>4, <2>6, <2>7, <2>9 DEF OpenInv
  <2>12. DrawInv(k)'
    <3>1. ASSUME NEW c \in Of(k)'
          PROVE  io'[c] = "none" /\ host'[c].read = 0 /\ conn'[c].hNxt = (IF Shaken(c)' THEN 1 ELSE 0)
      <4>1. CASE c = n
        BY <2>4, <2>8, <4>1
      <4>2. CASE c \in Of(k)
        <5>1. ~Shaken(c) /\ ~Shaken(c)'
          BY <2>7, <4>2 DEF Dead, Shaken
        <5>2. host[c].read = 0 /\ conn[c].hNxt = 0
          BY <1>2, <2>7, <4>2, <5>1 DEF DrawInv
        <5> QED BY <2>7, <4>2, <5>1, <5>2
      <4> QED BY <2>6, <4>1, <4>2
    <3> QED BY <3>1 DEF DrawInv
  <2>13. WireInv(k)'
    <3>1. \A c \in Of(k)' : io'[c] = "none"
      BY <2>4, <2>6, <2>7
    <3> QED BY <2>9, <3>1 DEF WireInv, Data
  <2>14. PlaceInv(k)' /\ FinInv(k)'
    <3>1. handler'.reply # "FIN"
      BY <2>3 DEF Idle
    <3> QED BY <1>4, <2>9, <3>1 DEF PlaceInv, FinInv
  <2> QED BY <2>10, <2>11, <2>12, <2>13, <2>14 DEF KeyInv
<1> QED BY <1>5, <1>6 DEF Handles

\* Any other segment the guest sends on k.
LEMMA SendRest ==
    ASSUME IndInv, NEW k \in OutKeys, KeyInv(k), NEW h \in GuestRecs,
           NEW flag \in Flags \ {"SYN"}, NEW seq \in Nat, NEW ack \in Nat,
           Handles(k, flag, seq, ack), guest'[k] = h, Sends(k, guest[k], h, flag, seq),
           host' = host, wire' \subseteq wire
    PROVE  KeyInv(k)'
<1> USE StrideFacts
<1> DEFINE g == guest[k]
<1>1. /\ StackType /\ conn \in [Conns -> Records] /\ made \in 0..MaxConn /\ TableInv
      /\ ThreadInv /\ StreamInv /\ GuestInv /\ k \in Keys /\ g \in GuestRecs /\ host \in [Conns -> HostRecs]
  BY TypeParts DEF IndInv, StackType, TableType, Keys
<1>2. AliveInv(k) /\ OpenInv(k) /\ DrawInv(k) /\ PlaceInv(k)
  BY DEF KeyInv
<1>3. /\ done' = {} /\ QuietWire(k) /\ fwd' = fwd /\ handler = Idle
  BY DEF Handles, QuietWire
<1>4. /\ Quieter(g, guest'[k]) /\ flag # "SYNACK"
      /\ flag = "RST" => h.st = "closed"
      /\ flag \in Fins => h.st \in {"closed", "finSent"}
      /\ flag \in Datas => seq \in (g.isn + 1)..(g.isn + MaxGuest)
      /\ flag # "RST" => g.st # "synSent" /\ \E c \in Of(k) : Shaken(c)
  BY <1>2 DEF Sends, Quieter, SameReceiver, AliveInv, OpenInv, Flags, Fins, Datas
<1>5. CASE Ignores(k, ack)
  <2>1. /\ conn' = conn /\ cth' = cth /\ io' = io /\ handler'.reply # "FIN" /\ conns' = Reaped
    BY <1>1, <1>5, HandlerRecs DEF Ignores, Idle
  <2>2. conns'[k] = conns[k] \/ (conns'[k] = 0 /\ h.st # "synSent")
    BY <1>1, <1>2, <1>4, <2>1, ReapedFacts DEF OpenInv, Quieter
  <2> QED BY <1>3, <1>4, <2>1, <2>2, KeyFrame
<1>6. ASSUME NEW c \in 1..made, c = conns[k], Reaped[k] = conns[k],
             \/ flag = "RST" /\ Aborts(k, c)
             \/ flag # "RST" /\ Establishes(c)
             \/ flag = "DATA" /\ Takes(k, c, seq)
             \/ flag \in Fins /\ Ends(k, c)
             \/ flag = "DATAFIN" /\ Finishes(k, c, seq)
      PROVE  KeyInv(k)'
  <2>1. c \in Conns /\ c # 0 /\ conn[c] \in Records /\ conn[c].key = k /\ c \in Of(k) /\ c <= made
    BY <1>1, <1>6 DEF Conns, TableInv, Of
  <2>2. \A d \in Conns : d # c => conn'[d] = conn[d] /\ io'[d] = io[d]
    BY <1>1, <1>6, <2>1 DEF Aborts, Establishes, Takes, Ends, Finishes, StackType, ThreadType
  <2>3. cth' = cth
    BY <1>6 DEF Aborts, Establishes, Takes, Ends, Finishes
  <2>4. CASE flag = "RST" /\ Aborts(k, c)
    <3>1. /\ conn'[c].key = k /\ conn'[c].gNxt = conn[c].gNxt /\ conn'[c].hNxt = conn[c].hNxt
          /\ conn'[c].state = conn[c].state /\ conn'[c].stop
      BY <1>1, <2>1, <2>4 DEF Aborts, Records
    <3>2. io' = io /\ handler'.reply # "FIN" /\ conns'[k] = 0
      BY <1>1, <2>4, ReapedFacts DEF Aborts, Idle
    <3>3. \A d \in Conns : conn'[d].key = k <=> conn[d].key = k
      BY <2>1, <2>2, <3>1
    <3>4. \A d \in Of(k) : d \in Conns
      BY DEF Of
    <3> QED BY <1>3, <1>4, <2>1, <2>2, <2>3, <2>4, <3>1, <3>2, <3>3, <3>4, KeyFrame
  <2>5. CASE flag # "RST" /\ Establishes(c)
    <3>1. /\ conn'[c].key = k /\ conn'[c].gNxt = conn[c].gNxt /\ conn'[c].hNxt = conn[c].hNxt
          /\ conn'[c].state = "ESTABLISHED" /\ conn[c].state = "SYNACK_SENT"
      BY <1>1, <2>1, <2>5 DEF Establishes, Records
    <3>2. io' = [io EXCEPT ![c] = "loop"] /\ handler'.reply # "FIN" /\ conns' = Reaped
      BY <2>5 DEF Establishes, Idle
    <3>3. io[c] = "none" /\ io'[c] = "loop"
      BY <1>1, <2>1, <3>1, <3>2 DEF ThreadInv, StackType, ThreadType
    <3>4. cth[c] = "exited" /\ Shaken(c)
      <4>1. PICK d \in Of(k) : Shaken(d)
        BY <1>4, <2>5
      <4>2. ~Dead(d) /\ ~Dead(c)
        BY <3>1, <4>1 DEF Dead, Shaken
      <4>3. c = d
        BY <1>2, <2>1, <4>2 DEF AliveInv
      <4> QED BY <4>1, <4>3 DEF Shaken
    <3>5. Of(k)' = Of(k) /\ \A d \in Of(k) : d \in Conns
      BY <2>1, <2>2, <3>1 DEF Of
    <3>6. host[c].read = 0 /\ conn[c].hNxt = 1
      BY <1>2, <2>1, <3>3, <3>4 DEF DrawInv
    <3>7. Len(g.got) <= host[c].read
      <4>1. ASSUME NEW i \in 1..Len(g.got) PROVE FALSE
        <5>1. PICK d \in Of(k) : io[d] # "none"
          BY <1>2 DEF PlaceInv
        <5>2. ~Dead(d) /\ ~Dead(c)
          BY <1>1, <3>1, <3>5, <5>1 DEF Dead, ThreadInv
        <5>3. c = d
          BY <1>2, <2>1, <5>2 DEF AliveInv
        <5> QED BY <3>3, <5>1, <5>3
      <4>2. Len(g.got) \in Nat
        <5>1. g.got \in Seq((0..MaxConn) \X (0..MaxHost))
          BY <1>1 DEF GuestRecs
        <5> QED BY <5>1, LenProperties
      <4>3. Len(g.got) = 0
        BY <4>1, <4>2
      <4> QED BY <3>6, <4>3
    <3>8. DrawInv(k)'
      <4>1. Exact(c)'
        BY <3>1, <3>3, <3>6 DEF Exact
      <4>2. ASSUME NEW d \in Of(k), d # c
            PROVE  /\ io'[d] = "none" => /\ host'[d].read = 0
                                         /\ conn'[d].hNxt = (IF Shaken(d)' THEN 1 ELSE 0)
                   /\ io'[d] # "none" =>
                         \/ Exact(d)'
                         \/ Over(d)' /\ conn'[d].stop /\ conns'[k] # d /\ guest'[k].st \notin {"synSent", "est"}
        <5>1. conns'[k] \in {0, conns[k]}
          BY <1>1, <3>2, ReapedFacts
        <5>2. conn'[d] = conn[d] /\ io'[d] = io[d]
          BY <2>2, <3>5, <4>2
        <5> QED BY <1>2, <1>4, <2>3, <3>5, <5>1, <5>2, DrawKept
      <4> QED BY <3>3, <3>5, <4>1, <4>2 DEF DrawInv
    <3>9. \A d \in Of(k) :
              /\ conn'[d].gNxt \in (g.isn + 1)..(g.isn + MaxGuest + 2)
              /\ cth'[d] = cth[d] /\ host'[d].read = host[d].read
              /\ conn'[d].state = "CONNECTING" <=> conn[d].state = "CONNECTING"
              /\ \/ io'[d] = io[d]
                 \/ /\ io[d] = "none" /\ io'[d] = "loop" /\ cth[d] = "exited"
                    /\ Len(g.got) <= host[d].read /\ g.st # "synSent"
      <4> TAKE d \in Of(k)
      <4>1. conn[d].gNxt \in (g.isn + 1)..(g.isn + MaxGuest + 2)
        BY <1>2 DEF AliveInv
      <4>2. CASE d = c
        BY <1>4, <2>3, <2>5, <3>1, <3>3, <3>4, <3>7, <4>1, <4>2
      <4>3. CASE d # c
        BY <2>2, <2>3, <3>5, <4>1, <4>3
      <4> QED BY <4>2, <4>3
    <3>10. conns'[k] = conns[k]
      BY <1>1, <1>6, <3>2
    <3> QED BY <1>3, <1>4, <3>2, <3>5, <3>8, <3>9, <3>10, KeyKept
  <2>6. CASE flag = "DATA" /\ Takes(k, c, seq)
    <3>1. /\ conn'[c].key = k /\ conn'[c].gNxt = seq + 1 /\ conn'[c].hNxt = conn[c].hNxt
          /\ conn'[c].state = conn[c].state /\ conn'[c].stop = conn[c].stop
      BY <1>1, <2>1, <2>6 DEF Takes, Records
    <3>2. io' = io /\ handler'.reply # "FIN" /\ conns'[k] = conns[k]
      BY <1>1, <1>6, <2>6 DEF Takes
    <3>3. conn'[c].gNxt \in (g.isn + 1)..(g.isn + MaxGuest + 2)
      <4>1. g.isn \in Nat
        BY <1>1 DEF GuestRecs
      <4> QED BY <1>4, <2>6, <3>1, <4>1 DEF Datas
    <3>4. \A d \in Conns : conn'[d].key = k <=> conn[d].key = k
      BY <2>1, <2>2, <3>1
    <3>5. \A d \in Of(k) : d \in Conns
      BY DEF Of
    <3> QED BY <1>3, <1>4, <2>1, <2>2, <2>3, <2>6, <3>1, <3>2, <3>3, <3>4, <3>5, KeyFrame
  <2>7. CASE (flag \in Fins /\ Ends(k, c)) \/ (flag = "DATAFIN" /\ Finishes(k, c, seq))
    <3>1. /\ conn'[c].key = k /\ conn'[c].hNxt = conn[c].hNxt + 1
          /\ conn'[c].state = conn[c].state /\ conn'[c].stop /\ conn[c].state = "ESTABLISHED"
          /\ conn'[c].gNxt = conn[c].gNxt + 1 \/ (flag = "DATAFIN" /\ conn'[c].gNxt = seq + 2)
      <4>1. CASE Ends(k, c)
        BY <1>1, <2>1, <4>1 DEF Ends, Records
      <4>2. CASE flag = "DATAFIN" /\ Finishes(k, c, seq)
        BY <1>1, <2>1, <4>2 DEF Finishes, Records
      <4> QED BY <2>7, <4>1, <4>2
    <3>2. io' = io /\ conns'[k] = 0 /\ h.st \notin {"synSent", "est"}
      BY <1>1, <1>4, <2>7, ReapedFacts DEF Ends, Finishes, Fins
    <3>3. Of(k)' = Of(k) /\ \A d \in Of(k) : d \in Conns
      BY <2>1, <2>2, <3>1 DEF Of
    <3>4. DrawInv(k)'
      <4>1. Exact(c)
        BY <1>1, <1>2, <1>6, <2>1, <3>1 DEF DrawInv, ThreadInv
      <4>2. Over(c)'
        BY <1>1, <2>1, <3>1, <3>2, <4>1 DEF Exact, Over, HostRecs
      <4>3. ASSUME NEW d \in Of(k), d # c
            PROVE  /\ io'[d] = "none" => /\ host'[d].read = 0
                                         /\ conn'[d].hNxt = (IF Shaken(d)' THEN 1 ELSE 0)
                   /\ io'[d] # "none" =>
                         \/ Exact(d)'
                         \/ Over(d)' /\ conn'[d].stop /\ conns'[k] # d /\ guest'[k].st \notin {"synSent", "est"}
        <5>1. conn'[d] = conn[d] /\ io'[d] = io[d]
          BY <2>2, <3>3, <4>3
        <5> QED BY <1>2, <1>4, <2>3, <3>2, <3>3, <5>1, DrawKept
      <4>4. io[c] # "none"
        BY <1>1, <2>1, <3>1 DEF ThreadInv
      <4> QED BY <2>1, <3>1, <3>2, <3>3, <4>2, <4>3, <4>4 DEF DrawInv
    <3>5. conn'[c].gNxt \in (g.isn + 1)..(g.isn + MaxGuest + 2)
      <4>1. PICK m \in Incs : OutStream(c, m)
        BY <1>1, <2>1 DEF StreamInv, Stream
      <4>2. PICK p \in Incs : g.isn = Start(p)
        BY <1>1 DEF GuestInv, Numbers
      <4>3. host[c].got \in Seq(Nat) /\ Start(m) \in Nat /\ Start(p) \in Nat /\ conn[c].gNxt \in Nat
        BY <1>1, <2>1, StartFacts DEF HostRecs, Records
      <4>4. ~Left(c) /\ ~Pend(c)
        BY <1>3, <1>6, <2>1 DEF Left, Pend, Idle
      <4>5. PICK l \in Nat : l = Len(host[c].got)
        <5>1. host[c].got \in Seq(Nat)
          BY <4>3
        <5>2. Len(host[c].got) \in Nat
          BY <5>1, LenProperties
        <5> QED BY <5>2
      <4>6. conn[c].gNxt = Start(m) + 1 + l /\ l <= MaxGuest
        BY <4>1, <4>3, <4>4, <4>5 DEF OutStream
      <4>7. conn[c].gNxt \in (Start(p) + 1)..(Start(p) + MaxGuest + 2)
        BY <1>2, <2>1, <4>2 DEF AliveInv
      <4>8. m = p
        <5>1. /\ Start(m) <= conn[c].gNxt /\ conn[c].gNxt < Start(m) + Stride
              /\ Start(p) <= conn[c].gNxt /\ conn[c].gNxt < Start(p) + Stride
          BY <4>3, <4>6, <4>7
        <5> QED BY <4>3, <5>1, StartApart
      <4>9. PICK a \in Nat : a = g.isn /\ a = Start(m)
        BY <4>2, <4>3, <4>8
      <4>10. PICK x : x = conn'[c].gNxt
        OBVIOUS
      <4>11. x = a + 2 + l \/ (seq \in (a + 1)..(a + MaxGuest) /\ x = seq + 2)
        BY <1>4, <3>1, <4>6, <4>9, <4>10 DEF Datas
      <4>12. x \in (a + 1)..(a + MaxGuest + 2)
        BY <4>6, <4>11
      <4> QED BY <4>9, <4>10, <4>12
    <3>6. \A d \in Of(k) :
              /\ conn'[d].gNxt \in (g.isn + 1)..(g.isn + MaxGuest + 2)
              /\ cth'[d] = cth[d] /\ host'[d].read = host[d].read
              /\ conn'[d].state = "CONNECTING" <=> conn[d].state = "CONNECTING"
              /\ io'[d] = io[d]
      <4> TAKE d \in Of(k)
      <4>1. conn[d].gNxt \in (g.isn + 1)..(g.isn + MaxGuest + 2)
        BY <1>2 DEF AliveInv
      <4>2. CASE d = c
        BY <2>3, <3>1, <3>2, <3>5, <4>2
      <4>3. CASE d # c
        BY <2>2, <2>3, <3>3, <4>1, <4>3
      <4> QED BY <4>2, <4>3
    <3> QED BY <1>3, <1>4, <3>2, <3>3, <3>4, <3>6, KeyKept
  <2> QED BY <1>6, <2>4, <2>5, <2>6, <2>7
<1> QED BY <1>3, <1>5, <1>6 DEF Handles

-----------------------------------------------------------------------------
(***************************************************************************)
(* The guest's side: what the guest receives.                              *)
(***************************************************************************)
\* The guest gets nothing and no byte is put on the wire.
LEMMA WireKept ==
    ASSUME NEW k \in OutKeys, WireInv(k), Of(k)' = Of(k), host' = host, io' = io,
           \A s \in wire' : Data(s, k) => s \in wire, guest'[k].got = guest[k].got
    PROVE  WireInv(k)'
<1>1. \A s \in wire' : Data(s, k) =>
        \E c \in Of(k) : \E j \in 1..host'[c].read :
           /\ io'[c] # "none" /\ s.byte = <<c, j>>
           /\ s.seq = j \/ (s.seq = j + 1 /\ Len(guest'[k].got) < j)
  <2> SUFFICES ASSUME NEW s \in wire, Data(s, k)
               PROVE  \E c \in Of(k) : \E j \in 1..host'[c].read :
                         /\ io'[c] # "none" /\ s.byte = <<c, j>>
                         /\ s.seq = j \/ (s.seq = j + 1 /\ Len(guest'[k].got) < j)
    OBVIOUS
  <2>1. PICK c \in Of(k) : \E j \in 1..host[c].read :
           /\ io[c] # "none" /\ s.byte = <<c, j>>
           /\ s.seq = j \/ (s.seq = j + 1 /\ Len(guest[k].got) < j)
    BY DEF WireInv
  <2> QED BY <2>1
<1>2. \A s, t \in wire' : Data(s, k) /\ Data(t, k) /\ s.byte = t.byte => s.seq = t.seq
  BY DEF WireInv
<1>3. \A c \in Of(k) : io'[c] # "none" => Len(guest'[k].got) <= host'[c].read
  BY DEF WireInv
<1>4. \A c \in Of(k) : io'[c] \in {"reserve", "send"} =>
        /\ Len(guest'[k].got) < host'[c].read
        /\ \A s \in wire' : Data(s, k) => s.byte # <<c, host'[c].read>>
  BY DEF WireInv
<1> QED BY <1>1, <1>2, <1>3, <1>4 DEF WireInv, Data

\* The handshake ends.
LEMMA ReceiveSynAck ==
    ASSUME IndInv, NEW k \in OutKeys, KeyInv(k), NEW s \in wire, UNCHANGED stackVars, host' = host,
           wire' \subseteq wire, s.flag = "SYNACK", s.key = k, guest[k].st = "synSent",
           guest' = [guest EXCEPT ![k].st = "est", ![k].rcv = 1, ![k].due = "ACK"]
    PROVE  KeyInv(k)'
<1> DEFINE g == guest[k]
           h == guest'[k]
<1>1. AliveInv(k) /\ OpenInv(k) /\ DrawInv(k) /\ WireInv(k) /\ PlaceInv(k) /\ FinInv(k)
  BY DEF KeyInv
<1>2. /\ conns' = conns /\ done' = done /\ conn' = conn /\ cth' = cth /\ io' = io /\ handler' = handler
  BY DEF stackVars
<1>3. /\ h.st = "est" /\ h.rcv = 1 /\ h.due = "ACK" /\ h.isn = g.isn /\ h.got = g.got
      /\ h.peerFin = g.peerFin
  <2>1. g \in GuestRecs /\ guest \in [Keys -> GuestRecs] /\ k \in Keys
    BY TypeParts DEF IndInv, Keys
  <2>2. h = [g EXCEPT !.st = "est", !.rcv = 1, !.due = "ACK"]
    BY <2>1
  <2> HIDE DEF g, h
  <2> QED BY <2>1, <2>2 DEF GuestRecs
<1>4. Of(k)' = Of(k) /\ \A c \in Of(k) : (Dead(c)' <=> Dead(c)) /\ (Shaken(c)' <=> Shaken(c))
  BY <1>2 DEF Of, Dead, Shaken
<1>5. g.got = <<>> /\ Len(g.got) = 0 /\ ~g.peerFin /\ \E c \in Of(k) : Shaken(c)
  BY <1>1 DEF OpenInv
<1> HIDE DEF g, h
<1>6. AliveInv(k)'
  BY <1>1, <1>2, <1>3, <1>4 DEF AliveInv, g, h
<1>7. OpenInv(k)'
  BY <1>3, <1>4, <1>5 DEF OpenInv, h
<1>8. DrawInv(k)'
  <2>1. \A c \in Of(k) : io[c] # "none" => Exact(c)
    BY <1>1 DEF DrawInv, OpenInv
  <2>2. \A c \in Of(k) : Exact(c) => Exact(c)'
    BY <1>2 DEF Exact
  <2> QED BY <1>1, <1>2, <1>4, <2>1, <2>2 DEF DrawInv
<1>9. WireInv(k)'
  BY <1>1, <1>2, <1>3, <1>4, WireKept DEF g, h
<1>10. PlaceInv(k)'
  <2>1. \A i \in 1..Len(h.got) : \E c \in Of(k) : io'[c] # "none" /\ h.got[i] = <<c, i>>
    BY <1>3, <1>5
  <2>2. h.st = "est" /\ h.rcv = Len(h.got) + 1 /\ ~h.peerFin
    BY <1>3, <1>5
  <2> QED BY <1>4, <2>1, <2>2 DEF PlaceInv, h
<1>11. FinInv(k)'
  BY <1>1, <1>2, <1>4 DEF FinInv
<1> QED BY <1>6, <1>7, <1>8, <1>9, <1>10, <1>11 DEF KeyInv

\* A byte: it is the next one of the stream.
LEMMA ReceiveData ==
    ASSUME IndInv, NEW k \in OutKeys, KeyInv(k), NEW s \in wire, UNCHANGED stackVars, host' = host,
           wire' \subseteq wire, s.flag = "DATA", s.key = k, guest[k].st \in {"est", "finSent"},
           s.seq = guest[k].rcv,
           guest' = [guest EXCEPT ![k].st = IF @ = "synRcvd" THEN "est" ELSE @,
                          ![k].rcv = @ + 1, ![k].due = "ACK", ![k].got = Append(@, s.byte)]
    PROVE  KeyInv(k)'
<1> USE StrideFacts
<1> DEFINE g == guest[k]
           h == guest'[k]
<1>0. AliveInv(k) /\ OpenInv(k) /\ DrawInv(k) /\ WireInv(k) /\ PlaceInv(k) /\ FinInv(k)
  BY DEF KeyInv
<1>1. /\ g \in GuestRecs /\ guest \in [Keys -> GuestRecs] /\ k \in Keys /\ ThreadInv
      /\ host \in [Conns -> HostRecs]
  BY TypeParts DEF IndInv, Keys
<1>2. /\ conns' = conns /\ done' = done /\ conn' = conn /\ cth' = cth /\ io' = io /\ handler' = handler
  BY DEF stackVars
<1>3. PICK r \in Nat : r = g.rcv + 1
  BY <1>1 DEF GuestRecs
<1>4. /\ h.st = g.st /\ h.rcv = r /\ h.due = "ACK" /\ h.isn = g.isn /\ h.got = Append(g.got, s.byte)
      /\ h.peerFin = g.peerFin
  <2>1. PICK b : b = Append(g.got, s.byte)
    OBVIOUS
  <2>2. h = [g EXCEPT !.st = g.st, !.rcv = r, !.due = "ACK", !.got = b]
    BY <1>1, <1>3, <2>1
  <2> HIDE DEF g, h
  <2>3. h = [g EXCEPT !.st = g.st, !.rcv = r, !.due = "ACK", !.got = b]
    BY <2>2
  <2> QED BY <1>1, <2>1, <2>3 DEF GuestRecs
<1>5. Of(k)' = Of(k) /\ \A c \in Of(k) : (Dead(c)' <=> Dead(c)) /\ (Shaken(c)' <=> Shaken(c)) /\ c \in Conns
  BY <1>2 DEF Of, Dead, Shaken
<1>6. PICK l \in Nat : /\ l = Len(g.got) /\ Len(h.got) = l + 1 /\ h.got[l + 1] = s.byte
                       /\ \A i \in 1..l : h.got[i] = g.got[i]
  <2>1. g.got \in Seq((0..MaxConn) \X (0..MaxHost)) /\ s.byte \in (0..MaxConn) \X (0..MaxHost)
    <3>1. s \in Segments
      BY TypeParts DEF IndInv
    <3> QED BY <1>1, <3>1 DEF GuestRecs, Segments
  <2>2. ASSUME NEW S, NEW q \in Seq(S), NEW e \in S
        PROVE  /\ Len(q) \in Nat /\ Len(Append(q, e)) = Len(q) + 1 /\ Append(q, e)[Len(q) + 1] = e
               /\ \A i \in 1..Len(q) : Append(q, e)[i] = q[i]
    OBVIOUS
  <2>3. /\ Len(g.got) \in Nat /\ Len(Append(g.got, s.byte)) = Len(g.got) + 1
        /\ Append(g.got, s.byte)[Len(g.got) + 1] = s.byte
        /\ \A i \in 1..Len(g.got) : Append(g.got, s.byte)[i] = g.got[i]
    BY <2>1, <2>2
  <2>4. h.got = Append(g.got, s.byte)
    BY <1>4
  <2> HIDE DEF g, h
  <2> WITNESS Len(g.got) \in Nat
  <2> QED BY <2>3, <2>4
<1>7. PICK c \in Of(k) : \E j \in 1..host[c].read :
          /\ io[c] # "none" /\ s.byte = <<c, j>>
          /\ s.seq = j \/ (s.seq = j + 1 /\ Len(g.got) < j)
  BY <1>0 DEF WireInv, Data
<1>8. PICK j \in 1..host[c].read : /\ io[c] # "none" /\ s.byte = <<c, j>>
                                   /\ s.seq = j \/ (s.seq = j + 1 /\ l < j)
  BY <1>6, <1>7
<1>9. \A d \in Of(k) : io[d] # "none" => d = c
  <2>1. \A d \in Of(k) : io[d] # "none" => ~Dead(d)
    BY <1>1, <1>5 DEF ThreadInv, Dead
  <2> QED BY <1>0, <1>8, <2>1 DEF AliveInv
<1>10. host[c].read \in Nat /\ j \in Nat
  BY <1>1, <1>5 DEF HostRecs
<1> HIDE DEF g, h
<1>11. ~g.peerFin /\ g.rcv = l + 1
  <2>1. ~g.peerFin
    <3> SUFFICES ASSUME g.peerFin PROVE FALSE
      OBVIOUS
    <3>1. PICK d \in Of(k) : io[d] \in {"push", "exited"} /\ g.rcv > host[d].read + 1
      BY <1>0 DEF PlaceInv, g
    <3>2. d = c
      BY <1>9, <3>1
    <3>3. g.rcv > host[c].read + 1 /\ (g.rcv = j \/ g.rcv = j + 1)
      BY <1>8, <3>1, <3>2 DEF g
    <3> QED BY <1>10, <3>3
  <2> QED BY <1>0, <1>6, <2>1 DEF PlaceInv, g
<1>12. s.seq = j /\ j = l + 1
  BY <1>8, <1>10, <1>11 DEF g
<1>13. AliveInv(k)'
  BY <1>0, <1>2, <1>4, <1>5 DEF AliveInv, g, h
<1>14. OpenInv(k)'
  BY <1>0, <1>4, <1>5 DEF OpenInv, g, h
<1>15. DrawInv(k)'
  <2>1. \A d \in Of(k) : (Exact(d) => Exact(d)') /\ (Over(d) => Over(d)')
    BY <1>2 DEF Exact, Over
  <2> QED BY <1>0, <1>2, <1>4, <1>5, <2>1 DEF DrawInv, g, h
<1>16. WireInv(k)'
  <2>1. ASSUME NEW t \in wire', Data(t, k)
        PROVE  \E d \in Of(k) : \E i \in 1..host[d].read :
                  /\ io[d] # "none" /\ t.byte = <<d, i>>
                  /\ t.seq = i \/ (t.seq = i + 1 /\ l + 1 < i)
    <3>1. PICK d \in Of(k) : \E i \in 1..host[d].read :
              /\ io[d] # "none" /\ t.byte = <<d, i>> /\ (t.seq = i \/ (t.seq = i + 1 /\ l < i))
      BY <1>0, <1>6, <2>1 DEF WireInv, g
    <3>2. d = c
      BY <1>9, <3>1
    <3>3. PICK i \in 1..host[c].read :
              /\ io[c] # "none" /\ t.byte = <<c, i>> /\ (t.seq = i \/ (t.seq = i + 1 /\ l < i))
      BY <3>1, <3>2
    <3>a. i \in Nat
      BY <1>10, <3>3
    <3>b. t \in wire /\ Data(s, k)
      BY <2>1 DEF Data
    <3>c. s.byte = t.byte => t.seq = s.seq
      BY <1>0, <2>1, <3>b DEF WireInv
    <3>4. i \in Nat /\ (i = j => t.seq = s.seq)
      BY <1>8, <3>3, <3>a, <3>c
    <3>5. t.seq = i \/ (t.seq = i + 1 /\ l + 1 < i)
      BY <1>10, <1>12, <3>3, <3>4
    <3> QED BY <3>3, <3>5
  <2>2. \A t, u \in wire' : Data(t, k) /\ Data(u, k) /\ t.byte = u.byte => t.seq = u.seq
    BY <1>0 DEF WireInv
  <2>3. \A d \in Of(k) : io[d] # "none" => l + 1 <= host[d].read
    BY <1>8, <1>9, <1>10, <1>12
  <2>4. ASSUME NEW d \in Of(k), io[d] \in {"reserve", "send"}
        PROVE  /\ l + 1 < host[d].read
               /\ \A t \in wire' : Data(t, k) => t.byte # <<d, host[d].read>>
    <3>1. d = c
      BY <1>9, <2>4
    <3>2. \A t \in wire : Data(t, k) => t.byte # <<c, host[c].read>>
      BY <1>0, <2>4, <3>1 DEF WireInv
    <3>3. j # host[c].read
      BY <1>8, <3>2 DEF Data
    <3> QED BY <1>8, <1>10, <1>12, <3>1, <3>2, <3>3
  <2>5. Len(guest'[k].got) = l + 1
    BY <1>6 DEF h
  <2>6. \A t \in wire' : Data(t, k) =>
          \E d \in Of(k) : \E i \in 1..host'[d].read :
             /\ io'[d] # "none" /\ t.byte = <<d, i>>
             /\ t.seq = i \/ (t.seq = i + 1 /\ Len(guest'[k].got) < i)
    BY <1>2, <2>1, <2>5
  <2>7. \A d \in Of(k) : io'[d] # "none" => Len(guest'[k].got) <= host'[d].read
    BY <1>2, <2>3, <2>5
  <2>8. \A d \in Of(k) : io'[d] \in {"reserve", "send"} =>
          /\ Len(guest'[k].got) < host'[d].read
          /\ \A t \in wire' : Data(t, k) => t.byte # <<d, host'[d].read>>
    BY <1>2, <2>4, <2>5
  <2> QED BY <1>5, <2>2, <2>6, <2>7, <2>8 DEF WireInv, Data
<1>17. PlaceInv(k)'
  <2>1. \A i \in 1..(l + 1) : \E d \in Of(k) : io[d] # "none" /\ h.got[i] = <<d, i>>
    <3> TAKE i \in 1..(l + 1)
    <3>1. CASE i = l + 1
      BY <1>6, <1>8, <1>12, <3>1
    <3>2. CASE i \in 1..l
      BY <1>0, <1>6, <3>2 DEF PlaceInv, g
    <3> QED BY <3>1, <3>2
  <2>2. h.rcv = (l + 1) + 1 /\ ~h.peerFin
    BY <1>3, <1>4, <1>11
  <2>3. \A i \in 1..Len(h.got) : \E d \in Of(k) : io'[d] # "none" /\ h.got[i] = <<d, i>>
    BY <1>2, <1>6, <2>1
  <2>4. h.rcv = Len(h.got) + 1
    BY <1>6, <2>2
  <2> QED BY <1>5, <2>2, <2>3, <2>4 DEF PlaceInv, h
<1>18. FinInv(k)'
  BY <1>0, <1>2, <1>4, <1>5 DEF FinInv, g, h
<1> QED BY <1>13, <1>14, <1>15, <1>16, <1>17, <1>18 DEF KeyInv

\* The end of the stream.
LEMMA ReceiveFin ==
    ASSUME IndInv, NEW k \in OutKeys, KeyInv(k), NEW s \in wire, UNCHANGED stackVars, host' = host,
           wire' \subseteq wire, s.flag = "FIN", s.key = k, guest[k].st \in {"est", "finSent"},
           s.seq = guest[k].rcv,
           guest' = [guest EXCEPT ![k].st = IF @ = "finSent" THEN "closed" ELSE "est",
                          ![k].rcv = @ + 1, ![k].due = "ACK", ![k].peerFin = TRUE]
    PROVE  KeyInv(k)'
<1> USE StrideFacts
<1> DEFINE g == guest[k]
           h == guest'[k]
<1>0. AliveInv(k) /\ OpenInv(k) /\ DrawInv(k) /\ WireInv(k) /\ PlaceInv(k) /\ FinInv(k)
  BY DEF KeyInv
<1>1. /\ g \in GuestRecs /\ guest \in [Keys -> GuestRecs] /\ k \in Keys /\ host \in [Conns -> HostRecs]
  BY TypeParts DEF IndInv, Keys
<1>2. /\ conns' = conns /\ done' = done /\ conn' = conn /\ cth' = cth /\ io' = io /\ handler' = handler
  BY DEF stackVars
<1>3. PICK r \in Nat : r = g.rcv + 1
  BY <1>1 DEF GuestRecs
<1>4. PICK t \in {"closed", "est"} : t = IF g.st = "finSent" THEN "closed" ELSE "est"
  OBVIOUS
<1>5. /\ h.st = t /\ h.rcv = r /\ h.due = "ACK" /\ h.isn = g.isn /\ h.got = g.got
      /\ h.peerFin
  <2>1. h = [g EXCEPT !.st = t, !.rcv = r, !.due = "ACK", !.peerFin = TRUE]
    BY <1>1, <1>3, <1>4
  <2> HIDE DEF g, h
  <2> QED BY <1>1, <2>1 DEF GuestRecs
<1>6. Of(k)' = Of(k) /\ \A c \in Of(k) : (Dead(c)' <=> Dead(c)) /\ (Shaken(c)' <=> Shaken(c)) /\ c \in Conns
  BY <1>2 DEF Of, Dead, Shaken
<1> HIDE DEF g, h
<1>7. t = "est" => g.st = "est"
  BY <1>4 DEF g
<1>8. AliveInv(k)'
  BY <1>0, <1>2, <1>4, <1>5, <1>6 DEF AliveInv, g, h
<1>9. OpenInv(k)'
  BY <1>0, <1>4, <1>5, <1>6 DEF OpenInv, g, h
<1>10. DrawInv(k)'
  <2>1. \A d \in Of(k) : (Exact(d) => Exact(d)') /\ (Over(d) => Over(d)')
    BY <1>2 DEF Exact, Over
  <2> QED BY <1>0, <1>2, <1>4, <1>5, <1>6, <1>7, <2>1 DEF DrawInv, g, h
<1>11. WireInv(k)'
  BY <1>0, <1>2, <1>5, <1>6, WireKept DEF g, h
<1>12. PlaceInv(k)'
  <2>1. h.st = "est" => \E c \in Of(k) : io[c] \in {"push", "exited"} /\ h.rcv > host[c].read + 1
    <3> SUFFICES ASSUME h.st = "est"
                 PROVE  \E c \in Of(k) : io[c] \in {"push", "exited"} /\ h.rcv > host[c].read + 1
      OBVIOUS
    <3>1. PICK c \in Of(k) : io[c] \in {"push", "exited"} /\ s.seq > host[c].read
      BY <1>0, <1>5, <1>7 DEF FinInv, g
    <3>2. host[c].read \in Nat /\ g.rcv \in Nat /\ s.seq = g.rcv
      BY <1>1, <1>6 DEF HostRecs, GuestRecs, g
    <3>3. h.rcv > host[c].read + 1
      BY <1>3, <1>5, <3>1, <3>2
    <3> QED BY <3>1, <3>3
  <2>2. \A i \in 1..Len(h.got) : \E c \in Of(k) : io'[c] # "none" /\ h.got[i] = <<c, i>>
    BY <1>0, <1>2, <1>5 DEF PlaceInv, g
  <2>3. h.peerFin /\ h.st # "finSent"
    BY <1>4, <1>5
  <2>4. h.st = "est" => \E c \in Of(k) : io'[c] \in {"push", "exited"} /\ h.rcv > host'[c].read + 1
    BY <1>2, <2>1
  <2> QED BY <1>6, <2>2, <2>3, <2>4 DEF PlaceInv, h
<1>13. FinInv(k)'
  BY <1>0, <1>2, <1>4, <1>5, <1>6, <1>7 DEF FinInv, g, h
<1> QED BY <1>8, <1>9, <1>10, <1>11, <1>12, <1>13 DEF KeyInv

\* Any frame the guest reads.
LEMMA ReceiveKey ==
    ASSUME IndInv, NEW k \in OutKeys, KeyInv(k), NEW q \in Keys, NEW s \in wire, GuestReceive(q, s)
    PROVE  KeyInv(k)'
<1>1. /\ UNCHANGED stackVars /\ host' = host /\ wire' \subseteq wire
  BY DEF GuestReceive
<1>2. /\ conns' = conns /\ done' = done /\ conn' = conn /\ cth' = cth /\ io' = io /\ handler' = handler
  BY <1>1 DEF stackVars
<1>3. /\ guest[k] \in GuestRecs /\ guest \in [Keys -> GuestRecs] /\ k \in Keys /\ k \notin InKeys
      /\ guest[k].st # "synRcvd"
  BY TypeParts, NatAssumption DEF IndInv, Keys, KeyInv, AliveInv
<1>4. QuietWire(k)
  BY <1>1 DEF QuietWire
<1>5. ASSUME Quieter(guest[k], guest'[k]) PROVE KeyInv(k)'
  BY <1>1, <1>2, <1>4, <1>5, KeyFrame
<1>6. CASE q # k
  <2>1. PICK h : guest' = [guest EXCEPT ![q] = h]
    BY ReceiveStep DEF IndInv
  <2>2. guest'[k] = guest[k]
    BY <1>3, <1>6, <2>1
  <2> QED BY <1>5, <2>2 DEF Quieter, SameReceiver
<1>7. CASE q = k
  <2>1. CASE s.flag = "SYNACK"
    BY <1>1, <1>7, <2>1, ReceiveSynAck DEF GuestReceive, Acceptable
  <2>2. CASE s.flag = "DATA"
    BY <1>1, <1>3, <1>7, <2>2, ReceiveData DEF GuestReceive, Acceptable
  <2>3. CASE s.flag = "FIN"
    BY <1>1, <1>3, <1>7, <2>3, ReceiveFin DEF GuestReceive, Acceptable
  <2>4. CASE s.flag = "ACK"
    <3>1. guest' = [guest EXCEPT ![k].st = guest[k].st]
      BY <1>3, <1>7, <2>4 DEF GuestReceive
    <3>2. guest'[k] = [guest[k] EXCEPT !.st = guest[k].st]
      BY <1>3, <3>1
    <3>3. PICK g \in GuestRecs : g = guest[k]
      BY <1>3
    <3>4. guest'[k] = g
      BY <3>2, <3>3 DEF GuestRecs
    <3> QED BY <1>5, <3>3, <3>4 DEF Quieter, SameReceiver
  <2>5. CASE s.flag = "RST"
    <3>1. guest[k].st # "closed" /\ guest' = [guest EXCEPT ![k].st = "reset", ![k].due = "none"]
      BY <1>3, <1>7, <2>5 DEF GuestReceive
    <3>2. guest'[k] = [guest[k] EXCEPT !.st = "reset", !.due = "none"]
      BY <1>3, <3>1
    <3>3. PICK g \in GuestRecs : g = guest[k]
      BY <1>3
    <3>4. PICK h : h = guest'[k]
      OBVIOUS
    <3>5. /\ h.st = "reset" /\ h.due = "none" /\ h.isn = g.isn /\ h.rcv = g.rcv /\ h.got = g.got
          /\ h.peerFin = g.peerFin
      BY <3>2, <3>3, <3>4 DEF GuestRecs
    <3> QED BY <1>5, <3>1, <3>3, <3>4, <3>5 DEF Quieter, SameReceiver
  <2> QED BY <1>3, <1>7, <2>1, <2>2, <2>3, <2>4, <2>5 DEF GuestReceive
<1> QED BY <1>6, <1>7

\* The guest sends, on k or on another 4-tuple.
LEMMA SendKey ==
    ASSUME ~Reopen, IndInv, NEW k \in OutKeys, KeyInv(k), NEW q \in Keys, GuestSend(q)
    PROVE  KeyInv(k)'
<1>1. PICK h \in GuestRecs, flag \in Flags, seq \in Nat : SendStep(q, h, flag, seq)
  BY GuestSendStep DEF IndInv
<1>2. /\ guest \in [Keys -> GuestRecs] /\ k \in Keys /\ TypeOK /\ TableInv /\ HandlerInv
      /\ host' = host /\ wire' \subseteq wire /\ guest' = [guest EXCEPT ![q] = h]
  BY <1>1, TypeParts DEF IndInv, Keys, SendStep
<1>3. PICK ack \in Nat : ack = guest[q].rcv
  BY <1>2 DEF GuestRecs
<1>4. Handles(q, flag, seq, ack)
  BY <1>1, <1>2, <1>3, HandleCases DEF SendStep
<1>5. CASE q # k
  BY <1>2, <1>4, <1>5, SendOther
<1>6. CASE q = k
  <2>1. guest'[k] = h
    BY <1>2, <1>6
  <2>2. CASE flag = "SYN"
    <3>1. Sends(k, guest[k], h, "SYN", seq) /\ (h # guest[k] => \A s \in wire' : s.key # k)
      BY <1>1, <1>6, <2>2 DEF SendStep
    <3>2. /\ seq = h.isn /\ h.st = "synSent"
          /\ \/ h = guest[k]
             \/ guest[k].isn = 0 /\ h.isn # 0 /\ h.got = <<>> /\ h.due = "none" /\ ~h.peerFin
      BY <3>1 DEF Sends, Fins
    <3> QED BY <1>2, <1>4, <1>6, <2>1, <2>2, <3>1, <3>2, SendSyn
  <2>3. CASE flag # "SYN"
    BY <1>1, <1>2, <1>4, <1>6, <2>1, <2>3, SendRest DEF SendStep
  <2> QED BY <2>2, <2>3
<1> QED BY <1>5, <1>6

-----------------------------------------------------------------------------
(***************************************************************************)
(* The guest's side: steps of the stack and of the host.                   *)
(***************************************************************************)
\* Port forwards, the host's peers, a lost frame.
LEMMA QuietKey ==
    ASSUME IndInv, NEW k \in OutKeys, KeyInv(k),
           \/ \E q \in InKeys : FwdAccept(q)
           \/ \E c \in Conns : FwdStep(c) \/ HostSend(c) \/ HostClose(c)
           \/ \E s \in wire : Lose(s)
           \/ UNCHANGED vars
    PROVE  KeyInv(k)'
<1> USE StrideFacts
<1>1. /\ StackType /\ conn \in [Conns -> Records] /\ made \in 0..MaxConn /\ FreshInv /\ k \in Keys
      /\ k # "none" /\ k \notin InKeys /\ host \in [Conns -> HostRecs] /\ conns \in [Keys -> 0..MaxConn]
  BY TypeParts, NatAssumption DEF IndInv, StackType, TableType, Keys
<1>2. Quieter(guest[k], guest[k])
  BY DEF Quieter, SameReceiver
<1>3. \A c \in Of(k) : c \in Conns
  BY DEF Of
<1>4. ASSUME NEW q \in InKeys, FwdAccept(q) PROVE KeyInv(k)'
  <2>a. made < MaxConn
    BY <1>4 DEF FwdAccept
  <2>1. PICK n \in Conns : n = made + 1
    BY <1>1, <2>a DEF Conns
  <2>2. /\ conns' = conns /\ wire' = wire /\ done' = done /\ cth' = cth /\ io' = io
        /\ handler' = handler /\ host' = host /\ guest' = guest
    BY <1>4 DEF FwdAccept, FwdVars
  <2>3. conn[n].key # k
    <3>1. conn[n] = NewConn
      BY <1>1, <2>1 DEF FreshInv
    <3> QED BY <1>1, <3>1 DEF NewConn
  <2>4. conn'[n].key = q /\ \A c \in Conns : c # n => conn'[c] = conn[c]
    <3>1. conn' = [conn EXCEPT ![n] = [conn[n] EXCEPT !.key = q, !.fd = TRUE, !.hNxt = 1, !.state = "SYNACK_SENT"]]
      BY <1>1, <1>4, <2>1 DEF FwdAccept
    <3>2. PICK r \in Records : r = conn[n]
      BY <1>1
    <3>3. [r EXCEPT !.key = q, !.fd = TRUE, !.hNxt = 1, !.state = "SYNACK_SENT"].key = q
      BY DEF Records
    <3> QED BY <1>1, <3>1, <3>2, <3>3
  <2>5. \A c \in Conns : conn'[c].key = k <=> conn[c].key = k
    BY <1>1, <2>3, <2>4
  <2>6. \A c \in Of(k) : conn'[c] = conn[c]
    BY <2>3, <2>4 DEF Of
  <2>7. QuietWire(k)
    BY <2>2 DEF QuietWire
  <2> QED BY <1>2, <2>2, <2>5, <2>6, <2>7, KeyFrame
<1>5. ASSUME NEW c \in Conns, FwdStep(c) PROVE KeyInv(k)'
  <2>1. /\ fwd[c] # "none" /\ conn' = conn /\ done' = done /\ cth' = cth /\ io' = io
        /\ handler' = handler /\ host' = host /\ guest' = guest
    BY <1>5 DEF FwdStep, FwdInsert, FwdSyn, FwdWait, FwdErase, FwdVars
  <2>2. conn[c].key \in InKeys
    BY <2>1, HasThread
  <2>3. conns'[k] = conns[k]
    BY <1>1, <1>5, <2>2 DEF FwdStep, FwdInsert, FwdSyn, FwdWait, FwdErase
  <2>4. \A s \in wire' : s.key = k => s \in wire
    <3>1. \A s \in wire' : s \in wire \/ s = Seg(conn[c].key, "SYN", 0, 0)
      BY <1>5 DEF FwdStep, FwdInsert, FwdSyn, FwdWait, FwdErase
    <3>2. Seg(conn[c].key, "SYN", 0, 0).key = conn[c].key
      BY DEF Seg
    <3> QED BY <1>1, <2>2, <3>1, <3>2
  <2>5. QuietWire(k)
    BY <2>4 DEF QuietWire
  <2> QED BY <1>2, <2>1, <2>3, <2>5, KeyFrame
<1>6. ASSUME NEW c \in Conns, HostSend(c) \/ HostClose(c) PROVE KeyInv(k)'
  <2>1. /\ conns' = conns /\ done' = done /\ conn' = conn /\ cth' = cth /\ io' = io
        /\ handler' = handler /\ guest' = guest /\ wire' = wire
    BY <1>6 DEF HostSend, HostClose, stackVars
  <2>2. \A d \in Conns : host'[d].read = host[d].read /\ host'[d].seq = host[d].seq
    <3>1. PICK r \in HostRecs : r = host[c]
      BY <1>1
    <3>2. CASE HostSend(c)
      <4>1. PICK n : n = r.sent + 1
        OBVIOUS
      <4>2. host' = [host EXCEPT ![c] = [r EXCEPT !.sent = n]]
        BY <1>1, <3>1, <3>2, <4>1 DEF HostSend
      <4>3. [r EXCEPT !.sent = n].read = r.read /\ [r EXCEPT !.sent = n].seq = r.seq
        BY DEF HostRecs
      <4> QED BY <1>1, <3>1, <4>2, <4>3
    <3>3. CASE HostClose(c)
      <4>1. host' = [host EXCEPT ![c] = [r EXCEPT !.eof = TRUE]]
        BY <1>1, <3>1, <3>3 DEF HostClose
      <4>2. [r EXCEPT !.eof = TRUE].read = r.read /\ [r EXCEPT !.eof = TRUE].seq = r.seq
        BY DEF HostRecs
      <4> QED BY <1>1, <3>1, <4>1, <4>2
    <3> QED BY <1>6, <3>2, <3>3
  <2>3. QuietWire(k)
    BY <2>1 DEF QuietWire
  <2> QED BY <1>2, <1>3, <2>1, <2>2, <2>3, KeyFrame
<1>7. ASSUME UNCHANGED <<stackVars, host, guest>>, wire' \subseteq wire PROVE KeyInv(k)'
  <2>1. /\ conns' = conns /\ done' = done /\ conn' = conn /\ cth' = cth /\ io' = io
        /\ handler' = handler /\ guest' = guest /\ host' = host
    BY <1>7 DEF stackVars
  <2>2. QuietWire(k)
    BY <1>7 DEF QuietWire
  <2> QED BY <1>2, <2>1, <2>2, KeyFrame
<1>8. ASSUME NEW s \in wire, Lose(s) PROVE KeyInv(k)'
  BY <1>7, <1>8 DEF Lose
<1>9. CASE UNCHANGED vars
  BY <1>7, <1>9 DEF vars
<1> QED BY <1>4, <1>5, <1>6, <1>8, <1>9

\* The handler's answer: a FIN only to a guest that has sent one.
LEMMA FinishKey ==
    ASSUME IndInv, NEW k \in OutKeys, KeyInv(k), HandlerFinish
    PROVE  KeyInv(k)'
<1>1. /\ handler \in Handlers /\ HandlerInv /\ host \in [Conns -> HostRecs] /\ conn \in [Conns -> Records]
  BY TypeParts DEF IndInv, StackType
<1>2. /\ conns' = conns /\ done' = done /\ conn' = conn /\ cth' = cth /\ io' = io /\ guest' = guest
      /\ handler' = Idle /\ handler.pc = "finish"
      /\ wire' = wire \cup {Seg(handler.key, handler.reply, handler.seq, handler.ack)}
  BY DEF HandlerFinish
<1>3. Quieter(guest[k], guest'[k]) /\ handler'.reply # "FIN" /\ \A c \in Of(k) : c \in Conns
  BY <1>2 DEF Quieter, SameReceiver, Idle, Of
<1>4. handler.reply \in {"ACK", "FIN", "RST"}
  BY <1>1, <1>2 DEF HandlerInv, Handlers
<1>5. QuietWire(k)
  <2>1. handler.key = k /\ handler.reply = "FIN" => guest'[k].st \notin {"synSent", "est"}
    BY <1>2 DEF KeyInv, FinInv
  <2>2. PICK z : z = Seg(handler.key, handler.reply, handler.seq, handler.ack)
    OBVIOUS
  <2>3. z.key = handler.key /\ z.flag = handler.reply
    BY <2>2 DEF Seg
  <2>4. \A s \in wire' : s \in wire \/ s = z
    BY <1>2, <2>2
  <2> QED BY <1>4, <2>1, <2>3, <2>4 DEF QuietWire
<1>6. \A c \in Conns : host'[c].read = host[c].read /\ host'[c].seq = host[c].seq
  <2>1. CASE host' = host
    BY <2>1
  <2>2. CASE handler.data # 0 /\ conn[handler.c].fd
    <3>1. PICK d \in Conns : d = handler.c
      BY <1>1, <2>2 DEF HandlerInv
    <3>2. PICK r \in HostRecs : r = host[d]
      BY <1>1, <3>1
    <3>a. PICK w \in Written : host' = [host EXCEPT ![d].got = Append(@, w)]
      BY <2>2, <3>1 DEF HandlerFinish
    <3>3. PICK b : b = Append(r.got, w)
      OBVIOUS
    <3>4. host' = [host EXCEPT ![d] = [r EXCEPT !.got = b]]
      BY <1>1, <3>a, <3>1, <3>2, <3>3
    <3>5. [r EXCEPT !.got = b].read = r.read /\ [r EXCEPT !.got = b].seq = r.seq
      BY DEF HostRecs
    <3> QED BY <1>1, <3>2, <3>4, <3>5
  <2> QED BY <2>1, <2>2 DEF HandlerFinish
<1> QED BY <1>2, <1>3, <1>5, <1>6, KeyFrame

\* The guest gets nothing, no byte is read, and no byte or FIN is sent.
LEMMA StreamSame ==
    ASSUME NEW k \in OutKeys, WireInv(k), PlaceInv(k), FinInv(k), Of(k)' = Of(k), host' = host, io' = io,
           guest' = guest, handler' = handler,
           \A s \in wire' : s.key = k /\ s.flag \in {"DATA", "FIN"} => s \in wire
    PROVE  WireInv(k)' /\ PlaceInv(k)' /\ FinInv(k)'
<1>1. WireInv(k)'
  BY WireKept DEF Data
<1>2. PlaceInv(k)'
  <2>1. \A i \in 1..Len(guest[k].got) : \E c \in Of(k) : io'[c] # "none" /\ guest[k].got[i] = <<c, i>>
    BY DEF PlaceInv
  <2>2. guest[k].st = "est" /\ guest[k].peerFin =>
          \E c \in Of(k) : io'[c] \in {"push", "exited"} /\ guest[k].rcv > host'[c].read + 1
    BY DEF PlaceInv
  <2> QED BY <2>1, <2>2 DEF PlaceInv
<1>3. FinInv(k)'
  BY DEF FinInv
<1> QED BY <1>1, <1>2, <1>3

\* The connect thread.
LEMMA ConnectKey ==
    ASSUME IndInv, NEW k \in OutKeys, KeyInv(k), NEW c \in Conns, ConnectStep(c)
    PROVE  KeyInv(k)'
<1> USE StrideFacts
<1>1. /\ StackType /\ conn \in [Conns -> Records] /\ cth \in [Conns -> CthPcs] /\ k \in Keys
      /\ conns \in [Keys -> 0..MaxConn]
  BY TypeParts DEF IndInv, StackType, TableType, ThreadType, Keys
<1>2. cth[c] # "none" /\ cth[c] # "exited"
  BY DEF ConnectStep, Connected, SendSynAck, ConnectFails, ConnectErase
<1>3. /\ done' = done /\ io' = io /\ handler' = handler /\ host' = host /\ guest' = guest
  BY DEF ConnectStep, Connected, SendSynAck, ConnectFails, ConnectErase
<1>4. PICK r \in Records : r = conn[c]
  BY <1>1
<1>5. r.key \in Keys /\ (cth[c] \in {"connect", "fail"} => r.state = "CONNECTING")
  BY <1>2, <1>4, HasThread
<1>6. \A d \in Conns : d # c => conn'[d] = conn[d] /\ cth'[d] = cth[d]
  BY <1>1 DEF ConnectStep, Connected, SendSynAck, ConnectFails, ConnectErase
<1>7. conns' = conns \/ (conns' = [conns EXCEPT ![r.key] = 0] /\ cth[c] = "fail")
  BY <1>4 DEF ConnectStep, Connected, SendSynAck, ConnectFails, ConnectErase
<1>8. PICK z : z = Seg(r.key, "SYNACK", r.hNxt, r.gNxt)
  OBVIOUS
<1>9. z.key = r.key /\ z.flag = "SYNACK"
  BY <1>8 DEF Seg
<1>10. \A s \in wire' : s \in wire \/ (s = z /\ cth[c] = "synack")
  BY <1>4, <1>8 DEF ConnectStep, Connected, SendSynAck, ConnectFails, ConnectErase
<1>11. /\ conn'[c].key = r.key /\ conn'[c].gNxt = r.gNxt /\ conn'[c].stop = r.stop
       /\ \/ /\ cth[c] = "connect" /\ cth'[c] \in {"synack", "fail"} /\ conn'[c].hNxt = r.hNxt
             /\ cth'[c] = "synack" => conn'[c].state = "SYNACK_SENT"
          \/ /\ cth[c] = "synack" /\ cth'[c] = "exited" /\ conn'[c].hNxt = r.hNxt + 1
             /\ conn'[c].state = r.state
          \/ /\ cth[c] = "fail" /\ cth'[c] = "exited" /\ conn'[c].hNxt = r.hNxt
             /\ conn'[c].state = r.state /\ conns' = [conns EXCEPT ![r.key] = 0]
  <2>1. CASE Connected(c)
    <3>1. conn'[c] = [r EXCEPT !.fd = TRUE, !.state = "SYNACK_SENT"] /\ cth[c] = "connect" /\ cth'[c] = "synack"
      BY <1>1, <1>4, <2>1 DEF Connected
    <3> QED BY <3>1 DEF Records
  <2>2. CASE SendSynAck(c)
    <3>1. PICK n : n = r.hNxt + 1
      OBVIOUS
    <3>2. conn'[c] = [r EXCEPT !.hNxt = n] /\ cth[c] = "synack" /\ cth'[c] = "exited"
      BY <1>1, <1>4, <2>2, <3>1 DEF SendSynAck
    <3>3. /\ conn'[c].key = r.key /\ conn'[c].gNxt = r.gNxt /\ conn'[c].stop = r.stop
          /\ conn'[c].hNxt = n /\ conn'[c].state = r.state
      BY <3>2 DEF Records
    <3> QED BY <3>1, <3>2, <3>3
  <2>3. CASE ConnectFails(c)
    BY <1>1, <1>4, <2>3 DEF ConnectFails
  <2>4. CASE ConnectErase(c)
    BY <1>1, <1>4, <2>4 DEF ConnectErase
  <2> QED BY <2>1, <2>2, <2>3, <2>4 DEF ConnectStep
<1>12. Of(k)' = Of(k) /\ \A d \in Of(k) : d \in Conns
  BY <1>4, <1>6, <1>11 DEF Of
<1>13. CASE r.key # k
  <2>1. QuietWire(k)
    BY <1>9, <1>10, <1>13 DEF QuietWire
  <2>2. \A d \in Conns : conn'[d].key = k <=> conn[d].key = k
    BY <1>4, <1>6, <1>11
  <2>3. \A d \in Of(k) : conn'[d] = conn[d] /\ cth'[d] = cth[d]
    BY <1>4, <1>6, <1>13 DEF Of
  <2>4. conns'[k] = conns[k]
    BY <1>1, <1>7, <1>13
  <2>5. Quieter(guest[k], guest'[k])
    BY <1>3 DEF Quieter, SameReceiver
  <2> QED BY <1>3, <2>1, <2>2, <2>3, <2>4, <2>5, KeyFrame
<1>14. CASE r.key = k
  <2>0. AliveInv(k) /\ OpenInv(k) /\ DrawInv(k) /\ WireInv(k) /\ PlaceInv(k) /\ FinInv(k)
    BY DEF KeyInv
  <2>1. c \in Of(k) /\ io[c] = "none" /\ ~Dead(c) /\ ~Shaken(c) /\ (cth[c] = "synack" => r.state # "CONNECTING")
    BY <1>2, <1>4, <1>14, <2>0 DEF Of, AliveInv, Dead, Shaken
  <2>2. \A d \in Of(k) : d # c => Dead(d) /\ Dead(d)' /\ ~Shaken(d) /\ ~Shaken(d)'
    <3>1. \A d \in Of(k) : d # c => Dead(d)
      BY <2>0, <2>1 DEF AliveInv
    <3> QED BY <1>6, <1>12, <3>1 DEF Dead, Shaken
  <2>3. /\ Dead(c)' <=> cth[c] = "fail"
        /\ Shaken(c)' <=> cth[c] = "synack"
    BY <1>5, <1>11, <2>1 DEF Dead, Shaken
  <2>4. AliveInv(k)'
    <3>1. \A d \in Of(k) : conn'[d].gNxt = conn[d].gNxt
      BY <1>4, <1>6, <1>11, <1>12
    <3>2. \A d, e \in Of(k) : Dead(d)' \/ Dead(e)' \/ d = e
      BY <2>2
    <3>3. \A d \in Of(k) : /\ cth'[d] # "none" /\ (io'[d] # "none" => cth'[d] = "exited")
                           /\ cth'[d] = "synack" => conn'[d].state # "CONNECTING"
      BY <1>3, <1>6, <1>11, <1>12, <2>0, <2>1 DEF AliveInv
    <3> QED BY <1>3, <1>12, <2>0, <3>1, <3>2, <3>3 DEF AliveInv
  <2>5. OpenInv(k)'
    <3>1. guest[k].st = "synSent" => \A d \in Of(k) : Dead(d)' \/ (conns'[k] = d /\ io'[d] = "none")
      <4> SUFFICES ASSUME guest[k].st = "synSent", ~Dead(c)'
                   PROVE  conns'[k] = c /\ io'[c] = "none"
        BY <2>2
      <4> QED BY <1>3, <1>7, <2>0, <2>1, <2>3 DEF OpenInv
    <3>2. ~(guest[k].st \in {"est", "finSent"} \/ guest[k].due # "none")
      BY <2>0, <2>1, <2>2 DEF OpenInv
    <3>3. \A s \in wire : ~(s.key = k /\ s.flag = "SYNACK")
      BY <2>0, <2>1, <2>2 DEF OpenInv
    <3>4. \A s \in wire' : s.key = k /\ s.flag = "SYNACK" => \E d \in Of(k) : Shaken(d)'
      BY <1>10, <2>1, <2>3, <3>3
    <3> QED BY <1>3, <1>12, <2>0, <3>1, <3>2, <3>4 DEF OpenInv
  <2>6. DrawInv(k)'
    <3>1. host[c].read = 0 /\ r.hNxt = 0
      BY <1>4, <2>0, <2>1 DEF DrawInv
    <3>2. conn'[c].hNxt = (IF Shaken(c)' THEN 1 ELSE 0)
      <4>1. CASE cth[c] = "synack"
        BY <1>11, <2>3, <3>1, <4>1
      <4>2. CASE cth[c] # "synack"
        BY <1>11, <2>3, <3>1, <4>2
      <4> QED BY <4>1, <4>2
    <3>3. ASSUME NEW d \in Of(k), d # c
          PROVE  /\ io'[d] = "none" => host'[d].read = 0 /\ conn'[d].hNxt = (IF Shaken(d)' THEN 1 ELSE 0)
                 /\ io'[d] # "none" =>
                       \/ Exact(d)'
                       \/ Over(d)' /\ conn'[d].stop /\ conns'[k] # d /\ guest'[k].st \notin {"synSent", "est"}
      <4>1. conns'[k] \in {0, conns[k]}
        BY <1>1, <1>7, <1>14
      <4>2. conn'[d] = conn[d] /\ cth'[d] = cth[d]
        BY <1>6, <1>12, <3>3
      <4>3. Quieter(guest[k], guest'[k])
        BY <1>3 DEF Quieter, SameReceiver
      <4> QED BY <1>3, <1>12, <2>0, <4>1, <4>2, <4>3, DrawKept
    <3> QED BY <1>3, <1>12, <2>1, <3>1, <3>2, <3>3 DEF DrawInv
  <2>7. \A s \in wire' : s.key = k /\ s.flag \in {"DATA", "FIN"} => s \in wire
    BY <1>9, <1>10
  <2> QED BY <1>3, <1>12, <2>0, <2>4, <2>5, <2>6, <2>7, StreamSame DEF KeyInv
<1> QED BY <1>13, <1>14

\* The IO thread, by what it draws and sends.
Moves(c, from, to) == io[c] = from /\ io'[c] = to
Keeps(c) == conn'[c].hNxt = conn[c].hNxt /\ host'[c].read = host[c].read /\ host'[c].seq = host[c].seq
IoReads(c) ==
    /\ Moves(c, "loop", "reserve") /\ ~conn[c].stop /\ wire' = wire
    /\ conn'[c].hNxt = conn[c].hNxt /\ host'[c].read = host[c].read + 1 /\ host'[c].seq = host[c].seq
IoTurns(c) ==
    /\ Moves(c, "loop", "check") \/ Moves(c, "check", "fin") \/ Moves(c, "check", "push")
          \/ Moves(c, "push", "exited")
    /\ Keeps(c) /\ wire' = wire
IoDraws(c) ==
    /\ Moves(c, "reserve", "send") /\ wire' = wire
    /\ conn'[c].hNxt = conn[c].hNxt + 1 /\ host'[c].read = host[c].read /\ host'[c].seq = conn[c].hNxt
IoSends(c, z) ==
    /\ Moves(c, "send", "loop") /\ Keeps(c) /\ wire' = wire \cup {z}
    /\ z.key = conn[c].key /\ z.flag = "DATA" /\ z.seq = host[c].seq /\ z.byte = <<c, host[c].read>>
IoEnds(c, z) ==
    /\ Moves(c, "fin", "push") /\ wire' = wire \cup {z}
    /\ conn'[c].hNxt = conn[c].hNxt + 1 /\ host'[c].read = host[c].read /\ host'[c].seq = host[c].seq
    /\ z.key = conn[c].key /\ z.flag = "FIN" /\ z.seq = conn[c].hNxt

LEMMA IoCases ==
    ASSUME IndInv, NEW c \in Conns, IoStep(c)
    PROVE  /\ io[c] # "none" /\ io'[c] # "none"
           /\ conns' = conns /\ cth' = cth /\ handler' = handler /\ guest' = guest
           /\ \A d \in Conns : d # c => conn'[d] = conn[d] /\ io'[d] = io[d] /\ host'[d] = host[d]
           /\ conn'[c].key = conn[c].key /\ conn'[c].gNxt = conn[c].gNxt
           /\ conn'[c].state = conn[c].state /\ conn'[c].stop = conn[c].stop
           /\ \A q : q \in done' => q \in done \/ q = conn[c].key
           /\ \/ IoReads(c) \/ IoTurns(c) \/ IoDraws(c)
              \/ \E z : IoSends(c, z) \/ IoEnds(c, z)
<1>1. /\ conn \in [Conns -> Records] /\ io \in [Conns -> IoPcs] /\ host \in [Conns -> HostRecs]
  BY TypeParts DEF IndInv, StackType, ThreadType
<1>2. PICK r \in Records : r = conn[c]
  BY <1>1
<1>3. PICK p \in HostRecs : p = host[c]
  BY <1>1
<1>4. conns' = conns /\ cth' = cth /\ handler' = handler /\ guest' = guest
  BY DEF IoStep, IoLoop, IoReserve, IoSend, IoCheck, IoFin, IoPush, IoVars
<1>5. \A d \in Conns : d # c => conn'[d] = conn[d] /\ io'[d] = io[d] /\ host'[d] = host[d]
  BY <1>1 DEF IoStep, IoLoop, IoReserve, IoSend, IoCheck, IoFin, IoPush
<1>6. \A q : q \in done' => q \in done \/ q = conn[c].key
  BY DEF IoStep, IoLoop, IoReserve, IoSend, IoCheck, IoFin, IoPush
<1>7. PICK n : n = r.hNxt + 1
  OBVIOUS
<1>8. PICK e : e = p.read + 1
  OBVIOUS
<1> DEFINE Same == /\ conn'[c].key = r.key /\ conn'[c].gNxt = r.gNxt
                   /\ conn'[c].state = r.state /\ conn'[c].stop = r.stop
<1>9. ASSUME conn' = conn PROVE Same /\ conn'[c].hNxt = r.hNxt
  BY <1>2, <1>9
<1>10. ASSUME conn'[c] = [r EXCEPT !.hNxt = n] PROVE Same /\ conn'[c].hNxt = n
  BY <1>10 DEF Records
<1>11. CASE IoLoop(c)
  <2>1. CASE /\ ~conn[c].stop
             /\ host' = [host EXCEPT ![c].read = @ + 1]
             /\ io' = [io EXCEPT ![c] = "reserve"]
    <3>1. host'[c] = [p EXCEPT !.read = e]
      BY <1>1, <1>3, <1>8, <2>1
    <3>2. host'[c].read = e /\ host'[c].seq = p.seq
      BY <3>1 DEF HostRecs
    <3>3. conn' = conn /\ wire' = wire /\ io[c] = "loop" /\ io'[c] = "reserve"
      BY <1>1, <1>11, <2>1 DEF IoLoop
    <3> QED BY <1>2, <1>3, <1>4, <1>5, <1>6, <1>8, <1>9, <2>1, <3>2, <3>3 DEF IoReads, Moves
  <2>2. CASE io' = [io EXCEPT ![c] = "check"] /\ host' = host
    <3>1. conn' = conn /\ wire' = wire /\ io[c] = "loop" /\ io'[c] = "check"
      BY <1>1, <1>11, <2>2 DEF IoLoop
    <3> QED BY <1>2, <1>4, <1>5, <1>6, <1>9, <2>2, <3>1 DEF IoTurns, Moves, Keeps
  <2> QED BY <1>11, <2>1, <2>2 DEF IoLoop
<1>12. CASE IoReserve(c)
  <2>1. host'[c] = [p EXCEPT !.seq = r.hNxt] /\ conn'[c] = [r EXCEPT !.hNxt = n]
    BY <1>1, <1>2, <1>3, <1>7, <1>12 DEF IoReserve
  <2>2. host'[c].read = p.read /\ host'[c].seq = r.hNxt
    BY <2>1 DEF HostRecs
  <2>3. wire' = wire /\ io[c] = "reserve" /\ io'[c] = "send"
    BY <1>1, <1>12 DEF IoReserve
  <2>4. Same /\ conn'[c].hNxt = n
    BY <1>10, <2>1
  <2> QED BY <1>2, <1>3, <1>4, <1>5, <1>6, <1>7, <2>2, <2>3, <2>4 DEF IoDraws, Moves
<1>13. CASE IoSend(c)
  <2>1. PICK z : z = [Seg(r.key, "DATA", p.seq, r.gNxt) EXCEPT !.byte = <<c, p.read>>]
    OBVIOUS
  <2>2. z.key = r.key /\ z.flag = "DATA" /\ z.seq = p.seq /\ z.byte = <<c, p.read>>
    BY <2>1 DEF Seg
  <2>3. wire' = wire \cup {z} /\ io[c] = "send" /\ io'[c] = "loop" /\ conn' = conn /\ host' = host
    BY <1>1, <1>2, <1>3, <1>13, <2>1 DEF IoSend
  <2>4. IoSends(c, z)
    BY <1>2, <1>3, <2>2, <2>3 DEF IoSends, Moves, Keeps
  <2> QED BY <1>2, <1>4, <1>5, <1>6, <1>9, <2>3, <2>4
<1>14. CASE IoCheck(c)
  <2>1. /\ conn' = conn /\ wire' = wire /\ host' = host /\ io[c] = "check"
        /\ io'[c] = (IF conn[c].stop THEN "push" ELSE "fin")
    BY <1>1, <1>14 DEF IoCheck
  <2>2. io'[c] \in {"push", "fin"}
    BY <2>1
  <2> QED BY <1>2, <1>4, <1>5, <1>6, <1>9, <2>1, <2>2 DEF IoTurns, Moves, Keeps
<1>15. CASE IoFin(c)
  <2>1. PICK z : z = Seg(r.key, "FIN", r.hNxt, r.gNxt)
    OBVIOUS
  <2>2. z.key = r.key /\ z.flag = "FIN" /\ z.seq = r.hNxt
    BY <2>1 DEF Seg
  <2>3. /\ wire' = wire \cup {z} /\ io[c] = "fin" /\ io'[c] = "push" /\ host' = host
        /\ conn'[c] = [r EXCEPT !.hNxt = n]
    BY <1>1, <1>2, <1>7, <1>15, <2>1 DEF IoFin
  <2>4. Same /\ conn'[c].hNxt = n
    BY <1>10, <2>3
  <2>5. IoEnds(c, z)
    BY <1>2, <1>7, <2>2, <2>3, <2>4 DEF IoEnds, Moves
  <2> QED BY <1>2, <1>4, <1>5, <1>6, <2>3, <2>4, <2>5
<1>16. CASE IoPush(c)
  <2>1. conn' = conn /\ wire' = wire /\ host' = host /\ io[c] = "push" /\ io'[c] = "exited"
    BY <1>1, <1>16 DEF IoPush
  <2> QED BY <1>2, <1>4, <1>5, <1>6, <1>9, <2>1 DEF IoTurns, Moves, Keeps
<1> QED BY <1>11, <1>12, <1>13, <1>14, <1>15, <1>16 DEF IoStep

\* A thread that draws numbers for k: what it draws stays in step with what it
\* has read, what it sends is new, and the guest has not got that far.
LEMMA IoKey ==
    ASSUME IndInv, NEW k \in OutKeys, KeyInv(k), NEW c \in Conns, IoStep(c)
    PROVE  KeyInv(k)'
<1> USE StrideFacts
<1>1. /\ conn \in [Conns -> Records] /\ host \in [Conns -> HostRecs] /\ ThreadInv /\ TypeOK
      /\ guest[k] \in GuestRecs
  BY TypeParts DEF IndInv, StackType, Keys
<1>2. /\ io[c] # "none" /\ io'[c] # "none"
      /\ conns' = conns /\ cth' = cth /\ handler' = handler /\ guest' = guest
  BY IoCases
<1>3. \A d \in Conns : d # c => conn'[d] = conn[d] /\ io'[d] = io[d] /\ host'[d] = host[d]
  BY IoCases
<1>4. /\ conn'[c].key = conn[c].key /\ conn'[c].gNxt = conn[c].gNxt
      /\ conn'[c].state = conn[c].state /\ conn'[c].stop = conn[c].stop
  BY IoCases
<1>5. \/ IoReads(c) \/ IoTurns(c) \/ IoDraws(c)
      \/ \E z : IoSends(c, z) \/ IoEnds(c, z)
  BY IoCases
<1>6. Of(k)' = Of(k) /\ \A d \in Of(k) : d \in Conns
  BY <1>3, <1>4 DEF Of
<1>7. Quieter(guest[k], guest'[k])
  BY <1>2 DEF Quieter, SameReceiver
<1>8. CASE conn[c].key # k
  <2>1. \A d \in Of(k) : conn'[d] = conn[d] /\ io'[d] = io[d] /\ host'[d] = host[d]
    BY <1>3, <1>8 DEF Of
  <2>2. k \in done' => k \in done
    BY <1>8, IoCases
  <2>3. \A s \in wire' : s.key = k => s \in wire
    BY <1>5, <1>8 DEF IoReads, IoTurns, IoDraws, IoSends, IoEnds
  <2>4. QuietWire(k)
    BY <2>3 DEF QuietWire
  <2>5. \A d \in Conns : conn'[d].key = k <=> conn[d].key = k
    BY <1>3, <1>4
  <2> QED BY <1>2, <1>7, <2>1, <2>2, <2>4, <2>5, KeyFrame
<1>9. CASE conn[c].key = k
  <2> DEFINE g == guest[k]
             n == conn[c].hNxt
             p == host[c]
  <2>0. AliveInv(k) /\ OpenInv(k) /\ DrawInv(k) /\ WireInv(k) /\ PlaceInv(k) /\ FinInv(k)
    BY DEF KeyInv
  <2>1. c \in Of(k) /\ ~Dead(c) /\ cth[c] = "exited"
    BY <1>1, <1>2, <1>9, <2>0 DEF Of, ThreadInv, Dead, AliveInv
  <2>2. \A d \in Of(k) : (Dead(d)' <=> Dead(d)) /\ (Shaken(d)' <=> Shaken(d))
    BY <1>2, <1>3, <1>4, <1>6 DEF Dead, Shaken
  <2>3. \A d \in Of(k) : d # c => Dead(d) /\ io[d] = "none" /\ io'[d] = "none"
    <3>1. \A d \in Of(k) : d # c => Dead(d)
      BY <2>0, <2>1 DEF AliveInv
    <3> QED BY <1>1, <1>3, <1>6, <3>1 DEF Dead, ThreadInv
  <2>4. g.st # "synSent"
    BY <1>2, <2>0, <2>1 DEF OpenInv
  <2>5. n \in Nat /\ p.read \in Nat /\ p.seq \in Nat
    BY <1>1, NatAssumption DEF Records, HostRecs
  <2>6. PICK l \in Nat : l = Len(g.got)
    <3>1. g.got \in Seq((0..MaxConn) \X (0..MaxHost))
      BY <1>1 DEF GuestRecs
    <3> QED BY <3>1, LenProperties
  <2>7. Exact(c) \/ (Over(c) /\ conn[c].stop /\ conns[k] # c /\ g.st \notin {"synSent", "est"})
    BY <1>2, <2>0, <2>1 DEF DrawInv
  <2>8. AliveInv(k)'
    <3>1. \A d \in Of(k) : conn'[d].gNxt = conn[d].gNxt /\ conn'[d].state = conn[d].state
      BY <1>3, <1>4, <1>6
    <3>2. \A d \in Of(k) : io'[d] # "none" => cth'[d] = "exited"
      BY <1>2, <2>1, <2>3
    <3> QED BY <1>2, <1>6, <2>0, <2>2, <3>1, <3>2 DEF AliveInv
  <2>9. OpenInv(k)'
    <3>1. \A s \in wire' : s.key = k /\ s.flag = "SYNACK" => s \in wire
      BY <1>5 DEF IoReads, IoTurns, IoDraws, IoSends, IoEnds
    <3> QED BY <1>2, <1>6, <2>0, <2>2, <2>4, <3>1 DEF OpenInv
  <2>10. DrawInv(k)'
    <3>1. Exact(c)' \/ (Over(c)' /\ conn'[c].stop /\ conns'[k] # c /\ guest'[k].st \notin {"synSent", "est"})
      <4>1. CASE IoReads(c)
        <5>1. Exact(c)
          BY <2>7, <4>1 DEF IoReads
        <5> QED BY <2>5, <4>1, <5>1 DEF IoReads, Moves, Exact
      <4>2. CASE IoTurns(c)
        <5>1. Exact(c) => Exact(c)'
          BY <4>2 DEF IoTurns, Moves, Keeps, Exact
        <5>2. Over(c)'
          BY <4>2 DEF IoTurns, Moves, Keeps, Over
        <5> QED BY <1>2, <1>4, <2>7, <5>1, <5>2
      <4>3. CASE IoDraws(c)
        <5>1. Exact(c) => Exact(c)'
          BY <2>5, <4>3 DEF IoDraws, Moves, Exact
        <5>2. Over(c) => Over(c)'
          BY <2>5, <4>3 DEF IoDraws, Moves, Over
        <5> QED BY <1>2, <1>4, <2>7, <5>1, <5>2
      <4>4. CASE \E z : IoSends(c, z)
        <5>1. Exact(c) => Exact(c)'
          BY <4>4 DEF IoSends, Moves, Keeps, Exact
        <5>2. Over(c)'
          BY <4>4 DEF IoSends, Moves, Over
        <5> QED BY <1>2, <1>4, <2>7, <5>1, <5>2
      <4>5. CASE \E z : IoEnds(c, z)
        BY <4>5 DEF IoEnds, Moves, Exact
      <4> QED BY <1>5, <4>1, <4>2, <4>3, <4>4, <4>5
    <3>2. ASSUME NEW d \in Of(k), d # c
          PROVE  /\ io'[d] = "none" => host'[d].read = 0 /\ conn'[d].hNxt = (IF Shaken(d)' THEN 1 ELSE 0)
                 /\ io'[d] # "none" =>
                       \/ Exact(d)'
                       \/ Over(d)' /\ conn'[d].stop /\ conns'[k] # d /\ guest'[k].st \notin {"synSent", "est"}
      <4>1. conn'[d] = conn[d] /\ io'[d] = io[d] /\ host'[d] = host[d]
        BY <1>3, <1>6, <3>2
      <4> QED BY <1>2, <1>6, <1>7, <2>0, <4>1, DrawKept
    <3> QED BY <1>2, <1>6, <3>1, <3>2 DEF DrawInv
  <2>11. WireInv(k)'
    <3>1. \A s \in wire : Data(s, k) =>
            \E j \in 1..p.read : s.byte = <<c, j>> /\ (s.seq = j \/ (s.seq = j + 1 /\ l < j))
      <4> SUFFICES ASSUME NEW s \in wire, Data(s, k)
                   PROVE  \E j \in 1..p.read : s.byte = <<c, j>> /\ (s.seq = j \/ (s.seq = j + 1 /\ l < j))
        OBVIOUS
      <4>1. PICK d \in Of(k) : \E j \in 1..host[d].read :
              /\ io[d] # "none" /\ s.byte = <<d, j>>
              /\ s.seq = j \/ (s.seq = j + 1 /\ l < j)
        BY <2>0, <2>6 DEF WireInv
      <4>2. d = c
        BY <2>3, <4>1
      <4> QED BY <4>1, <4>2
    <3>2. /\ l <= p.read
          /\ io[c] \in {"reserve", "send"} =>
                /\ l < p.read
                /\ \A s \in wire : Data(s, k) => s.byte # <<c, p.read>>
      BY <1>2, <2>0, <2>1, <2>6 DEF WireInv
    <3>3. \A s, t \in wire : Data(s, k) /\ Data(t, k) /\ s.byte = t.byte => s.seq = t.seq
      BY <2>0 DEF WireInv
    <3>4. host'[c].read = p.read \/ (host'[c].read = p.read + 1 /\ IoReads(c))
      BY <1>5 DEF IoReads, IoTurns, IoDraws, IoSends, IoEnds, Keeps
    <3>5. PICK e \in Nat : e = host'[c].read /\ p.read <= e
      BY <2>5, <3>4
    <3>6. ASSUME NEW z, IoSends(c, z)
          PROVE  /\ Data(z, k) /\ z.byte = <<c, p.read>> /\ p.read \in 1..p.read /\ e = p.read
                 /\ z.seq = p.read \/ (z.seq = p.read + 1 /\ l < p.read)
      <4>1. io[c] = "send" /\ l < p.read /\ e = p.read
        BY <3>2, <3>5, <3>6 DEF IoSends, Moves, Keeps
      <4>2. p.seq = p.read \/ p.seq = p.read + 1
        BY <2>7, <4>1 DEF Exact, Over
      <4> QED BY <1>9, <2>5, <2>6, <3>6, <4>1, <4>2 DEF IoSends, Data
    <3>7. \A s \in wire' : Data(s, k) => s \in wire \/ IoSends(c, s)
      BY <1>5 DEF IoReads, IoTurns, IoDraws, IoSends, IoEnds, Data
    <3>8. ASSUME NEW s \in wire', Data(s, k)
          PROVE  \E j \in 1..e : s.byte = <<c, j>> /\ (s.seq = j \/ (s.seq = j + 1 /\ l < j))
      <4>1. CASE s \in wire
        <5>1. PICK j \in 1..p.read : s.byte = <<c, j>> /\ (s.seq = j \/ (s.seq = j + 1 /\ l < j))
          BY <3>1, <3>8, <4>1
        <5>2. j \in 1..e
          BY <2>5, <3>5
        <5> QED BY <5>1, <5>2
      <4>2. CASE IoSends(c, s)
        BY <3>6, <4>2
      <4> QED BY <3>7, <3>8, <4>1, <4>2
    <3>9. \A s \in wire' : Data(s, k) =>
            \E d \in Of(k) : \E j \in 1..host'[d].read :
               /\ io'[d] # "none" /\ s.byte = <<d, j>>
               /\ s.seq = j \/ (s.seq = j + 1 /\ Len(guest'[k].got) < j)
      BY <1>2, <2>1, <2>6, <3>5, <3>8
    <3>10. ASSUME NEW s \in wire', NEW t \in wire', Data(s, k), Data(t, k), s.byte = t.byte
           PROVE  s.seq = t.seq
      <4>1. ASSUME NEW z \in wire', NEW y \in wire, IoSends(c, z), Data(y, k)
            PROVE  y.byte # z.byte
        BY <3>2, <4>1 DEF IoSends, Moves
      <4>2. CASE IoSends(c, s) /\ IoSends(c, t)
        BY <4>2 DEF IoSends
      <4> QED BY <3>3, <3>7, <3>10, <4>1, <4>2
    <3>11. \A d \in Of(k) : io'[d] # "none" => Len(guest'[k].got) <= host'[d].read
      BY <1>2, <2>3, <2>5, <2>6, <3>2, <3>5
    <3>12. \A d \in Of(k) : io'[d] \in {"reserve", "send"} =>
             /\ Len(guest'[k].got) < host'[d].read
             /\ \A s \in wire' : Data(s, k) => s.byte # <<d, host'[d].read>>
      <4> SUFFICES ASSUME io'[c] \in {"reserve", "send"}
                   PROVE  l < e /\ \A s \in wire' : Data(s, k) => s.byte # <<c, e>>
        BY <1>2, <2>3, <2>6, <3>5
      <4>1. CASE IoReads(c)
        <5>1. e = p.read + 1 /\ wire' = wire
          BY <3>5, <4>1 DEF IoReads
        <5>2. ASSUME NEW s \in wire, Data(s, k) PROVE s.byte # <<c, e>>
          <6>1. PICK j \in 1..p.read : s.byte = <<c, j>>
            BY <3>1, <5>2
          <6>2. j # e
            BY <2>5, <5>1
          <6> QED BY <6>1, <6>2
        <5> QED BY <2>5, <2>6, <3>2, <5>1, <5>2
      <4>2. CASE IoDraws(c)
        <5>1. e = p.read /\ wire' = wire /\ io[c] = "reserve"
          BY <3>5, <4>2 DEF IoDraws, Moves
        <5> QED BY <3>2, <5>1
      <4> QED BY <1>5, <4>1, <4>2 DEF IoTurns, IoSends, IoEnds, Moves
    <3> QED BY <1>6, <3>9, <3>10, <3>11, <3>12 DEF WireInv, Data
  <2>12. \A d \in Of(k) : io[d] \in {"push", "exited"} => io'[d] \in {"push", "exited"} /\ host'[d].read = host[d].read
    BY <1>5, <2>3 DEF IoReads, IoTurns, IoDraws, IoSends, IoEnds, Moves, Keeps
  <2>13. PlaceInv(k)'
    <3>1. \A i \in 1..Len(g.got) : \E d \in Of(k) : io'[d] # "none" /\ g.got[i] = <<d, i>>
      <4> TAKE i \in 1..Len(g.got)
      <4>1. PICK d \in Of(k) : io[d] # "none" /\ g.got[i] = <<d, i>>
        BY <2>0 DEF PlaceInv
      <4> QED BY <1>2, <2>3, <4>1
    <3>2. g.st = "est" /\ g.peerFin =>
            \E d \in Of(k) : io'[d] \in {"push", "exited"} /\ g.rcv > host'[d].read + 1
      BY <2>0, <2>12 DEF PlaceInv
    <3>3. /\ g.st = "finSent" => ~g.peerFin
          /\ g.st \in {"est", "finSent"} /\ ~g.peerFin => g.rcv = Len(g.got) + 1
      BY <2>0 DEF PlaceInv
    <3> QED BY <1>2, <1>6, <3>1, <3>2, <3>3 DEF PlaceInv
  <2>14. FinInv(k)'
    <3> SUFFICES ASSUME g.st \in {"synSent", "est"}
                 PROVE  /\ \A s \in wire' : s.key = k /\ s.flag = "FIN" =>
                             \E d \in Of(k) : io'[d] \in {"push", "exited"} /\ s.seq > host'[d].read
                        /\ ~(handler'.reply = "FIN" /\ handler'.key = k)
      BY <1>2, <1>6 DEF FinInv
    <3>1. \A s \in wire : s.key = k /\ s.flag = "FIN" =>
             \E d \in Of(k) : io'[d] \in {"push", "exited"} /\ s.seq > host'[d].read
      BY <2>0, <2>12 DEF FinInv
    <3>2. ASSUME NEW z, IoEnds(c, z)
          PROVE  io'[c] \in {"push", "exited"} /\ z.seq > host'[c].read
      <4>1. io[c] = "fin" /\ io'[c] = "push" /\ z.seq = n /\ host'[c].read = p.read
        BY <3>2 DEF IoEnds, Moves
      <4>2. n = p.read + 1
        BY <2>7, <4>1 DEF Exact
      <4> QED BY <2>5, <4>1, <4>2
    <3>3. \A s \in wire' : s.key = k /\ s.flag = "FIN" => s \in wire \/ IoEnds(c, s)
      BY <1>5 DEF IoReads, IoTurns, IoDraws, IoSends, IoEnds
    <3>4. ~(handler'.reply = "FIN" /\ handler'.key = k)
      BY <1>2, <2>0 DEF FinInv
    <3> QED BY <2>1, <3>1, <3>2, <3>3, <3>4
  <2> QED BY <2>8, <2>9, <2>10, <2>11, <2>13, <2>14 DEF KeyInv
<1> QED BY <1>8, <1>9

-----------------------------------------------------------------------------
(***************************************************************************)
(* The guest's side of an injected connection: the stack acknowledges      *)
(* nothing of it (network.cpp:577 leaves g_nxt 0), so it gets no data.     *)
(***************************************************************************)
LEMMA InboundFrame ==
    ASSUME NEW k \in InKeys, InboundInv(k), guest'[k] = guest[k],
           \A s \in wire' : s.key = k => s \in wire \/ s.ack <= 1,
           handler'.key = k => handler' = handler \/ handler'.ack <= 1
    PROVE  InboundInv(k)'
  BY DEF InboundInv

LEMMA InboundSend ==
    ASSUME IndInv, NEW k \in InKeys, InboundInv(k), NEW q \in Keys, GuestSend(q)
    PROVE  InboundInv(k)'
<1>1. PICK h \in GuestRecs, flag \in Flags, seq \in Nat : SendStep(q, h, flag, seq)
  BY GuestSendStep DEF IndInv
<1>2. /\ guest \in [Keys -> GuestRecs] /\ k \in Keys /\ k \notin OutKeys /\ k # "none" /\ TypeOK /\ TableInv
      /\ HandlerInv /\ wire' \subseteq wire /\ guest' = [guest EXCEPT ![q] = h]
  BY <1>1, TypeParts, NatAssumption DEF IndInv, Keys, SendStep
<1>3. PICK ack \in Nat : ack = guest[q].rcv
  BY <1>2 DEF GuestRecs
<1>4. Handles(q, flag, seq, ack)
  BY <1>1, <1>2, <1>3, HandleCases DEF SendStep
<1>5. flag \notin {"DATA", "FIN", "DATAFIN"} => handler' = Idle \/ handler' = Refusal(q, ack)
  BY <1>4 DEF Handles, Ignores, Opens, Aborts, Establishes, Fins
<1>6. Idle.key = "none" /\ Idle.ack = 0 /\ Refusal(q, ack).key = q /\ Refusal(q, ack).ack = 0
  BY HandlerRecs DEF Idle
<1>7. CASE q # k
  <2>1. handler'.key # k
    <3>1. handler'.key \in {"none", q}
      BY <1>4, <1>6 DEF Handles, Ignores, Opens, Aborts, Establishes, Takes, Ends, Finishes
    <3> QED BY <1>2, <1>7, <3>1
  <2>2. guest'[k] = guest[k]
    BY <1>2, <1>7
  <2> QED BY <1>2, <2>1, <2>2, InboundFrame
<1>8. CASE q = k
  <2>1. Sends(k, guest[k], h, flag, seq) /\ guest'[k] = h
    BY <1>1, <1>2, <1>8 DEF SendStep
  <2>2. /\ h.got = guest[k].got /\ h.isn = guest[k].isn /\ (h.st = guest[k].st \/ h.st = "closed")
        /\ flag \notin {"DATA", "FIN", "DATAFIN"}
    BY <1>2, <2>1 DEF Sends, SameReceiver, InboundInv, Fins
  <2>3. handler'.ack = 0
    BY <1>5, <1>6, <2>2
  <2> QED BY <1>2, <2>1, <2>2, <2>3 DEF InboundInv
<1> QED BY <1>7, <1>8

LEMMA InboundReceive ==
    ASSUME IndInv, NEW k \in InKeys, InboundInv(k), NEW q \in Keys, NEW s \in wire, GuestReceive(q, s)
    PROVE  InboundInv(k)'
<1> USE StrideFacts
<1>1. /\ handler' = handler /\ wire' \subseteq wire
  BY DEF GuestReceive, stackVars
<1>2. /\ guest[k] \in GuestRecs /\ guest \in [Keys -> GuestRecs] /\ k \in Keys /\ s.ack \in Nat
  BY TypeParts DEF IndInv, Keys, Segments
<1>3. CASE q # k
  <2>1. PICK h : guest' = [guest EXCEPT ![q] = h]
    BY ReceiveStep DEF IndInv
  <2>2. guest'[k] = guest[k]
    BY <1>2, <1>3, <2>1
  <2> QED BY <1>1, <2>2, InboundFrame
<1>4. CASE q = k
  <2>1. PICK g \in GuestRecs : g = guest[k]
    BY <1>2
  <2>2. ~(g.st \in {"synRcvd", "est", "finSent"} /\ Acceptable(k, s))
    BY <1>2, <2>1 DEF InboundInv, Acceptable
  <2>3. \/ guest'[k] = [g EXCEPT !.st = "synRcvd", !.isn = Stride, !.nxt = Stride + 1, !.rcv = 1, !.due = "SYNACK"]
        \/ guest'[k] = [g EXCEPT !.st = "reset", !.due = "none"]
    <3>1. CASE s.flag = "SYN"
      BY <1>2, <1>4, <2>1, <3>1 DEF GuestReceive
    <3>2. CASE s.flag = "RST"
      BY <1>2, <1>4, <2>1, <3>2 DEF GuestReceive
    <3>3. CASE s.flag \notin {"SYN", "RST"}
      BY <1>4, <2>1, <2>2, <3>3 DEF GuestReceive, InboundInv
    <3> QED BY <3>1, <3>2, <3>3
  <2>4. PICK h : h = guest'[k]
    OBVIOUS
  <2>5. PICK n : n = Stride + 1
    OBVIOUS
  <2>6. h.got = g.got /\ (h.st = "reset" \/ (h.st = "synRcvd" /\ h.isn = Stride))
    BY <2>3, <2>4, <2>5 DEF GuestRecs
  <2> QED BY <1>1, <2>1, <2>4, <2>6 DEF InboundInv
<1> QED BY <1>3, <1>4

LEMMA InboundStack ==
    ASSUME IndInv, NEW k \in InKeys, InboundInv(k),
           \/ \E q \in InKeys : FwdAccept(q)
           \/ \E c \in Conns : ConnectStep(c) \/ IoStep(c) \/ FwdStep(c) \/ HostSend(c) \/ HostClose(c)
           \/ HandlerFinish
           \/ \E s \in wire : Lose(s)
           \/ UNCHANGED vars
    PROVE  InboundInv(k)'
<1>1. guest' = guest
  BY DEF FwdAccept, FwdStep, FwdInsert, FwdSyn, FwdWait, FwdErase, FwdVars, HostSend, HostClose,
         ConnectStep, Connected, SendSynAck, ConnectFails, ConnectErase, HandlerFinish, Lose, vars,
         IoStep, IoLoop, IoReserve, IoSend, IoCheck, IoFin, IoPush, IoVars
<1>2. handler' = handler \/ handler' = Idle
  BY DEF FwdAccept, FwdStep, FwdInsert, FwdSyn, FwdWait, FwdErase, FwdVars, HostSend, HostClose,
         ConnectStep, Connected, SendSynAck, ConnectFails, ConnectErase, HandlerFinish, Lose, vars, stackVars,
         IoStep, IoLoop, IoReserve, IoSend, IoCheck, IoFin, IoPush, IoVars
<1>3. k # "none" /\ k \notin OutKeys /\ k \in Keys /\ Idle.key = "none"
  BY NatAssumption DEF Keys, Idle
<1>4. ASSUME NEW s \in wire', s.key = k PROVE s \in wire \/ s.ack <= 1
  <2>1. ASSUME NEW c \in Conns, ConnectStep(c) PROVE s \in wire
    <3>1. cth[c] # "none"
      BY <2>1 DEF ConnectStep, Connected, SendSynAck, ConnectFails, ConnectErase
    <3>2. conn[c].key \in OutKeys
      BY <3>1, HasThread
    <3>3. s \in wire \/ s = Seg(conn[c].key, "SYNACK", conn[c].hNxt, conn[c].gNxt)
      BY <2>1 DEF ConnectStep, Connected, SendSynAck, ConnectFails, ConnectErase
    <3> QED BY <1>3, <1>4, <3>2, <3>3 DEF Seg
  <2>2. ASSUME NEW c \in Conns, IoStep(c) PROVE s \in wire \/ s.ack <= 1
    <3>1. s \in wire \/ (s.key = conn[c].key /\ s.ack = conn[c].gNxt)
      <4>1. CASE IoSend(c)
        <5>1. s \in wire \/ s = [Seg(conn[c].key, "DATA", host[c].seq, conn[c].gNxt) EXCEPT !.byte = <<c, host[c].read>>]
          BY <4>1 DEF IoSend
        <5> QED BY <5>1 DEF Seg
      <4>2. CASE IoFin(c)
        <5>1. s \in wire \/ s = Seg(conn[c].key, "FIN", conn[c].hNxt, conn[c].gNxt)
          BY <4>2 DEF IoFin
        <5> QED BY <5>1 DEF Seg
      <4> QED BY <2>2, <4>1, <4>2 DEF IoStep, IoLoop, IoReserve, IoCheck, IoPush
    <3>2. io[c] # "none"
      BY <2>2, IoCases
    <3>3. c \in 1..made
      BY <3>2, HasThread
    <3>4. conn[c].key = k => conn[c].gNxt \in {0, 1}
      BY <1>3, <3>3 DEF IndInv, StreamInv, Stream, InStream
    <3> QED BY <1>4, <3>1, <3>4
  <2>3. ASSUME NEW c \in Conns, FwdStep(c) PROVE s \in wire \/ s.ack <= 1
    <3>1. s \in wire \/ s = Seg(conn[c].key, "SYN", 0, 0)
      BY <2>3 DEF FwdStep, FwdInsert, FwdSyn, FwdWait, FwdErase
    <3> QED BY <3>1 DEF Seg
  <2>4. CASE HandlerFinish
    <3>1. s \in wire \/ s = Seg(handler.key, handler.reply, handler.seq, handler.ack)
      BY <2>4 DEF HandlerFinish
    <3>2. s \in wire \/ (s.key = handler.key /\ s.ack = handler.ack)
      BY <3>1 DEF Seg
    <3> QED BY <1>4, <3>2 DEF InboundInv
  <2>5. CASE \/ \E q \in InKeys : FwdAccept(q)
             \/ \E c \in Conns : HostSend(c) \/ HostClose(c)
             \/ \E z \in wire : Lose(z)
             \/ UNCHANGED vars
    BY <2>5 DEF FwdAccept, HostSend, HostClose, Lose, vars
  <2> QED BY <2>1, <2>2, <2>3, <2>4, <2>5
<1> QED BY <1>1, <1>2, <1>3, <1>4, InboundFrame

-----------------------------------------------------------------------------
(***************************************************************************)
(* The guest's side: the theorem.                                          *)
(***************************************************************************)
LEMMA InitGuestSide == Init => GuestSideInv
<1> SUFFICES ASSUME Init PROVE GuestSideInv
  OBVIOUS
<1>1. wire = {} /\ handler = Idle /\ Idle.key = "none" /\ Idle.reply = "none"
  BY DEF Init, Idle
<1>2. \A k \in Keys : /\ guest[k].st = "closed" /\ guest[k].isn = 0 /\ guest[k].due = "none"
                      /\ guest[k].got = <<>> /\ ~guest[k].peerFin
  BY DEF Init
<1>3. \A k \in Keys : k # "none" /\ Of(k) = {}
  BY NatAssumption DEF Init, Of, Keys
<1>4. ASSUME NEW k \in OutKeys PROVE KeyInv(k)
  <2>1. /\ guest[k].st = "closed" /\ guest[k].isn = 0 /\ guest[k].due = "none"
        /\ guest[k].got = <<>> /\ ~guest[k].peerFin /\ Of(k) = {}
    BY <1>2, <1>3 DEF Keys
  <2>2. AliveInv(k) /\ OpenInv(k) /\ DrawInv(k) /\ WireInv(k)
    BY <1>1, <2>1 DEF AliveInv, OpenInv, DrawInv, WireInv
  <2>3. PlaceInv(k) /\ FinInv(k)
    <3>1. Len(guest[k].got) = 0
      BY <2>1
    <3>2. \A i \in 1..Len(guest[k].got) : FALSE
      BY <3>1
    <3> QED BY <2>1, <3>2 DEF PlaceInv, FinInv
  <2> QED BY <2>2, <2>3 DEF KeyInv
<1>5. ASSUME NEW k \in InKeys PROVE InboundInv(k)
  BY <1>1, <1>2, <1>3 DEF InboundInv, Keys
<1> QED BY <1>4, <1>5 DEF GuestSideInv

LEMMA NextGuestSide ==
    ASSUME ~Reopen, IndInv, GuestSideInv, [Next]_vars PROVE GuestSideInv'
<1>1. ASSUME NEW k \in OutKeys, KeyInv(k) PROVE KeyInv(k)'
  <2>1. ASSUME NEW q \in Keys, GuestStep(q) PROVE KeyInv(k)'
    BY <1>1, <2>1, SendKey, ReceiveKey DEF GuestStep, GuestSend
  <2> QED BY <1>1, <2>1, QuietKey, FinishKey, ConnectKey, IoKey DEF Next
<1>2. ASSUME NEW k \in InKeys, InboundInv(k) PROVE InboundInv(k)'
  <2>1. ASSUME NEW q \in Keys, GuestStep(q) PROVE InboundInv(k)'
    BY <1>2, <2>1, InboundSend, InboundReceive DEF GuestStep, GuestSend
  <2> QED BY <1>2, <2>1, InboundStack DEF Next
<1> QED BY <1>1, <1>2 DEF GuestSideInv

\* What the guest receives on a connection is a prefix of what the host peer of
\* that connection sent, whichever frames are lost, whichever connect threads
\* failed before and wherever the handler's FIN falls between the IO thread's
\* reservation and its frame, as long as the guest opens a 4-tuple once.
THEOREM GuestPrefix == ASSUME ~Reopen PROVE Spec => []GuestGetsPrefix
<1>1. Init => IndInv /\ GuestSideInv
  BY InitInd, InitGuestSide
<1>2. (IndInv /\ GuestSideInv) /\ [Next]_vars => (IndInv /\ GuestSideInv)'
  BY NextInd, NextGuestSide
<1>3. IndInv /\ GuestSideInv => GuestGetsPrefix
  <2> SUFFICES ASSUME IndInv, GuestSideInv, NEW k \in Keys, NEW i \in DOMAIN guest[k].got
               PROVE  \E c \in Conns :
                         /\ guest[k].got[i] = <<c, i>>
                         /\ k \in OutKeys => conn[c].gNxt \div Stride = guest[k].isn \div Stride
    BY DEF GuestGetsPrefix
  <2> USE StrideFacts
  <2>1. guest[k] \in GuestRecs /\ GuestInv /\ conn \in [Conns -> Records]
    BY TypeParts DEF IndInv, StackType
  <2>2. i \in 1..Len(guest[k].got)
    <3>1. ASSUME NEW S, NEW q \in Seq(S) PROVE DOMAIN q = 1..Len(q)
      OBVIOUS
    <3>2. guest[k].got \in Seq((0..MaxConn) \X (0..MaxHost))
      BY <2>1 DEF GuestRecs
    <3> QED BY <3>1, <3>2
  <2>3. k \in OutKeys
    BY <2>2 DEF GuestSideInv, InboundInv, Keys
  <2>4. AliveInv(k) /\ PlaceInv(k)
    BY <2>3 DEF GuestSideInv, KeyInv
  <2>5. PICK c \in Of(k) : guest[k].got[i] = <<c, i>>
    BY <2>2, <2>4 DEF PlaceInv
  <2>6. PICK m \in Incs : guest[k].isn = Start(m)
    BY <2>1 DEF GuestInv, Numbers
  <2>7. c \in Conns /\ conn[c].gNxt \in (Start(m) + 1)..(Start(m) + MaxGuest + 2)
    BY <2>4, <2>5, <2>6 DEF AliveInv, Of
  <2>8. Start(m) \in Nat
    BY StartFacts
  <2>9. conn[c].gNxt \div Stride = m /\ Start(m) \div Stride = m
    <3>1. /\ conn[c].gNxt \in Nat /\ Start(m) <= conn[c].gNxt /\ conn[c].gNxt < Start(m) + Stride
          /\ Start(m) <= Start(m) /\ Start(m) < Start(m) + Stride
      BY <2>7, <2>8
    <3> QED BY <2>8, <3>1, StartDiv
  <2> QED BY <2>5, <2>6, <2>7, <2>9
<1> QED BY <1>1, <1>2, <1>3, PTL DEF Spec
===============================================================================
