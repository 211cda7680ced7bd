-------------------------- MODULE IpcChannelProofs --------------------------
(***************************************************************************)
(* Proofs about IpcChannel, for any number of sending threads and messages *)
(* and any choice of empty and oversized ones, and about SerialBridge, the *)
(* VM's serial port on such a channel.                                     *)
(***************************************************************************)
EXTENDS IpcChannel, SerialBridge, SequenceTheorems, TLAPS

(***************************************************************************)
(* The inductive invariant.  What makes got a prefix of what was sent is   *)
(* the order of the entries in the pipe: each one continues the one before *)
(* it, the first one continues what the read loop has consumed, and while  *)
(* the writing end can still write the last one is where send_raw stands.  *)
(***************************************************************************)
\* The entry completes a frame: a payload, or the header of an empty message.
Whole(entry) == entry.kind = "pay" \/ entry.msg \in Empty

\* b is the entry send_raw writes after a.
Continues(a, b) ==
    b = IF Whole(a) THEN [kind |-> "hdr", msg |-> a.msg + 1]
                    ELSE [kind |-> "pay", msg |-> a.msg]

\* The loop of the read thread has not been left.
Reading(e) == rpc[e] \in {"none", "top", "header", "payload"}

\* The end that writes to e's pipe can still add to it.
Writable(e) == connected[Peer(e)] /\ ~pipe[e].closed

LastRead(e) ==
    IF rpc[e] = "payload" THEN [kind |-> "hdr", msg |-> hdr[e]]
                          ELSE [kind |-> "pay", msg |-> Len(got[e])]
LastWritten(e) ==
    IF pipe[e].queue = <<>> THEN LastRead(e) ELSE pipe[e].queue[Len(pipe[e].queue)]

\* write_mutex_ is held by the thread between a header and its payload.
MutexInv ==
    \A e \in Ends :
        /\ \A w \in Senders : spc[e][w] = "payload" <=> writer[e] = w
        /\ writer[e] # "none" => next[e] # 0

\* The read thread is started once.
StartInv == \A e \in Ends : apc[e] \in {"idle", "open", "start"} => rpc[e] = "none"

HeldInv ==
    \A e \in Ends : rpc[e] = "payload" => hdr[e] = Len(got[e]) + 1 /\ hdr[e] \notin Empty

QueueInv(e) ==
    Reading(e) =>
        /\ pipe[e].queue # <<>> => Continues(LastRead(e), pipe[e].queue[1])
        /\ \A i \in 1..(Len(pipe[e].queue) - 1) :
             Continues(pipe[e].queue[i], pipe[e].queue[i + 1])
        /\ Writable(e) =>
             /\ LastWritten(e).msg = next[Peer(e)]
             /\ Whole(LastWritten(e)) <=> writer[Peer(e)] = "none"

IndInv ==
    /\ TypeOK /\ FramesIntact
    /\ MutexInv /\ StartInv /\ HeldInv
    /\ \A e \in Ends : QueueInv(e)

-----------------------------------------------------------------------------
(***************************************************************************)
(* Lemmas about entries, queues and the two ends.                          *)
(***************************************************************************)
\* Peer exchanges the two ends.
LEMMA PeerFacts == \A e \in Ends : Peer(e) \in Ends /\ Peer(e) # e /\ Peer(Peer(e)) = e
  BY DEF Ends, Peer

\* Adding the entry that continues the last one keeps a queue in order.
LEMMA AppendContinues ==
    ASSUME NEW q \in Seq(Entries), NEW x \in Entries,
           \A i \in 1..(Len(q) - 1) : Continues(q[i], q[i + 1]),
           q # <<>> => Continues(q[Len(q)], x)
    PROVE  /\ Append(q, x) \in Seq(Entries) /\ Append(q, x) # <<>>
           /\ \A i \in 1..(Len(Append(q, x)) - 1) :
                Continues(Append(q, x)[i], Append(q, x)[i + 1])
           /\ Append(q, x)[Len(Append(q, x))] = x
           /\ Append(q, x)[1] = IF q = <<>> THEN x ELSE q[1]
<1> DEFINE r == Append(q, x)
<1>1. /\ r \in Seq(Entries) /\ Len(r) = Len(q) + 1 /\ Len(q) \in Nat
      /\ r[Len(q) + 1] = x /\ \A i \in 1..Len(q) : r[i] = q[i]
  OBVIOUS
<1>2. q = <<>> <=> Len(q) = 0
  OBVIOUS
<1>3. r # <<>>
  BY <1>1
<1>4. ASSUME NEW i \in 1..(Len(r) - 1) PROVE Continues(r[i], r[i + 1])
  <2>1. CASE i < Len(q)
    <3>1. i \in 1..(Len(q) - 1) /\ i \in 1..Len(q) /\ i + 1 \in 1..Len(q)
      BY <1>1, <2>1
    <3> QED BY <1>1, <3>1
  <2>2. CASE i = Len(q)
    <3>1. q # <<>> /\ i \in 1..Len(q)
      BY <1>1, <1>2, <2>2
    <3> QED BY <1>1, <2>2, <3>1
  <2> QED BY <1>1, <2>1, <2>2
<1>5. r[1] = IF q = <<>> THEN x ELSE q[1]
  BY <1>1, <1>2
<1> QED BY <1>1, <1>3, <1>4, <1>5

\* Taking the first entry keeps a queue in order, and what is left continues
\* the entry taken.
LEMMA TailContinues ==
    ASSUME NEW q \in Seq(Entries), q # <<>>,
           \A i \in 1..(Len(q) - 1) : Continues(q[i], q[i + 1])
    PROVE  /\ Head(q) \in Entries /\ Head(q) = q[1] /\ Tail(q) \in Seq(Entries)
           /\ \A i \in 1..(Len(Tail(q)) - 1) : Continues(Tail(q)[i], Tail(q)[i + 1])
           /\ Tail(q) # <<>> => /\ Continues(Head(q), Tail(q)[1])
                                /\ Tail(q)[Len(Tail(q))] = q[Len(q)]
           /\ Tail(q) = <<>> => q[Len(q)] = Head(q)
<1> DEFINE r == Tail(q)
<1>1. /\ Head(q) = q[1] /\ r \in Seq(Entries) /\ Len(r) = Len(q) - 1 /\ Len(q) \in Nat \ {0}
      /\ \A i \in 1..Len(r) : r[i] = q[i + 1]
  OBVIOUS
<1>2. Head(q) \in Entries
  BY <1>1
<1>3. r = <<>> <=> Len(r) = 0
  BY <1>1, EmptySeq
<1>4. ASSUME NEW i \in 1..(Len(r) - 1) PROVE Continues(r[i], r[i + 1])
  <2>1. i \in 1..Len(r) /\ i + 1 \in 1..Len(r) /\ i + 1 \in 1..(Len(q) - 1)
    BY <1>1
  <2> QED BY <1>1, <2>1
<1>5. ASSUME r # <<>> PROVE Continues(Head(q), r[1]) /\ r[Len(r)] = q[Len(q)]
  <2>1. 1 \in 1..Len(r) /\ Len(r) \in 1..Len(r) /\ 1 \in 1..(Len(q) - 1)
    BY <1>1, <1>3, <1>5
  <2> QED BY <1>1, <2>1
<1>6. ASSUME r = <<>> PROVE q[Len(q)] = Head(q)
  BY <1>1, <1>3, <1>6
<1> QED BY <1>1, <1>2, <1>4, <1>5, <1>6

\* The numbers 1, 2, ... stay that when the next one is added.
LEMMA AppendNext ==
    ASSUME NEW S, NEW s \in Seq(S), s = [i \in 1..Len(s) |-> i], NEW m \in S, m = Len(s) + 1
    PROVE  /\ Append(s, m) \in Seq(S) /\ Len(Append(s, m)) = m
           /\ Append(s, m) = [i \in 1..Len(Append(s, m)) |-> i]
<1> DEFINE r == Append(s, m)
<1>1. /\ r \in Seq(S) /\ Len(r) = m /\ Len(s) \in Nat
      /\ r[Len(s) + 1] = m /\ \A i \in 1..Len(s) : r[i] = s[i]
  OBVIOUS
<1>2. DOMAIN r = 1..Len(r) /\ r = [i \in DOMAIN r |-> r[i]]
  BY <1>1
<1>3. ASSUME NEW i \in 1..Len(r) PROVE r[i] = i
  <2>1. CASE i \in 1..Len(s)
    BY <1>1, <2>1
  <2>2. CASE i = Len(s) + 1
    BY <1>1, <2>2
  <2> QED BY <1>1, <2>1, <2>2
<1> QED BY <1>1, <1>2, <1>3

\* What write, read and close do to the pipes.
WithQueue(p, e, q) == [p EXCEPT ![e].queue = q]
WithClosed(p, e) == [p EXCEPT ![e].closed = TRUE]
Pipes == [Ends -> [queue : Seq(Entries), closed : BOOLEAN]]

\* Writing to or reading from a pipe changes its queue only.
LEMMA QueueUpdate ==
    ASSUME NEW p \in Pipes, NEW e \in Ends, NEW q \in Seq(Entries),
           NEW r, r = WithQueue(p, e, q)
    PROVE  /\ r \in Pipes
           /\ \A f \in Ends : /\ r[f].queue = IF f = e THEN q ELSE p[f].queue
                              /\ r[f].closed = p[f].closed
<1> DEFINE P == [p[e] EXCEPT !.queue = q]
<1>1. p[e] \in [queue : Seq(Entries), closed : BOOLEAN]
  BY DEF Pipes
<1>2. P \in [queue : Seq(Entries), closed : BOOLEAN]
  BY <1>1
<1>3. P.queue = q
  BY <1>1
<1>4. P.closed = p[e].closed
  BY <1>1
<1>5. r = [p EXCEPT ![e] = P]
  BY DEF WithQueue
<1> HIDE DEF P
<1> QED BY <1>2, <1>3, <1>4, <1>5 DEF Pipes

\* Closing a pipe keeps its queue.
LEMMA CloseUpdate ==
    ASSUME NEW p \in Pipes, NEW e \in Ends, NEW r, r = WithClosed(p, e)
    PROVE  /\ r \in Pipes
           /\ \A f \in Ends : /\ r[f].queue = p[f].queue
                              /\ p[f].closed => r[f].closed
<1> DEFINE P == [p[e] EXCEPT !.closed = TRUE]
<1>1. p[e] \in [queue : Seq(Entries), closed : BOOLEAN]
  BY DEF Pipes
<1>2. P \in [queue : Seq(Entries), closed : BOOLEAN]
  BY <1>1
<1>3. P.queue = p[e].queue
  BY <1>1
<1>4. P.closed = TRUE
  BY <1>1
<1>5. r = [p EXCEPT ![e] = P]
  BY DEF WithClosed
<1> HIDE DEF P
<1> QED BY <1>2, <1>3, <1>4, <1>5 DEF Pipes

\* A step that leaves the pipe of e, what e has read and the sending end's
\* position alone keeps QueueInv(e); closing an end or leaving the loop may be
\* part of it.
LEMMA QueueFrame ==
    ASSUME NEW e \in Ends, QueueInv(e),
           pipe'[e].queue = pipe[e].queue,
           Reading(e)' => Reading(e) /\ LastRead(e)' = LastRead(e),
           Writable(e)' => Writable(e),
           next'[Peer(e)] = next[Peer(e)], writer'[Peer(e)] = writer[Peer(e)]
    PROVE  QueueInv(e)'
<1>1. LastRead(e)' = LastRead(e) => LastWritten(e)' = LastWritten(e)
  BY DEF LastWritten
<1> QED BY <1>1 DEF QueueInv

-----------------------------------------------------------------------------
(***************************************************************************)
(* Init and each kind of step keep the invariant.                          *)
(***************************************************************************)
\* Before register_inprocess returns nothing has been sent or read.
LEMMA InitInd == Init => IndInv
<1> SUFFICES ASSUME Init PROVE IndInv
  OBVIOUS
<1> USE IpcAssumption DEF Init
<1>1. TypeOK
  BY DEF TypeOK
<1>2. FramesIntact
  BY DEF FramesIntact
<1>3. MutexInv /\ StartInv /\ HeldInv
  BY DEF MutexInv, StartInv, HeldInv
<1>4. ASSUME NEW e \in Ends PROVE QueueInv(e)
  <2>1. pipe[e].queue = <<>> /\ rpc[e] = "none" /\ Len(got[e]) = 0
    OBVIOUS
  <2>2. Len(pipe[e].queue) = 0 /\ LastWritten(e) = [kind |-> "pay", msg |-> 0]
    BY <2>1 DEF LastWritten, LastRead
  <2>3. next[Peer(e)] = 0 /\ writer[Peer(e)] = "none"
    BY PeerFacts
  <2> QED BY <2>1, <2>2, <2>3 DEF QueueInv, Whole
<1> QED BY <1>1, <1>2, <1>3, <1>4 DEF IndInv

\* listen() and connect() touch neither pipe nor sender, and start the read
\* thread once.
LEMMA LinkInd ==
    ASSUME IndInv, NEW e \in Ends, Call(e) \/ Open(e) \/ Start(e) \/ Greet(e)
    PROVE  IndInv'
<1> USE DEF IndInv
<1>1. TypeOK'
  BY DEF TypeOK, Call, Open, Start, Greet, sendVars, readVars, stopVars
<1>2. UNCHANGED <<connected, pipe, writer, spc, next, hdr, got>>
  BY DEF Call, Open, Start, Greet, sendVars, readVars
<1>3. FramesIntact' /\ MutexInv'
  BY <1>2 DEF FramesIntact, MutexInv
<1>4. rpc' = rpc \/ (rpc[e] = "none" /\ rpc' = [rpc EXCEPT ![e] = "top"])
  BY DEF Call, Open, Start, Greet, readVars, StartInv
<1>5. StartInv'
  BY DEF StartInv, TypeOK, Call, Open, Start, Greet, readVars
<1>6. HeldInv'
  BY <1>2, <1>4 DEF HeldInv, TypeOK
<1>7. ASSUME NEW f \in Ends PROVE QueueInv(f)'
  <2>1. Reading(f)' => Reading(f) /\ LastRead(f)' = LastRead(f)
    BY <1>2, <1>4 DEF Reading, LastRead, TypeOK
  <2>2. Writable(f)' => Writable(f)
    BY <1>2 DEF Writable
  <2> QED BY <1>2, <2>1, <2>2, QueueFrame
<1> QED BY <1>1, <1>3, <1>5, <1>6, <1>7

\* stop() only takes away: an end that is closed or disconnected stays so.
LEMMA StopInd ==
    ASSUME IndInv, NEW e \in Ends, StopCall(e) \/ StopStep(e)
    PROVE  IndInv'
<1> USE DEF IndInv, StopStep, StopAt
<1>1. UNCHANGED <<apc, channel, greeted, writer, spc, next, rpc, hdr, got, lost, refused>>
  BY DEF StopCall, CloseFlag, CloseMark, JoinReader, JoinThread, linkVars, sendVars, readVars
<1>2. /\ stop' \in [Ends -> {"run", "close", "mark", "join", "thread", "stopped"}]
      /\ stops' \in [Ends -> 0..MaxStop]
  <2>1. \/ /\ stops[e] < MaxStop /\ stops' = [stops EXCEPT ![e] = @ + 1]
        \/ stops' = stops
    BY DEF StopCall, CloseFlag, CloseMark, JoinReader, JoinThread
  <2>2. \E l \in {"close", "mark", "join", "thread", "stopped"} : stop' = [stop EXCEPT ![e] = l]
    BY DEF StopCall, CloseFlag, CloseMark, JoinReader, JoinThread
  <2>3. stop' \in [Ends -> {"run", "close", "mark", "join", "thread", "stopped"}]
    BY <2>2 DEF TypeOK
  <2>4. stops' \in [Ends -> 0..MaxStop]
    <3>1. stops[e] \in 0..MaxStop
      BY DEF TypeOK
    <3>2. stops[e] < MaxStop => stops[e] + 1 \in 0..MaxStop
      BY <3>1, IpcAssumption
    <3> QED BY <2>1, <3>2 DEF TypeOK
  <2> QED BY <2>3, <2>4
<1>3. connected' = connected \/ connected' = [connected EXCEPT ![e] = FALSE]
  BY DEF StopCall, CloseFlag, CloseMark, JoinReader, JoinThread
<1>4. pipe' = pipe \/ pipe' = [pipe EXCEPT ![e].closed = TRUE]
  BY DEF StopCall, CloseFlag, CloseMark, JoinReader, JoinThread
<1>5. /\ connected' \in [Ends -> BOOLEAN]
      /\ \A f \in Ends : connected'[f] => connected[f]
  BY <1>3 DEF TypeOK
<1>6. /\ pipe' \in [Ends -> [queue : Seq(Entries), closed : BOOLEAN]]
      /\ \A f \in Ends : /\ pipe'[f].queue = pipe[f].queue
                         /\ pipe[f].closed => pipe'[f].closed
  <2>1. CASE pipe' = pipe
    BY <2>1 DEF TypeOK
  <2>2. CASE pipe' = [pipe EXCEPT ![e].closed = TRUE]
    <3>1. pipe' = WithClosed(pipe, e)
      BY <2>2 DEF WithClosed
    <3>2. pipe \in Pipes
      BY DEF TypeOK, Pipes
    <3>3. /\ pipe' \in Pipes
          /\ \A f \in Ends : /\ pipe'[f].queue = pipe[f].queue
                             /\ pipe[f].closed => pipe'[f].closed
      BY <3>1, <3>2, CloseUpdate
    <3> QED BY <3>3 DEF Pipes
  <2> QED BY <1>4, <2>1, <2>2
<1>7. TypeOK'
  BY <1>1, <1>2, <1>5, <1>6 DEF TypeOK
<1>8. FramesIntact' /\ MutexInv' /\ StartInv' /\ HeldInv'
  BY <1>1 DEF FramesIntact, MutexInv, StartInv, HeldInv
<1>9. ASSUME NEW f \in Ends PROVE QueueInv(f)'
  <2>1. Reading(f)' => Reading(f) /\ LastRead(f)' = LastRead(f)
    BY <1>1 DEF Reading, LastRead
  <2>2. Writable(f)' => Writable(f)
    BY <1>5, <1>6, PeerFacts DEF Writable
  <2> QED BY <1>1, <1>6, <2>1, <2>2, QueueFrame
<1> QED BY <1>7, <1>8, <1>9

\* send_raw: header and payload are the two entries that continue the stream,
\* and no other sender comes between them.
LEMMA SendInd ==
    ASSUME IndInv, NEW e \in Ends, NEW w \in Senders, SendRaw(e, w)
    PROVE  IndInv'
<1> DEFINE p == Peer(e)
<1> USE DEF IndInv
<1>1. p \in Ends /\ p # e /\ Peer(p) = e
  BY PeerFacts
<1> HIDE DEF p
<1>2. UNCHANGED <<apc, channel, greeted, rpc, hdr, got, lost, refused, stop, stops>>
  BY DEF SendRaw, SendHeader, SendPayload, linkVars, readVars, stopVars
<1>3. /\ next[e] \in 0..MaxMsg /\ w # "none" /\ MaxMsg \in Nat
      /\ pipe \in Pipes /\ connected \in [Ends -> BOOLEAN]
  BY IpcAssumption DEF TypeOK, Pipes
<1>4. PICK x \in Entries :
        /\ WriteEntry(e, x)
        /\ Writable(p) /\ Reading(p) => Continues(LastWritten(p), x)
        /\ x.msg = next'[e] /\ (Whole(x) <=> writer'[e] = "none")
  <2>1. CASE SendHeader(e, w)
    <3> DEFINE x == [kind |-> "hdr", msg |-> next[e] + 1]
    <3>1. x \in Entries /\ WriteEntry(e, x) /\ x.msg = next'[e]
      BY <1>3, <2>1 DEF SendHeader, Entries, TypeOK
    <3>2. Whole(x) <=> writer'[e] = "none"
      BY <1>3, <2>1 DEF SendHeader, Whole, TypeOK
    <3>3. Writable(p) /\ Reading(p) => Continues(LastWritten(p), x)
      BY <1>1, <2>1 DEF SendHeader, QueueInv, Continues
    <3> QED BY <3>1, <3>2, <3>3
  <2>2. CASE SendPayload(e, w)
    <3> DEFINE x == [kind |-> "pay", msg |-> next[e]]
    <3>1. writer[e] = w /\ next[e] # 0
      BY <1>3, <2>2 DEF SendPayload, MutexInv
    <3>2. x \in Entries /\ WriteEntry(e, x) /\ x.msg = next'[e]
      BY <1>3, <2>2, <3>1 DEF SendPayload, Entries
    <3>3. Whole(x) <=> writer'[e] = "none"
      BY <2>2 DEF SendPayload, Whole, TypeOK
    <3>4. Writable(p) /\ Reading(p) => Continues(LastWritten(p), x)
      BY <1>1, <1>3, <3>1 DEF QueueInv, Continues
    <3> QED BY <3>2, <3>3, <3>4
  <2> QED BY <2>1, <2>2 DEF SendRaw
<1>5. /\ pipe' \in Pipes /\ connected' \in [Ends -> BOOLEAN]
      /\ \A f \in Ends : pipe'[f].closed = pipe[f].closed /\ (connected'[f] => connected[f])
      /\ pipe'[e].queue = pipe[e].queue
      /\ IF Writable(p) THEN pipe'[p].queue = Append(pipe[p].queue, x) /\ connected' = connected
                        ELSE pipe' = pipe /\ ~connected'[e]
  <2>1. CASE Writable(p)
    <3>1. pipe' = [pipe EXCEPT ![p].queue = Append(pipe[p].queue, x)] /\ connected' = connected
      BY <1>1, <1>4, <2>1 DEF WriteEntry, Writable, p
    <3>2. Append(pipe[p].queue, x) \in Seq(Entries)
      BY <1>1, <1>3 DEF Pipes
    <3>3. /\ pipe' \in Pipes
          /\ \A f \in Ends :
               /\ pipe'[f].queue = IF f = p THEN Append(pipe[p].queue, x) ELSE pipe[f].queue
               /\ pipe'[f].closed = pipe[f].closed
      <4> DEFINE Q == Append(pipe[p].queue, x)
      <4>1. pipe' = WithQueue(pipe, p, Q) /\ Q \in Seq(Entries)
        BY <3>1, <3>2 DEF WithQueue
      <4> HIDE DEF Q
      <4>2. /\ pipe' \in Pipes
            /\ \A f \in Ends : /\ pipe'[f].queue = IF f = p THEN Q ELSE pipe[f].queue
                               /\ pipe'[f].closed = pipe[f].closed
        BY <1>1, <1>3, <4>1, QueueUpdate
      <4> QED BY <4>2 DEF Q
    <3> QED BY <1>1, <1>3, <2>1, <3>1, <3>3
  <2>2. CASE ~Writable(p)
    BY <1>1, <1>3, <1>4, <2>2 DEF WriteEntry, Writable, p
  <2> QED BY <2>1, <2>2
<1>6. /\ writer' \in [Ends -> Senders \cup {"none"}] /\ next' \in [Ends -> 0..MaxMsg]
      /\ spc' \in [Ends -> [Senders -> {"idle", "payload"}]]
      /\ next'[p] = next[p] /\ writer'[p] = writer[p]
  <2>1. next[e] < MaxMsg => next[e] + 1 \in 0..MaxMsg
    BY <1>3
  <2>2. next' = next \/ (next[e] < MaxMsg /\ next' = [next EXCEPT ![e] = @ + 1])
    BY DEF SendRaw, SendHeader, SendPayload
  <2>3. writer' = writer \/ \E u \in Senders \cup {"none"} : writer' = [writer EXCEPT ![e] = u]
    BY DEF SendRaw, SendHeader, SendPayload
  <2>4. spc' = spc \/ \E l \in {"idle", "payload"} : spc' = [spc EXCEPT ![e][w] = l]
    BY DEF SendRaw, SendHeader, SendPayload
  <2>5. spc' \in [Ends -> [Senders -> {"idle", "payload"}]]
    <3>1. ASSUME NEW l \in {"idle", "payload"}, spc' = [spc EXCEPT ![e][w] = l]
          PROVE  spc' \in [Ends -> [Senders -> {"idle", "payload"}]]
      BY <3>1 DEF TypeOK
    <3> QED BY <2>4, <3>1 DEF TypeOK
  <2>6. next' \in [Ends -> 0..MaxMsg] /\ next'[p] = next[p]
    <3>1. CASE next' = next
      BY <3>1 DEF TypeOK
    <3>2. CASE next[e] < MaxMsg /\ next' = [next EXCEPT ![e] = @ + 1]
      BY <1>1, <2>1, <3>2 DEF TypeOK
    <3> QED BY <2>2, <3>1, <3>2
  <2>7. writer' \in [Ends -> Senders \cup {"none"}] /\ writer'[p] = writer[p]
    <3>1. ASSUME NEW u \in Senders \cup {"none"}, writer' = [writer EXCEPT ![e] = u]
          PROVE  writer' \in [Ends -> Senders \cup {"none"}] /\ writer'[p] = writer[p]
      BY <1>1, <3>1 DEF TypeOK
    <3> QED BY <2>3, <3>1 DEF TypeOK
  <2> QED BY <2>5, <2>6, <2>7
<1>7. TypeOK'
  BY <1>2, <1>5, <1>6 DEF TypeOK, Pipes
<1>8. FramesIntact' /\ StartInv' /\ HeldInv'
  BY <1>2 DEF FramesIntact, StartInv, HeldInv
<1>9. MutexInv'
  <2>1. CASE UNCHANGED <<writer, spc>>
    <3>1. next' = [next EXCEPT ![e] = @ + 1] \/ next' = next
      BY DEF SendRaw, SendHeader, SendPayload
    <3> QED BY <1>3, <2>1, <3>1 DEF MutexInv, TypeOK
  <2>2. CASE /\ writer[e] = "none" /\ next' = [next EXCEPT ![e] = @ + 1]
             /\ writer' = [writer EXCEPT ![e] = w] /\ spc' = [spc EXCEPT ![e][w] = "payload"]
    <3>1. next'[e] # 0
      BY <1>3, <2>2 DEF TypeOK
    <3>2. \A u \in Senders : spc[e][u] # "payload"
      BY <2>2, IpcAssumption DEF MutexInv
    <3>3. \A u \in Senders : spc'[e][u] = "payload" <=> u = w
      BY <2>2, <3>2 DEF TypeOK
    <3>4. writer'[e] = w
      BY <2>2 DEF TypeOK
    <3>5. \A f \in Ends \ {e} : spc'[f] = spc[f] /\ writer'[f] = writer[f] /\ next'[f] = next[f]
      BY <2>2 DEF TypeOK
    <3> QED BY <3>1, <3>3, <3>4, <3>5 DEF MutexInv
  <2>3. CASE SendPayload(e, w)
    <3>1. \A u \in Senders : spc[e][u] = "payload" <=> u = w
      BY <2>3 DEF MutexInv, SendPayload
    <3>2. spc' = [spc EXCEPT ![e][w] = "idle"] /\ writer' = [writer EXCEPT ![e] = "none"] /\ next' = next
      BY <2>3 DEF SendPayload
    <3>3. \A u \in Senders : spc'[e][u] # "payload"
      BY <3>1, <3>2 DEF TypeOK
    <3>4. writer'[e] = "none"
      BY <3>2 DEF TypeOK
    <3>5. \A f \in Ends \ {e} : spc'[f] = spc[f] /\ writer'[f] = writer[f]
      BY <3>2 DEF TypeOK
    <3> QED BY <3>2, <3>3, <3>4, <3>5, IpcAssumption DEF MutexInv
  <2> QED BY <2>1, <2>2, <2>3 DEF SendRaw, SendHeader
<1>10. QueueInv(e)'
  <2>1. Reading(e)' => Reading(e) /\ LastRead(e)' = LastRead(e)
    BY <1>2 DEF Reading, LastRead
  <2>2. Writable(e)' => Writable(e)
    BY <1>1, <1>5 DEF Writable, p
  <2> QED BY <1>5, <1>6, <2>1, <2>2, QueueFrame DEF p
<1>11. QueueInv(p)'
  <2> SUFFICES ASSUME Reading(p)' PROVE QueueInv(p)'
    BY DEF QueueInv
  <2>1. Reading(p) /\ LastRead(p)' = LastRead(p)
    BY <1>2 DEF Reading, LastRead
  <2>2. CASE Writable(p)
    <3> DEFINE q == pipe[p].queue
               r == Append(q, x)
    <3>1. q \in Seq(Entries) /\ pipe'[p].queue = r
      BY <1>1, <1>3, <1>5, <2>2 DEF Pipes
    <3>2. \A i \in 1..(Len(q) - 1) : Continues(q[i], q[i + 1])
      BY <1>1, <2>1 DEF QueueInv
    <3>3. q # <<>> => Continues(q[Len(q)], x)
      BY <1>4, <2>1, <2>2 DEF LastWritten
    <3>4. q = <<>> => Continues(LastRead(p), x)
      BY <1>4, <2>1, <2>2 DEF LastWritten
    <3>5. q # <<>> => Continues(LastRead(p), q[1])
      BY <1>1, <2>1 DEF QueueInv
    <3> HIDE DEF q
    <3>6. /\ r # <<>> /\ r[Len(r)] = x /\ r[1] = IF q = <<>> THEN x ELSE q[1]
          /\ \A i \in 1..(Len(r) - 1) : Continues(r[i], r[i + 1])
      BY <3>1, <3>2, <3>3, AppendContinues
    <3> HIDE DEF r
    <3>7. LastWritten(p)' = x
      BY <3>1, <3>6 DEF LastWritten
    <3>8. Continues(LastRead(p)', r[1])
      BY <2>1, <3>4, <3>5, <3>6
    <3> QED BY <1>1, <1>4, <3>1, <3>6, <3>7, <3>8 DEF QueueInv
  <2>3. CASE ~Writable(p)
    <3>1. ~Writable(p)' /\ pipe' = pipe
      BY <1>1, <1>5, <2>3 DEF Writable
    <3> QED BY <1>1, <2>1, <3>1 DEF QueueInv
  <2> QED BY <2>2, <2>3
<1>12. \A f \in Ends : f = e \/ f = p
  BY <1>1 DEF Ends, Peer
<1> QED BY <1>7, <1>8, <1>9, <1>10, <1>11, <1>12

\* What reading one entry does to the pipes.
LEMMA PopUpdate ==
    ASSUME TypeOK, NEW e \in Ends, pipe[e].queue # <<>>, Pop(e)
    PROVE  /\ pipe' \in Pipes
           /\ \A f \in Ends :
                /\ pipe'[f].queue = IF f = e THEN Tail(pipe[e].queue) ELSE pipe[f].queue
                /\ pipe'[f].closed = pipe[f].closed
<1> DEFINE Q == Tail(pipe[e].queue)
<1>1. pipe \in Pipes
  BY DEF TypeOK, Pipes
<1>2. Q \in Seq(Entries)
  BY <1>1 DEF Pipes
<1>3. pipe' = WithQueue(pipe, e, Q)
  BY DEF Pop, WithQueue
<1> HIDE DEF Q
<1>4. /\ pipe' \in Pipes
      /\ \A f \in Ends : /\ pipe'[f].queue = IF f = e THEN Q ELSE pipe[f].queue
                         /\ pipe'[f].closed = pipe[f].closed
  BY <1>1, <1>2, <1>3, QueueUpdate
<1> QED BY <1>4 DEF Q

\* read_loop keeps the stream in order: an entry that is read continues the
\* last one, so a header is that of the next message and the payload after it
\* is its own.
LEMMA ReadInd ==
    ASSUME IndInv, NEW e \in Ends, ReadLoop(e)
    PROVE  IndInv'
<1> DEFINE q == pipe[e].queue
<1> USE DEF IndInv
<1>1. UNCHANGED <<apc, channel, greeted, writer, spc, next, stop, stops>>
  BY DEF ReadLoop, ReadTop, ReadHeader, RefuseFrame, ReadPayload, ReadEnd, Bye,
         linkVars, sendVars, stopVars
<1>2. MutexInv'
  BY <1>1 DEF MutexInv
<1>3. StartInv'
  <2>1. rpc[e] # "none" /\ \A f \in Ends \ {e} : rpc'[f] = rpc[f]
    BY DEF ReadLoop, ReadTop, ReadHeader, RefuseFrame, ReadPayload, ReadEnd, Bye, TypeOK
  <2> QED BY <1>1, <2>1 DEF StartInv
\* The other end, whose pipe and position this read does not touch.
<1>4. ASSUME NEW f \in Ends \ {e},
             pipe'[f].queue = pipe[f].queue, pipe'[f].closed = pipe[f].closed,
             connected' = connected \/ connected' = [connected EXCEPT ![e] = FALSE],
             rpc'[f] = rpc[f], hdr'[f] = hdr[f], got'[f] = got[f]
      PROVE  QueueInv(f)'
  <2>1. Reading(f)' => Reading(f) /\ LastRead(f)' = LastRead(f)
    BY <1>4 DEF Reading, LastRead
  <2>2. Writable(f)' => Writable(f)
    BY <1>4, PeerFacts DEF Writable, TypeOK
  <2> QED BY <1>1, <1>4, <2>1, <2>2, QueueFrame
\* Leaving the loop.
<1>5. CASE Bye(e) \/ ReadEnd(e) \/ RefuseFrame(e) \/ ReadTop(e)
  <2>1. hdr' = hdr /\ got' = got
    BY <1>5 DEF Bye, ReadEnd, RefuseFrame, ReadTop
  <2>2. connected' = connected \/ connected' = [connected EXCEPT ![e] = FALSE]
    BY <1>5 DEF Bye, ReadEnd, RefuseFrame, ReadTop
  <2>3. /\ pipe' \in Pipes
        /\ \A f \in Ends : /\ f # e \/ ~RefuseFrame(e) => pipe'[f].queue = pipe[f].queue
                           /\ pipe'[f].closed = pipe[f].closed
    <3>1. CASE RefuseFrame(e)
      BY <3>1, PopUpdate DEF RefuseFrame
    <3>2. CASE ~RefuseFrame(e)
      <4>1. pipe' = pipe
        BY <1>5, <3>2 DEF Bye, ReadEnd, ReadTop
      <4> QED BY <4>1 DEF TypeOK, Pipes
    <3> QED BY <3>1, <3>2
  <2>4. /\ rpc' \in [Ends -> {"none", "top", "header", "payload", "bye", "done"}]
        /\ \A f \in Ends \ {e} : rpc'[f] = rpc[f]
        /\ rpc'[e] \in {"bye", "done"} \/ (ReadTop(e) /\ rpc[e] = "top" /\ rpc'[e] = "header")
    BY <1>5 DEF Bye, ReadEnd, RefuseFrame, ReadTop, TypeOK
  <2>5. lost' \in [Ends -> BOOLEAN] /\ refused' \in [Ends -> BOOLEAN]
    BY <1>5 DEF Bye, ReadEnd, RefuseFrame, ReadTop, TypeOK
  <2>6. connected' \in [Ends -> BOOLEAN]
    BY <2>2 DEF TypeOK
  <2>7. TypeOK'
    BY <1>1, <2>1, <2>3, <2>4, <2>5, <2>6 DEF TypeOK, Pipes
  <2>8. FramesIntact' /\ HeldInv'
    BY <2>1, <2>4 DEF FramesIntact, HeldInv
  <2>9. QueueInv(e)'
    <3>1. CASE rpc'[e] \in {"bye", "done"}
      BY <3>1 DEF QueueInv, Reading
    <3>2. CASE ReadTop(e) /\ rpc[e] = "top" /\ rpc'[e] = "header"
      <4>1. pipe' = pipe /\ connected' = connected
        BY <3>2 DEF ReadTop
      <4>2. Reading(e) /\ LastRead(e)' = LastRead(e)
        BY <2>1, <3>2 DEF Reading, LastRead
      <4> QED BY <1>1, <4>1, <4>2, QueueFrame DEF Writable
    <3> QED BY <2>4, <3>1, <3>2
  <2>10. \A f \in Ends \ {e} : QueueInv(f)'
    BY <1>4, <2>1, <2>2, <2>3, <2>4
  <2> QED BY <1>2, <1>3, <2>7, <2>8, <2>9, <2>10
\* Reading an entry.
<1>6. CASE ReadHeader(e) \/ ReadPayload(e)
  <2>1. /\ q # <<>> /\ Pop(e) /\ Reading(e) /\ connected' = connected
        /\ lost' = lost /\ refused' = refused
    BY <1>6 DEF ReadHeader, ReadPayload, Reading
  <2>2. q \in Seq(Entries) /\ got[e] \in Seq(1..MaxMsg) /\ Len(got[e]) \in Nat
    BY DEF TypeOK
  <2>3. /\ pipe' \in Pipes
        /\ \A f \in Ends :
             /\ pipe'[f].queue = IF f = e THEN Tail(q) ELSE pipe[f].queue
             /\ pipe'[f].closed = pipe[f].closed
    BY <2>1, PopUpdate
  <2>4. /\ Continues(LastRead(e), q[1])
        /\ \A i \in 1..(Len(q) - 1) : Continues(q[i], q[i + 1])
        /\ Writable(e) => /\ q[Len(q)].msg = next[Peer(e)]
                          /\ Whole(q[Len(q)]) <=> writer[Peer(e)] = "none"
    BY <2>1 DEF QueueInv, LastWritten
  <2>5. /\ Head(q) \in Entries /\ Head(q) = q[1] /\ Next1(e) = q[1]
        /\ \A i \in 1..(Len(Tail(q)) - 1) : Continues(Tail(q)[i], Tail(q)[i + 1])
        /\ Tail(q) # <<>> => /\ Continues(q[1], Tail(q)[1])
                             /\ Tail(q)[Len(Tail(q))] = q[Len(q)]
        /\ Tail(q) = <<>> => q[Len(q)] = q[1]
    BY <2>1, <2>2, <2>4, TailContinues DEF Next1
  \* What the entry is, and what the loop holds after it.
  <2>6. \/ /\ q[1] = [kind |-> "pay", msg |-> hdr[e]] /\ hdr[e] = Len(got[e]) + 1
           /\ rpc[e] = "payload"
           /\ got' = [got EXCEPT ![e] = Append(@, q[1].msg)]
           /\ rpc' = [rpc EXCEPT ![e] = "top"] /\ hdr' = [hdr EXCEPT ![e] = 0]
        \/ /\ q[1] = [kind |-> "hdr", msg |-> Len(got[e]) + 1] /\ q[1].msg \in Empty
           /\ got' = [got EXCEPT ![e] = Append(@, q[1].msg)]
           /\ rpc' = [rpc EXCEPT ![e] = "top"] /\ hdr' = hdr
        \/ /\ q[1] = [kind |-> "hdr", msg |-> Len(got[e]) + 1] /\ q[1].msg \notin Empty
           /\ got' = got
           /\ rpc' = [rpc EXCEPT ![e] = "payload"] /\ hdr' = [hdr EXCEPT ![e] = q[1].msg]
    <3>1. CASE ReadHeader(e)
      <4>1. rpc[e] = "header"
        BY <3>1 DEF ReadHeader
      <4>2. q[1] = [kind |-> "hdr", msg |-> Len(got[e]) + 1]
        BY <2>4, <4>1 DEF LastRead, Continues, Whole
      <4> QED BY <2>5, <3>1, <4>2 DEF ReadHeader
    <3>2. CASE ReadPayload(e)
      <4>1. rpc[e] = "payload" /\ hdr[e] = Len(got[e]) + 1 /\ hdr[e] \notin Empty
        BY <3>2 DEF ReadPayload, HeldInv
      <4>2. q[1] = [kind |-> "pay", msg |-> hdr[e]]
        BY <2>4, <4>1 DEF LastRead, Continues, Whole
      <4> QED BY <2>5, <3>2, <4>1, <4>2 DEF ReadPayload
    <3> QED BY <1>6, <3>1, <3>2
  <2>7. q[1].msg \in 1..MaxMsg /\ q[1].msg = Len(got[e]) + 1
    BY <2>5, <2>6 DEF Entries
  <2>8. \A f \in Ends \ {e} : rpc'[f] = rpc[f] /\ hdr'[f] = hdr[f] /\ got'[f] = got[f]
    BY <2>6 DEF TypeOK
  <2>9. /\ Append(got[e], q[1].msg) \in Seq(1..MaxMsg)
        /\ Len(Append(got[e], q[1].msg)) = q[1].msg
        /\ Append(got[e], q[1].msg) = [i \in 1..Len(Append(got[e], q[1].msg)) |-> i]
    <3>1. got[e] = [i \in 1..Len(got[e]) |-> i]
      BY DEF FramesIntact
    <3> QED BY <2>2, <2>7, <3>1, AppendNext
  <2>10. /\ rpc' \in [Ends -> {"none", "top", "header", "payload", "bye", "done"}]
         /\ hdr' \in [Ends -> 0..MaxMsg] /\ got' \in [Ends -> Seq(1..MaxMsg)]
    <3>1. rpc' \in [Ends -> {"none", "top", "header", "payload", "bye", "done"}]
      BY <2>6 DEF TypeOK
    <3>2. q[1].msg \in 0..MaxMsg /\ 0 \in 0..MaxMsg
      BY <2>7, IpcAssumption
    <3>3. hdr' = hdr \/ hdr' = [hdr EXCEPT ![e] = 0] \/ hdr' = [hdr EXCEPT ![e] = q[1].msg]
      BY <2>6
    <3>4. hdr' \in [Ends -> 0..MaxMsg]
      BY <3>2, <3>3 DEF TypeOK
    <3>5. got' = got \/ got' = [got EXCEPT ![e] = Append(got[e], q[1].msg)]
      BY <2>6
    <3>6. got' \in [Ends -> Seq(1..MaxMsg)]
      BY <2>9, <3>5 DEF TypeOK
    <3> QED BY <3>1, <3>4, <3>6
  <2>11. TypeOK'
    BY <1>1, <2>1, <2>3, <2>10 DEF TypeOK, Pipes
  <2>12. FramesIntact'
    <3>1. got'[e] = got[e] \/ got'[e] = Append(got[e], q[1].msg)
      BY <2>6 DEF TypeOK
    <3>2. got[e] = [i \in 1..Len(got[e]) |-> i]
      BY DEF FramesIntact
    <3>3. got'[e] = [i \in 1..Len(got'[e]) |-> i]
      BY ONLY <2>9, <3>1, <3>2, Zenon
    <3>4. \A f \in Ends \ {e} : got'[f] = [i \in 1..Len(got'[f]) |-> i]
      <4>1. ASSUME NEW f \in Ends \ {e} PROVE got'[f] = [i \in 1..Len(got'[f]) |-> i]
        <5>1. got'[f] = got[f] /\ got[f] = [i \in 1..Len(got[f]) |-> i]
          BY <2>8 DEF FramesIntact
        <5> QED BY ONLY <5>1, Zenon
      <4> QED BY <4>1
    <3> QED BY ONLY <3>3, <3>4, Zenon DEF FramesIntact
  <2>13. HeldInv' /\ LastRead(e)'.msg = q[1].msg /\ (Whole(LastRead(e)') <=> Whole(q[1]))
    <3>1. CASE rpc' = [rpc EXCEPT ![e] = "payload"]
      BY <2>6, <2>7, <2>8, <3>1 DEF HeldInv, LastRead, Whole, TypeOK
    <3>2. CASE rpc' = [rpc EXCEPT ![e] = "top"]
      <4>1. rpc'[e] = "top" /\ got'[e] = Append(got[e], q[1].msg)
        BY <2>6, <3>2 DEF TypeOK
      <4>2. LastRead(e)' = [kind |-> "pay", msg |-> q[1].msg]
        BY <2>9, <4>1 DEF LastRead
      <4>3. Whole(q[1])
        BY <2>6, <4>1 DEF Whole, TypeOK
      <4>4. HeldInv'
        BY <2>8, <4>1 DEF HeldInv
      <4> QED BY <4>2, <4>3, <4>4 DEF Whole
    <3> QED BY <2>6, <3>1, <3>2
  <2>14. QueueInv(e)'
    <3>1. Tail(q) # <<>> => Continues(LastRead(e)', Tail(q)[1])
      BY <2>5, <2>13 DEF Continues
    <3>2. /\ LastWritten(e)'.msg = q[Len(q)].msg
          /\ Whole(LastWritten(e)') <=> Whole(q[Len(q)])
      BY <2>3, <2>5, <2>13 DEF LastWritten
    <3>3. Writable(e)' => Writable(e)
      BY <2>1, <2>3 DEF Writable
    <3> QED BY <1>1, <2>3, <2>4, <2>5, <3>1, <3>2, <3>3 DEF QueueInv
  <2>15. \A f \in Ends \ {e} : QueueInv(f)'
    BY <1>4, <2>1, <2>3, <2>8
  <2> QED BY <1>2, <1>3, <2>11, <2>12, <2>13, <2>14, <2>15
<1> QED BY <1>5, <1>6 DEF ReadLoop

\* Every step keeps the invariant.
LEMMA NextInd == IndInv /\ [Next]_vars => IndInv'
<1> SUFFICES ASSUME IndInv, [Next]_vars PROVE IndInv'
  OBVIOUS
<1>1. CASE Listen \/ Connect
  BY <1>1, LinkInd DEF Listen, Connect, Ends
<1>2. ASSUME NEW e \in Ends, NEW w \in Senders, SendRaw(e, w) PROVE IndInv'
  BY <1>2, SendInd
<1>3. ASSUME NEW e \in Ends, ReadLoop(e) PROVE IndInv'
  BY <1>3, ReadInd
<1>4. ASSUME NEW e \in Ends, StopCall(e) \/ StopStep(e) PROVE IndInv'
  BY <1>4, StopInd
<1>5. CASE UNCHANGED vars
  <2>1. UNCHANGED <<apc, channel, greeted, connected, pipe, writer, spc, next, rpc, hdr, got,
                    lost, refused, stop, stops>>
    BY <1>5 DEF vars, linkVars, sendVars, readVars, stopVars
  <2>2. TypeOK'
    BY <2>1 DEF IndInv, TypeOK
  <2>3. FramesIntact'
    BY <2>1 DEF IndInv, FramesIntact
  <2>4. MutexInv' /\ StartInv' /\ HeldInv'
    BY <2>1 DEF IndInv, MutexInv, StartInv, HeldInv
  <2>5. \A e \in Ends : QueueInv(e)'
    BY <2>1, QueueFrame DEF IndInv, Reading, LastRead, Writable
  <2> QED BY <2>2, <2>3, <2>4, <2>5 DEF IndInv
<1> QED BY <1>1, <1>2, <1>3, <1>4, <1>5 DEF Next

\* Every variable of the channel model keeps its type; in particular the read
\* loop never takes bytes for a payload that are not the payload of the header
\* it holds.
THEOREM Typing == Spec => []TypeOK
<1>1. IndInv => TypeOK
  BY DEF IndInv
<1> QED BY <1>1, InitInd, NextInd, PTL DEF Spec

\* What on_message is given at each end is exactly the first messages the
\* other end sent, whole and in order, for any number of threads in send and
\* wherever either end is stopped.
THEOREM StreamsIntact == Spec => []FramesIntact
<1>1. IndInv => FramesIntact
  BY DEF IndInv
<1> QED BY <1>1, InitInd, NextInd, PTL DEF Spec

-----------------------------------------------------------------------------
(***************************************************************************)
(* The serial bridge, which runs on an ipc::Server: for any capacity of    *)
(* the pipes and the socket and any amount of output.                      *)
(*                                                                         *)
(* The inductive invariant says of every descriptor number who owns it:    *)
(* the ends of the pipes keep their numbers until Destroy closes them, the *)
(* listening socket exists while the accept thread waits, and the client's *)
(* socket has the number the transport keeps until the teardown closes it, *)
(* which it does after it has joined the pump.  A number of a closed pipe  *)
(* can therefore only come back as the socket of a late client.            *)
(***************************************************************************)
\* What a number refers to says which thread was given it, and when.
Owners ==
    /\ fd \in [Fds -> Objects]
    /\ \A n \in Fds : /\ fd[n] = "toW"    => n = Wfd
                      /\ fd[n] = "fromR"  => n = Rfd
                      /\ fd[n] = "listen" => acc = "accept" /\ n = lfd
                      /\ fd[n] = "sock"   => n = sfd

\* The accept thread.
AcceptInv ==
    /\ acc \in {"listen", "accept", "channel", "start", "done"}
    /\ sfd \in Fds \cup {0}
    /\ acc = "accept" => lfd \in Fds /\ fd[lfd] = "listen"
    /\ acc \in {"listen", "accept"} => sfd = 0 /\ ~chan
    /\ acc = "channel" => sfd \in Fds /\ ~chan
    /\ acc = "start" => chan
    /\ acc = "done" /\ sfd \in Fds => chan
    /\ chan => sfd \in Fds
    /\ sfd \in {Wfd, Rfd} => late

\* The pipes: the end that is read is closed first.
PipeInv ==
    /\ fd[Rfd] = "fromR" => fd[Wfd] = "toW"
    /\ dpc \in {"none", "close read"} => fd[Rfd] = "fromR"
    /\ dpc = "close write" => fd[Rfd] # "fromR" /\ fd[Wfd] = "toW"

\* Where the teardown is once it has joined the pump, and once it may have
\* closed the socket.
PumpJoined == {"stop server", "stop channel", "join reader", "join accept", "destroy channel",
               "join reader again", "end"}
MayBeClosed == {"join reader", "join accept", "destroy channel", "join reader again", "end"}

\* The transport: its socket is closed by the teardown only, after the pump.
SocketInv ==
    /\ dpc \in PumpJoined => pump = "done"
    /\ sfd # 0 /\ fd[sfd] # "sock" => chan /\ dpc \in MayBeClosed
    /\ linked \in BOOLEAN /\ chan \in BOOLEAN
    /\ linked => chan /\ fd[sfd] = "sock"
    /\ chan /\ ~linked => fd[sfd] # "sock" \/ client = "left"
    /\ dpc \in {"stop channel", "destroy channel"} => chan
    /\ dpc \in {"destroy channel", "join reader again", "end"} => acc = "done"
    /\ dpc \in {"join reader again", "end"} => ~linked

\* A number was used for another object only by a late client.
StrayInv == stray # {} => late /\ acc \notin {"listen", "accept"}

OwnInv == Owners /\ AcceptInv /\ PipeInv /\ SocketInv /\ StrayInv

\* The pipes' numbers.
LEMMA Numbers == Wfd \in Fds /\ Rfd \in Fds /\ Wfd # Rfd /\ 0 \notin Fds
BY DEF Wfd, Rfd, Fds

\* Create has made both pipes.
LEMMA OwnInit == BridgeInit => OwnInv
<1> SUFFICES ASSUME BridgeInit PROVE OwnInv
  OBVIOUS
<1>1. fd \in [Fds -> Objects]
  BY DEF BridgeInit, Fds, Objects, Wfd, Rfd, TxFd
<1>2. /\ fd[Wfd] = "toW" /\ fd[Rfd] = "fromR"
      /\ \A n \in Fds \ {Wfd, Rfd} : fd[n] \in {"fromW", "free"}
  BY DEF BridgeInit, Fds, Wfd, Rfd, TxFd
<1>3. Owners
  BY <1>1, <1>2 DEF Owners
<1> QED
  BY <1>2, <1>3, Numbers DEF BridgeInit, OwnInv, AcceptInv, PipeInv, SocketInv, StrayInv, PumpJoined, MayBeClosed

\* Every step keeps to the owners of the numbers.
LEMMA OwnNext == OwnInv /\ [BridgeNext]_bridgeVars => OwnInv'
<1> SUFFICES ASSUME OwnInv, [BridgeNext]_bridgeVars PROVE OwnInv'
  OBVIOUS
<1> USE Numbers DEF OwnInv, Owners, AcceptInv, PipeInv, SocketInv, StrayInv, PumpJoined, MayBeClosed,
                   fdVars, guestVars, pumpVars, serverVars, clientVars
<1>1. CASE GuestPrints
  BY <1>1 DEF GuestPrints
<1>2. CASE UartWrite
  BY <1>2 DEF UartWrite
<1>3. CASE VcpuStops
  BY <1>3 DEF VcpuStops
<1>4. CASE PumpTop
  BY <1>4 DEF PumpTop
<1>5. CASE PumpRead
  BY <1>5 DEF PumpRead
<1>6. CASE PumpBlocks
  BY <1>6 DEF PumpBlocks
<1>7. CASE PumpReadsSocket
  <2>1. late
    BY <1>7 DEF PumpReadsSocket
  <2> QED
    BY <1>7, <2>1 DEF PumpReadsSocket
<1>8. CASE PumpEnds
  BY <1>8 DEF PumpEnds
<1>9. CASE PumpDrops
  BY <1>9 DEF PumpDrops
<1>10. CASE PumpSends
  BY <1>10 DEF PumpSends
<1>11. CASE PumpSendFails
  <2>1. fd[sfd] = "sock"
    BY <1>11 DEF PumpSendFails
  <2> QED
    BY <1>11, <2>1 DEF PumpSendFails
<1>12. CASE UnixListen
  <2>1. CASE acc' = "done" /\ UNCHANGED <<fd, lfd>>
    BY <1>12, <2>1 DEF UnixListen
  <2>2. CASE \E n \in Free : fd' = [fd EXCEPT ![n] = "listen"] /\ lfd' = n /\ acc' = "accept"
    <3>1. PICK n \in Fds : fd[n] = "free" /\ fd' = [fd EXCEPT ![n] = "listen"] /\ lfd' = n /\ acc' = "accept"
      BY <2>2 DEF Free
    <3>2. UNCHANGED <<sfd, chan, linked, late, pump, client, dpc, stray>> /\ acc = "listen"
      BY <1>12 DEF UnixListen
    <3>3. fd' \in [Fds -> Objects] /\ fd'[n] = "listen" /\ \A m \in Fds \ {n} : fd'[m] = fd[m]
      BY <3>1 DEF Objects
    <3>4. fd'[Wfd] = fd[Wfd] \/ fd[Wfd] = "free"
      BY <3>1, <3>3
    <3>5. fd'[Rfd] = fd[Rfd] \/ (fd[Rfd] = "free" /\ fd'[Rfd] = "listen")
      BY <3>1, <3>3
    <3> QED
      BY <3>1, <3>2, <3>3, <3>4, <3>5
  <2> QED
    BY <1>12, <2>1, <2>2 DEF UnixListen
<1>13. CASE Accept
  <2>1. PICK n \in Fds : /\ fd[n] = "free" /\ sfd' = n
                         /\ fd' = Close([fd EXCEPT ![n] = "sock"], lfd) /\ late' = (fd[Rfd] # "fromR")
    BY <1>13 DEF Accept, Free
  <2>2. /\ UNCHANGED <<chan, linked, pump, dpc, stray>> /\ acc = "accept" /\ acc' = "channel" /\ lfd' = 0
        /\ (client = "left" => client' = "left")
    BY <1>13 DEF Accept
  <2>3. lfd \in Fds /\ lfd # n
    BY <2>1, <2>2
  <2>4. /\ fd' \in [Fds -> Objects] /\ fd'[n] = "sock" /\ fd'[lfd] = "free"
        /\ \A m \in Fds \ {n, lfd} : fd'[m] = fd[m]
    BY <2>1, <2>3 DEF Objects, Close
  <2>5. fd[lfd] = "listen"
    BY <2>2
  <2>6. n \in {Wfd, Rfd} => late'
    BY <2>1
  <2>7. fd'[Wfd] = fd[Wfd] \/ fd[Wfd] \in {"free", "listen"}
    BY <2>1, <2>4, <2>5
  <2>8. fd'[Rfd] = fd[Rfd] \/ (fd[Rfd] \in {"free", "listen"} /\ fd'[Rfd] \in {"sock", "free"})
    BY <2>1, <2>4, <2>5
  <2>9. Owners'
    BY <2>1, <2>2, <2>4
  <2>10. AcceptInv'
    BY <2>1, <2>2, <2>6
  <2>11. PipeInv'
    BY <2>2, <2>7, <2>8
  <2>12. SocketInv'
    BY <2>1, <2>2, <2>4
  <2>13. StrayInv'
    BY <2>2
  <2> QED
    BY <2>9, <2>10, <2>11, <2>12, <2>13
<1>14. CASE SetChannel
  BY <1>14 DEF SetChannel
<1>15. CASE StartReader
  BY <1>15 DEF StartReader
<1>16. CASE ReaderTop
  BY <1>16 DEF ReaderTop
<1>17. CASE ReadMessage
  BY <1>17 DEF ReadMessage
<1>18. CASE ReadEnds
  BY <1>18 DEF ReadEnds
<1>19. CASE Deliver
  <2>1. fd[Wfd] = "sock" => late
    OBVIOUS
  <2> QED
    BY <1>19, <2>1 DEF Deliver
<1>20. CASE ClientConnects
  BY <1>20 DEF ClientConnects
<1>21. CASE ClientSends
  BY <1>21 DEF ClientSends
<1>22. CASE ClientReads
  BY <1>22 DEF ClientReads
<1>23. CASE ClientLeaves
  BY <1>23 DEF ClientLeaves
<1>24. CASE CreateReturns
  BY <1>24 DEF CreateReturns
<1>25. CASE CreateThrows
  BY <1>25 DEF CreateThrows
<1>26. CASE DestroyCall
  BY <1>26 DEF DestroyCall
<1>27. CASE CloseRead
  <2>1. /\ dpc = "close read" /\ dpc' = "close write" /\ fd' = [fd EXCEPT ![Rfd] = "free"]
        /\ UNCHANGED <<acc, lfd, sfd, chan, linked, late, client, stray>>
    BY <1>27 DEF CloseRead, Close
  <2>2. fd[Rfd] = "fromR" /\ Rfd \in Fds
    BY <2>1
  <2>3. /\ fd' \in [Fds -> Objects] /\ fd'[Rfd] = "free" /\ \A m \in Fds \ {Rfd} : fd'[m] = fd[m]
    BY <2>1, <2>2 DEF Objects
  <2> QED
    BY <2>1, <2>2, <2>3
<1>28. CASE CloseWrite
  <2>1. /\ dpc = "close write" /\ dpc' = "stop" /\ fd' = [fd EXCEPT ![Wfd] = "free"]
        /\ UNCHANGED <<acc, lfd, sfd, chan, linked, late, client, stray>>
    BY <1>28 DEF CloseWrite, Close
  <2>2. fd[Wfd] = "toW" /\ Wfd \in Fds
    BY <2>1
  <2>3. /\ fd' \in [Fds -> Objects] /\ fd'[Wfd] = "free" /\ \A m \in Fds \ {Wfd} : fd'[m] = fd[m]
    BY <2>1, <2>2 DEF Objects
  <2> QED
    BY <2>1, <2>2, <2>3
<1>29. CASE Stop
  BY <1>29 DEF Stop
<1>30. CASE JoinRunThread
  BY <1>30 DEF JoinRunThread
<1>31. CASE RequestStop
  BY <1>31 DEF RequestStop
<1>32. CASE JoinPump
  BY <1>32 DEF JoinPump
<1>33. CASE StopServer
  BY <1>33 DEF StopServer
<1>34. CASE CloseTransport
  <2>1. CASE ~linked
    BY <1>34, <2>1 DEF CloseTransport
  <2>2. CASE linked
    <3>1. /\ dpc \in {"stop channel", "destroy channel"} /\ fd' = [fd EXCEPT ![sfd] = "free"] /\ linked' = FALSE
          /\ dpc' = IF dpc = "stop channel" THEN "join reader" ELSE "join reader again"
          /\ UNCHANGED <<acc, lfd, sfd, chan, late, client, stray, pump>>
      BY <1>34, <2>2 DEF CloseTransport, Close
    <3>2. sfd \in Fds /\ fd[sfd] = "sock"
      BY <2>2, <3>1
    <3>3. /\ fd' \in [Fds -> Objects] /\ fd'[sfd] = "free" /\ \A m \in Fds \ {sfd} : fd'[m] = fd[m]
      BY <3>1, <3>2 DEF Objects
    <3> QED
      BY <3>1, <3>2, <3>3
  <2> QED
    BY <2>1, <2>2
<1>35. CASE JoinReadThread
  BY <1>35 DEF JoinReadThread
<1>36. CASE JoinAccept
  BY <1>36 DEF JoinAccept
<1>37. CASE RunAll
  BY <1>37 DEF RunAll
<1>38. CASE NetLocks
  BY <1>38 DEF NetLocks
<1>39. CASE ResetContext
  BY <1>39 DEF ResetContext
<1>40. CASE ResetHangs
  BY <1>40 DEF ResetHangs
<1>41. CASE UNCHANGED bridgeVars
  BY <1>41 DEF bridgeVars
<1> QED
  BY <1>1, <1>2, <1>3, <1>4, <1>5, <1>6, <1>7, <1>8, <1>9, <1>10, <1>11, <1>12, <1>13, <1>14,
     <1>15, <1>16, <1>17, <1>18, <1>19, <1>20, <1>21, <1>22, <1>23, <1>24, <1>25, <1>26, <1>27, <1>28,
     <1>29, <1>30, <1>31, <1>32, <1>33, <1>34, <1>35, <1>36, <1>37, <1>38, <1>39, <1>40, <1>41
     DEF BridgeNext, Vcpu, Pump, Server, Reader, Teardown

\* Numbers keep their owners.
LEMMA OwnHolds == BridgeSpec => []OwnInv
BY OwnInit, OwnNext, PTL DEF BridgeSpec

\* No thread uses a number for an object it was not given for, and Destroy
\* leaves nothing open that it could have closed.
THEOREM NumbersOwned == BridgeSpec => []DescriptorsOwned
<1>1. OwnInv => DescriptorsOwned
  <2> SUFFICES ASSUME OwnInv PROVE DescriptorsOwned
    OBVIOUS
  <2>1. stray # {} => late
    BY DEF OwnInv, StrayInv
  <2>2. ASSUME dpc = "end", ~IsOpen("toW"), NEW n \in Fds
        PROVE  fd[n] \in {"free", "fromW"} \/ (client = "left" /\ fd[n] = "sock")
    <3>1. fd[n] \notin {"toW", "fromR"}
      BY <2>2, Numbers DEF OwnInv, Owners, PipeInv, IsOpen
    <3>2. fd[n] # "listen"
      BY <2>2 DEF OwnInv, Owners, SocketInv
    <3>3. fd[n] = "sock" => client = "left"
      BY <2>2 DEF OwnInv, Owners, AcceptInv, SocketInv
    <3> QED
      BY <3>1, <3>2, <3>3 DEF OwnInv, Owners, Objects
  <2> QED
    BY <2>1, <2>2 DEF DescriptorsOwned
<1> QED
  BY <1>1, OwnHolds, PTL

-----------------------------------------------------------------------------
\* The order of the output.  The bytes on their way to the client are one
\* consecutive run, and while the pipe can still be written its end is where
\* the guest stands.
Consecutive(s) == \A i \in 1..(Len(s) - 1) : s[i + 1] = s[i] + 1
Flow == received \o sock \o hand \o fromVm
LastPrinted == IF vcpu = "write" THEN written - 1 ELSE written

FlowTypes ==
    /\ written \in Nat
    /\ received \in Seq(Nat) /\ sock \in Seq(Nat) /\ hand \in Seq(Nat) /\ fromVm \in Seq(Nat)
    /\ pump = "send" <=> hand # <<>>

FlowInv ==
    stray = {} =>
        /\ ~chan => received = <<>> /\ sock = <<>>
        /\ Consecutive(received)
        /\ client # "left" =>
             /\ Consecutive(Flow)
             /\ port = 0 /\ fd[Rfd] = "fromR" /\ Flow # <<>> => Flow[Len(Flow)] = LastPrinted

\* The front of a sequence and the rest of it.
LEMMA ConsecutiveParts ==
    ASSUME NEW s \in Seq(Nat), NEW t \in Seq(Nat), Consecutive(s \o t)
    PROVE  Consecutive(s) /\ Consecutive(t)
<1> DEFINE st == s \o t
<1>1. /\ st \in Seq(Nat) /\ Len(st) = Len(s) + Len(t)
      /\ \A i \in 1..Len(s) : st[i] = s[i]
      /\ \A i \in 1..Len(t) : st[Len(s) + i] = t[i]
  OBVIOUS
<1>2. \A i \in 1..(Len(st) - 1) : st[i + 1] = st[i] + 1
  BY DEF Consecutive
<1> HIDE DEF st
<1>3. Len(s) \in Nat /\ Len(t) \in Nat
  OBVIOUS
<1>4. ASSUME NEW i \in 1..(Len(s) - 1) PROVE s[i + 1] = s[i] + 1
  <2>1. i \in 1..Len(s) /\ i + 1 \in 1..Len(s) /\ i \in 1..(Len(st) - 1)
    BY <1>1, <1>3
  <2>2. st[i] = s[i] /\ st[i + 1] = s[i + 1] /\ st[i + 1] = st[i] + 1
    BY <1>1, <1>2, <2>1
  <2> QED
    BY <2>2
<1>5. ASSUME NEW i \in 1..(Len(t) - 1) PROVE t[i + 1] = t[i] + 1
  <2>1. i \in 1..Len(t) /\ i + 1 \in 1..Len(t) /\ Len(s) + i \in 1..(Len(st) - 1)
    BY <1>1, <1>3
  <2>2. st[Len(s) + i] = t[i] /\ st[Len(s) + (i + 1)] = t[i + 1]
    BY <1>1, <2>1
  <2>3. st[(Len(s) + i) + 1] = st[Len(s) + i] + 1
    BY <1>2, <2>1
  <2>4. (Len(s) + i) + 1 = Len(s) + (i + 1)
    BY <1>3
  <2> QED
    BY <2>2, <2>3, <2>4
<1> QED
  BY <1>4, <1>5 DEF Consecutive

\* One more byte.
LEMMA ConsecutiveAppend ==
    ASSUME NEW s \in Seq(Nat), NEW n \in Nat, Consecutive(s), s # <<>> => n = s[Len(s)] + 1
    PROVE  /\ Consecutive(Append(s, n)) /\ Append(s, n) # <<>>
           /\ Append(s, n)[Len(Append(s, n))] = n
<1> DEFINE sn == Append(s, n)
<1>1. /\ sn \in Seq(Nat) /\ Len(sn) = Len(s) + 1 /\ sn # <<>> /\ sn[Len(s) + 1] = n
      /\ \A i \in 1..Len(s) : sn[i] = s[i]
  OBVIOUS
<1>2. Len(s) \in Nat /\ (s = <<>> <=> Len(s) = 0)
  OBVIOUS
<1> HIDE DEF sn
<1>3. ASSUME NEW i \in 1..Len(s) PROVE sn[i + 1] = sn[i] + 1
  <2>1. CASE i = Len(s)
    BY <1>1, <1>2, <2>1
  <2>2. CASE i # Len(s)
    <3>1. i + 1 \in 1..Len(s) /\ i \in 1..(Len(s) - 1)
      BY <1>2, <2>2
    <3>2. s[i + 1] = s[i] + 1
      BY <3>1 DEF Consecutive
    <3> QED
      BY <1>1, <3>1, <3>2
  <2> QED
    BY <2>1, <2>2
<1>4. Consecutive(sn) /\ sn # <<>> /\ sn[Len(sn)] = n
  BY <1>1, <1>2, <1>3 DEF Consecutive
<1> QED
  BY <1>4 DEF sn

\* A byte that moves on.
LEMMA MoveOn ==
    ASSUME NEW s \in Seq(Nat), NEW h \in Seq(Nat), h # <<>>
    PROVE  /\ Append(s, Head(h)) \o Tail(h) = s \o h
           /\ Append(s, Head(h)) \in Seq(Nat) /\ Tail(h) \in Seq(Nat)
  OBVIOUS

\* What is in front is consecutive if all is.
LEMMA FlowParts ==
    ASSUME NEW g \in Seq(Nat), NEW s \in Seq(Nat), NEW h \in Seq(Nat), NEW f \in Seq(Nat),
           Consecutive(g \o s \o h \o f)
    PROVE  Consecutive(g \o s \o h) /\ Consecutive(g)
<1>1. g \o s \in Seq(Nat) /\ g \o s \o h \in Seq(Nat)
  OBVIOUS
<1>2. Consecutive(g \o s \o h)
  BY <1>1, ConsecutiveParts
<1>3. Consecutive(g \o s)
  BY <1>1, <1>2, ConsecutiveParts
<1> QED
  BY <1>2, <1>3, ConsecutiveParts

\* What the pump reads stays in its place in the flow.
LEMMA Moves ==
    ASSUME NEW g \in Seq(Nat), NEW s \in Seq(Nat), NEW h \in Seq(Nat), NEW f \in Seq(Nat)
    PROVE  /\ g \o s \o f \o <<>> = g \o s \o <<>> \o f
           /\ g \o s \o h \o f \in Seq(Nat)
<1>1. g \o s \o f \o <<>> = g \o s \o <<>> \o f
  OBVIOUS
<1>2. g \o s \o h \o f \in Seq(Nat)
  OBVIOUS
<1> QED
  BY <1>1, <1>2

\* The last byte of a flow is the last byte of its last part.
LEMMA LastOfJoin ==
    ASSUME NEW s \in Seq(Nat), NEW t \in Seq(Nat), t # <<>>
    PROVE  s \o t # <<>> /\ (s \o t)[Len(s \o t)] = t[Len(t)]
<1> DEFINE st == s \o t
<1>1. /\ Len(st) = Len(s) + Len(t) /\ (st = <<>> <=> Len(st) = 0) /\ st \in Seq(Nat)
      /\ \A i \in 1..Len(t) : st[Len(s) + i] = t[i]
  OBVIOUS
<1>2. Len(s) \in Nat /\ Len(t) \in Nat /\ Len(t) # 0
  OBVIOUS
<1> HIDE DEF st
<1>3. st # <<>> /\ st[Len(st)] = t[Len(t)]
  BY <1>1, <1>2
<1> QED
  BY <1>3 DEF st

\* Nothing has been printed.
LEMMA FlowInit == BridgeInit => FlowTypes /\ FlowInv
<1> SUFFICES ASSUME BridgeInit PROVE FlowTypes /\ FlowInv
  OBVIOUS
<1>1. Flow = <<>> /\ Consecutive(<<>>)
  BY DEF BridgeInit, Flow, Consecutive
<1> QED
  BY <1>1 DEF BridgeInit, FlowTypes, FlowInv

\* The bytes are numbers, and the pump has bytes in hand while it sends.
LEMMA FlowTypesNext == FlowTypes /\ [BridgeNext]_bridgeVars => FlowTypes'
<1> SUFFICES ASSUME FlowTypes, [BridgeNext]_bridgeVars PROVE FlowTypes'
  OBVIOUS
<1> USE DEF FlowTypes, fdVars, guestVars, pumpVars, serverVars, clientVars
<1>1. CASE UNCHANGED <<received, sock, hand, fromVm, written, pump>>
  BY <1>1
<1>2. CASE RunAll \/ NetLocks \/ GuestPrints \/ UartWrite \/ VcpuStops
  <2>1. UNCHANGED <<received, sock, hand, pump>> /\ written' \in Nat
    BY <1>2 DEF RunAll, NetLocks, GuestPrints, UartWrite, VcpuStops
  <2>2. fromVm' = fromVm \/ fromVm' = Append(fromVm, written)
    BY <1>2 DEF RunAll, NetLocks, GuestPrints, UartWrite, VcpuStops
  <2>3. Append(fromVm, written) \in Seq(Nat)
    OBVIOUS
  <2>4. fromVm' \in Seq(Nat)
    BY Zenon, <2>2, <2>3
  <2> QED
    BY <2>1, <2>4
<1>3. CASE PumpTop \/ PumpBlocks \/ PumpEnds
  BY <1>3 DEF PumpTop, PumpBlocks, PumpEnds
<1>4. CASE PumpRead
  BY <1>4 DEF PumpRead
<1>5. CASE PumpReadsSocket
  BY <1>5 DEF PumpReadsSocket, Foreign
<1>6. CASE PumpDrops
  BY <1>6 DEF PumpDrops
<1>7. CASE PumpSends
  <2>1. hand # <<>> /\ Append(sock, Head(hand)) \in Seq(Nat) /\ Tail(hand) \in Seq(Nat)
    BY <1>7, MoveOn DEF PumpSends
  <2> QED
    BY <1>7, <2>1 DEF PumpSends
<1>8. CASE PumpSendFails
  <2>1. /\ UNCHANGED <<received, sock, fromVm, written>>
        /\ UNCHANGED <<hand, pump>> \/ (hand' = <<>> /\ pump' = "top")
    BY <1>8 DEF PumpSendFails
  <2>2. hand' \in Seq(Nat) /\ (pump' = "send" <=> hand' # <<>>)
    BY Zenon, EmptySeq, <2>1
  <2> QED
    BY <2>1, <2>2
<1>9. CASE Server
  <2>1. UNCHANGED <<received, sock, hand, fromVm, written, pump>>
    BY <1>9 DEF Server, UnixListen, Accept, SetChannel, StartReader
  <2> QED
    BY <1>1, <2>1
<1>10. CASE Reader
  <2>1. UNCHANGED <<received, hand, fromVm, written, pump>>
    BY <1>10 DEF Reader, ReaderTop, ReadMessage, ReadEnds, Deliver
  <2>2. sock' = sock \/ sock' = Append(sock, 0)
    BY <1>10 DEF Reader, ReaderTop, ReadMessage, ReadEnds, Deliver, Foreign
  <2>3. Append(sock, 0) \in Seq(Nat)
    OBVIOUS
  <2>4. sock' \in Seq(Nat)
    BY Zenon, <2>2, <2>3
  <2> QED
    BY <2>1, <2>4
<1>11. CASE ClientConnects \/ ClientSends \/ ClientLeaves
  <2>1. UNCHANGED <<received, hand, fromVm, written, pump>> /\ (sock' = sock \/ sock' = <<>>)
    BY <1>11 DEF ClientConnects, ClientSends, ClientLeaves
  <2>2. sock' \in Seq(Nat)
    BY Zenon, EmptySeq, <2>1
  <2> QED
    BY <2>1, <2>2
<1>12. CASE ClientReads
  <2>1. Append(received, Head(sock)) \in Seq(Nat) /\ Tail(sock) \in Seq(Nat)
    BY <1>12, MoveOn DEF ClientReads
  <2> QED
    BY <1>12, <2>1 DEF ClientReads
<1>13. CASE CreateReturns \/ CreateThrows \/ DestroyCall
  BY <1>13 DEF CreateReturns, CreateThrows, DestroyCall
<1>14. CASE CloseRead
  <2>1. UNCHANGED <<received, sock, hand, written>> /\ fromVm' = <<>> /\ (pump' = "send" <=> pump = "send")
    BY <1>14 DEF CloseRead
  <2> QED
    BY <2>1
<1>15. CASE Teardown /\ ~CloseRead
  <2>1. UNCHANGED <<received, sock, hand, fromVm, written, pump>>
    BY <1>15 DEF Teardown, CloseWrite, Stop, JoinRunThread, ResetContext, ResetHangs, RequestStop,
                 JoinPump, StopServer, CloseTransport, JoinReadThread, JoinAccept
  <2> QED
    BY <1>1, <2>1
<1>16. CASE UNCHANGED bridgeVars
  BY <1>1, <1>16 DEF bridgeVars
<1> QED
  BY <1>2, <1>3, <1>4, <1>5, <1>6, <1>7, <1>8, <1>9, <1>10, <1>11, <1>12, <1>13, <1>14, <1>15, <1>16
     DEF BridgeNext, Vcpu, Pump

\* The steps that leave the flow, the guest's counter and the pipe alone.
LEMMA FlowStutter ==
    ASSUME FlowInv, UNCHANGED <<received, sock, hand, fromVm, written, port, stray>>,
           vcpu' = "write" <=> vcpu = "write", chan => chan', fd'[Rfd] = "fromR" => fd[Rfd] = "fromR",
           client' # "left" => client # "left"
    PROVE  FlowInv'
<1>1. Flow' = Flow /\ LastPrinted' = LastPrinted
  BY DEF Flow, LastPrinted
<1> QED
  BY <1>1 DEF FlowInv, Consecutive

\* Every step keeps the flow consecutive.
LEMMA FlowNext == OwnInv /\ FlowTypes /\ FlowTypes' /\ FlowInv /\ [BridgeNext]_bridgeVars => FlowInv'
<1> SUFFICES ASSUME OwnInv, FlowTypes, FlowTypes', FlowInv, [BridgeNext]_bridgeVars PROVE FlowInv'
  OBVIOUS
<1> USE DEF fdVars, guestVars, pumpVars, serverVars, clientVars
<1>1. stray' = {} => stray = {}
  BY DEF BridgeNext, Vcpu, Pump, Server, Reader, Teardown, RunAll, NetLocks, GuestPrints, UartWrite, VcpuStops, PumpTop, PumpRead,
         PumpBlocks, PumpReadsSocket, PumpEnds, PumpDrops, PumpSends, PumpSendFails, UnixListen, Accept,
         SetChannel, StartReader, ReaderTop, ReadMessage, ReadEnds, Deliver, ClientConnects, ClientSends,
         ClientReads, ClientLeaves, CreateReturns, CreateThrows, DestroyCall, CloseRead, CloseWrite, Stop,
         JoinRunThread, ResetContext, ResetHangs, RequestStop, JoinPump, StopServer, CloseTransport, JoinReadThread,
         JoinAccept, bridgeVars
<1>2. Flow \in Seq(Nat) /\ Flow' \in Seq(Nat)
  BY Moves DEF Flow, FlowTypes
<1>3. CASE GuestPrints
  <2>1. /\ UNCHANGED <<received, sock, hand, fromVm, port, fd, chan, client, stray>>
        /\ vcpu = "run" /\ vcpu' = "write" /\ written' = written + 1
    BY <1>3 DEF GuestPrints
  <2>2. Flow' = Flow /\ LastPrinted' = LastPrinted
    BY <2>1 DEF Flow, LastPrinted, FlowTypes
  <2> QED
    BY <2>1, <2>2 DEF FlowInv, Consecutive
<1>4. CASE UartWrite
  <2>1. /\ UNCHANGED <<received, sock, hand, written, port, fd, chan, client, stray>> /\ vcpu = "write"
    BY <1>4 DEF UartWrite
  <2>2. CASE port # 0
    <3>1. fromVm' = fromVm
      BY <1>4, <2>2 DEF UartWrite
    <3>2. Flow' = Flow
      BY <2>1, <3>1 DEF Flow
    <3> QED
      BY <2>1, <2>2, <3>2 DEF FlowInv, Consecutive
  <2>3. CASE port = 0 /\ ~IsOpen("fromR")
    <3>1. fromVm' = fromVm /\ vcpu' = vcpu
      BY <1>4, <2>3 DEF UartWrite
    <3> QED
      BY <2>1, <3>1, FlowStutter
  <2>4. CASE port = 0 /\ IsOpen("fromR")
    <3>1. fromVm' = Append(fromVm, written) /\ vcpu' = "run"
      BY <1>4, <2>4 DEF UartWrite
    <3>2. received \o sock \o hand \in Seq(Nat) /\ fromVm \in Seq(Nat) /\ written \in Nat
      BY DEF FlowTypes
    <3>3. PICK p \in Seq(Nat) : p = received \o sock \o hand
      BY <3>2, Zenon
    <3>4. p \o Append(fromVm, written) = Append(p \o fromVm, written)
      BY <3>2
    <3>5. Flow' = Append(Flow, written)
      BY <2>1, <3>1, <3>3, <3>4 DEF Flow
    <3>6. fd[Rfd] = "fromR"
      BY <2>4 DEF IsOpen, OwnInv, Owners
    <3>7. LastPrinted = written - 1 /\ LastPrinted' = written
      BY <2>1, <3>1 DEF LastPrinted
    <3>8. ASSUME stray = {}, client # "left"
          PROVE  Consecutive(Append(Flow, written)) /\ Append(Flow, written)[Len(Append(Flow, written))] = written
      <4>1. Consecutive(Flow) /\ (Flow # <<>> => Flow[Len(Flow)] = LastPrinted)
        BY <2>4, <3>6, <3>8 DEF FlowInv
      <4>2. written = LastPrinted + 1 /\ written \in Nat
        BY <3>7 DEF FlowTypes
      <4> QED
        BY <1>2, <4>1, <4>2, ConsecutiveAppend
    <3>9. (Consecutive(received))' <=> Consecutive(received)
      BY <2>1 DEF Consecutive
    <3> QED
      BY <2>1, <3>5, <3>7, <3>8, <3>9 DEF FlowInv, Consecutive
  <2> QED
    BY <2>2, <2>3, <2>4
<1>5. CASE PumpRead
  <2>1. /\ UNCHANGED <<received, sock, written, vcpu, port, fd, chan, client, stray>>
        /\ hand' = fromVm /\ fromVm' = <<>> /\ hand = <<>>
    BY <1>5 DEF PumpRead, FlowTypes
  <2>2. Flow' = Flow /\ LastPrinted' = LastPrinted
    BY <2>1, Moves DEF Flow, LastPrinted, FlowTypes
  <2> QED
    BY <2>1, <2>2 DEF FlowInv, Consecutive
<1>6. CASE PumpReadsSocket \/ (PumpSendFails /\ ~UNCHANGED <<stray, hand>>)
  BY <1>6 DEF PumpReadsSocket, PumpSendFails, FlowInv
<1>7. CASE PumpSendFails /\ UNCHANGED <<stray, hand>>
  BY <1>7, FlowStutter DEF PumpSendFails
<1>8. CASE PumpDrops
  <2>1. /\ UNCHANGED <<received, sock, fromVm, written, vcpu, port, fd, chan, client, stray>>
        /\ hand' = <<>> /\ ~chan
    BY <1>8 DEF PumpDrops
  <2> SUFFICES ASSUME stray = {} PROVE FlowInv'
    BY <2>1 DEF FlowInv
  <2>2. received = <<>> /\ sock = <<>>
    BY <2>1 DEF FlowInv
  <2>3. Flow' = fromVm /\ Flow = hand \o fromVm /\ LastPrinted' = LastPrinted
    BY <2>1, <2>2 DEF Flow, FlowTypes, LastPrinted
  <2>4. client # "left" => Consecutive(fromVm)
    BY <2>3, ConsecutiveParts DEF FlowInv, FlowTypes
  <2>5. ASSUME fromVm # <<>> PROVE Flow # <<>> /\ Flow[Len(Flow)] = fromVm[Len(fromVm)]
    <3>1. hand \in Seq(Nat) /\ fromVm \in Seq(Nat)
      BY DEF FlowTypes
    <3>2. hand \o fromVm # <<>> /\ (hand \o fromVm)[Len(hand \o fromVm)] = fromVm[Len(fromVm)]
      BY ONLY <2>5, <3>1, LastOfJoin
    <3>3. Flow = hand \o fromVm
      BY <2>3
    <3> QED
      BY ONLY <3>2, <3>3, Zenon
  <2> QED
    BY <2>1, <2>2, <2>3, <2>4, <2>5 DEF FlowInv, Consecutive
<1>9. CASE PumpSends
  <2>1. /\ UNCHANGED <<received, fromVm, written, vcpu, port, fd, chan, client, stray>>
        /\ sock' = Append(sock, Head(hand)) /\ hand' = Tail(hand) /\ hand # <<>> /\ chan
    BY <1>9 DEF PumpSends, FlowTypes
  <2>2. received \in Seq(Nat) /\ sock \in Seq(Nat) /\ hand \in Seq(Nat) /\ fromVm \in Seq(Nat)
    BY DEF FlowTypes
  <2>3. hand # <<>>
    BY <2>1
  <2>4. received \o Append(sock, Head(hand)) \o Tail(hand) \o fromVm = received \o sock \o hand \o fromVm
    <3>1. PICK n \in Nat : n = Head(hand)
      BY <2>2, <2>3
    <3>2. received \o Append(sock, n) = Append(received \o sock, n)
      BY <2>2
    <3>3. received \o sock \in Seq(Nat)
      BY <2>2
    <3>4. PICK p \in Seq(Nat) : p = received \o sock
      BY <3>3, Zenon
    <3>5. PICK h \in Seq(Nat) : h = hand
      BY <2>2, Zenon
    <3>6. Append(p, Head(h)) \o Tail(h) = p \o h
      <4>1. h # <<>>
        BY <2>3, <3>5
      <4> QED
        BY <4>1
    <3> QED
      BY <3>1, <3>2, <3>4, <3>5, <3>6, Zenon
  <2>5. Flow' = Flow /\ LastPrinted' = LastPrinted
    BY <2>1, <2>4 DEF Flow, LastPrinted
  <2> QED
    BY <2>1, <2>5 DEF FlowInv, Consecutive
<1>10. CASE ClientReads
  <2>1. /\ UNCHANGED <<hand, fromVm, written, vcpu, port, fd, chan, client, stray>>
        /\ received' = Append(received, Head(sock)) /\ sock' = Tail(sock) /\ sock # <<>> /\ client = "connected"
    BY <1>10 DEF ClientReads
  <2>2. received \in Seq(Nat) /\ sock \in Seq(Nat) /\ hand \in Seq(Nat) /\ fromVm \in Seq(Nat)
    BY DEF FlowTypes
  <2>3. sock # <<>>
    BY <2>1
  <2>4. Append(received, Head(sock)) \o Tail(sock) = received \o sock
    BY <2>2, <2>3
  <2>5. Flow' = Flow /\ LastPrinted' = LastPrinted
    BY <2>4, <2>1 DEF Flow, LastPrinted
  <2>6. stray = {} => Consecutive(received')
    <3> SUFFICES ASSUME stray = {} PROVE Consecutive(received')
      OBVIOUS
    <3>1. Consecutive(received' \o sock' \o hand' \o fromVm')
      BY <2>1, <2>5 DEF FlowInv, Flow
    <3> QED
      BY <3>1, FlowParts DEF FlowTypes
  <2> QED
    BY <2>1, <2>5, <2>6 DEF FlowInv, Consecutive
<1>11. CASE ClientLeaves
  <2>1. UNCHANGED <<received, chan, stray>> /\ sock' = <<>> /\ client' = "left"
    BY <1>11 DEF ClientLeaves
  <2> QED
    BY <2>1 DEF FlowInv, Consecutive
<1>12. CASE Deliver
  <2>1. CASE stray' # {}
    BY <2>1 DEF FlowInv
  <2>2. CASE stray' = {}
    BY <1>12, <2>2, FlowStutter DEF Deliver
  <2> QED
    BY <2>1, <2>2
<1>13. CASE CloseRead
  <2>1. /\ UNCHANGED <<received, sock, hand, port, chan, client, stray>> /\ fromVm' = <<>>
        /\ dpc = "close read" /\ fd' = Close(fd, Rfd)
    BY <1>13 DEF CloseRead
  <2>2. fd'[Rfd] = "free"
    BY <2>1, Numbers DEF OwnInv, Owners, Close
  <2>3. received \o sock \o hand \o <<>> = received \o sock \o hand
    BY DEF FlowTypes
  <2>4. Flow' = received \o sock \o hand
    BY <2>1, <2>3 DEF Flow
  <2>5. stray = {} /\ client # "left" => Consecutive(received \o sock \o hand)
    BY FlowParts DEF FlowInv, FlowTypes, Flow
  <2> QED
    BY <2>1, <2>2, <2>4, <2>5 DEF FlowInv, Consecutive
<1> DEFINE Quiet == UNCHANGED <<received, sock, hand, fromVm, written, port, stray>>
                    /\ (vcpu' = "write" <=> vcpu = "write") /\ (chan => chan')
                    /\ (fd'[Rfd] = "fromR" => fd[Rfd] = "fromR") /\ (client' # "left" => client # "left")
<1>14. CASE RunAll \/ NetLocks \/ VcpuStops \/ PumpTop \/ PumpBlocks \/ PumpEnds
  <2>1. Quiet
    BY <1>14 DEF RunAll, NetLocks, VcpuStops, PumpTop, PumpBlocks, PumpEnds
  <2> QED
    BY <2>1, FlowStutter
<1>15. CASE Server
  <2>1. UNCHANGED <<received, sock, hand, fromVm, written, port, stray, vcpu>> /\ (chan => chan')
    BY <1>15 DEF Server, UnixListen, Accept, SetChannel, StartReader
  <2>2. fd'[Rfd] = "fromR" => fd[Rfd] = "fromR"
    BY <1>15, Numbers DEF Server, UnixListen, Accept, SetChannel, StartReader, Free, Close, OwnInv, Owners, AcceptInv
  <2>3. client' # "left" => client # "left"
    BY <1>15 DEF Server, UnixListen, Accept, SetChannel, StartReader
  <2> QED
    BY <2>1, <2>2, <2>3, FlowStutter
<1>16. CASE ReaderTop \/ ReadMessage \/ ReadEnds
  <2>1. Quiet
    BY <1>16 DEF ReaderTop, ReadMessage, ReadEnds
  <2> QED
    BY <2>1, FlowStutter
<1>17. CASE ClientConnects \/ ClientSends \/ CreateReturns \/ CreateThrows \/ DestroyCall
  <2>1. UNCHANGED <<received, sock, hand, fromVm, written, port, stray, chan, fd>>
    BY <1>17 DEF ClientConnects, ClientSends, CreateReturns, CreateThrows, DestroyCall
  <2>2. (vcpu' = "write" <=> vcpu = "write") /\ (client' # "left" => client # "left")
    BY <1>17 DEF ClientConnects, ClientSends, CreateReturns, CreateThrows, DestroyCall
  <2> QED
    BY <2>1, <2>2, FlowStutter
<1>18. CASE CloseWrite \/ CloseTransport
  <2>1. UNCHANGED <<received, sock, hand, fromVm, written, port, stray, vcpu, chan, client>>
    BY <1>18 DEF CloseWrite, CloseTransport
  <2>2. fd'[Rfd] = "fromR" => fd[Rfd] = "fromR"
    BY <1>18, Numbers DEF CloseWrite, CloseTransport, Close, OwnInv, Owners
  <2> QED
    BY <2>1, <2>2, FlowStutter
<1>19. CASE Stop \/ JoinRunThread \/ ResetContext \/ ResetHangs \/ RequestStop \/ JoinPump \/ StopServer \/ JoinReadThread \/ JoinAccept
  <2>1. UNCHANGED <<received, sock, hand, fromVm, written, port, stray, chan, fd, vcpu, client>>
    BY <1>19 DEF Stop, JoinRunThread, ResetContext, ResetHangs, RequestStop, JoinPump, StopServer, JoinReadThread, JoinAccept
  <2> QED
    BY <2>1, FlowStutter
<1>20. CASE UNCHANGED bridgeVars
  <2>1. Quiet
    BY <1>20 DEF bridgeVars
  <2> QED
    BY <2>1, FlowStutter
<1> QED
  BY <1>3, <1>4, <1>5, <1>6, <1>7, <1>8, <1>9, <1>10, <1>11, <1>12, <1>13, <1>14, <1>15, <1>16, <1>17, <1>18,
     <1>19, <1>20 DEF BridgeNext, Vcpu, Pump, Reader, Teardown

\* The client sees the guest's output without a gap, for any capacity of the
\* pipe and of the socket.
THEOREM OutputStaysInOrder == BridgeSpec => []OutputInOrder
<1>1. OwnInv /\ FlowTypes /\ FlowInv => OutputInOrder
  BY DEF FlowInv, OutputInOrder, Flow, Consecutive
<1>2. BridgeInit => FlowTypes /\ FlowInv
  BY FlowInit
<1>3. OwnInv /\ FlowTypes /\ FlowInv /\ [BridgeNext]_bridgeVars => (FlowTypes /\ FlowInv)'
  BY FlowTypesNext, FlowNext
<1> QED
  BY <1>1, <1>2, <1>3, OwnHolds, PTL DEF BridgeSpec
=============================================================================
