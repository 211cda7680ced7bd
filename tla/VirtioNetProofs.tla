--------------------------- MODULE VirtioNetProofs ---------------------------
(***************************************************************************)
(* Proofs about VirtioNet, for any number of vCPUs and stack threads, any  *)
(* ring size and index width, and any number of frames and resets.         *)
(***************************************************************************)
EXTENDS VirtioNet, VirtqueueProofs

(***************************************************************************)
(* The inductive invariant.                                                *)
(***************************************************************************)
Ready      == queue["rx"].ready
ToServe(q) == Unserved(queue[q].last, ring[q])
ToTake(q)  == Uncollected(lastUsed[q], ring[q])
Serving    == \E v \in Vcpus : pc[v] \in {"enq", "used"}

\* mtx_ is held by the one vCPU inside process_tx or by the RX thread.
LockInv ==
    /\ \A v \in Vcpus : pc[v] \in {"tx", "enq", "used"} <=> mtx = v
    /\ rxpc \in {"test", "block", "irq"} <=> mtx = "rx"
    /\ raised \/ Serving => mtx \in Vcpus
    /\ mtx \in Vcpus \/ rxpc = "irq" => Ready

\* Both queues are ready or none is, and after a reset both start at 0; the
\* chains of a queue that is ready are accounted for.
ReadyInv ==
    /\ queue["tx"].ready = Ready
    /\ \A q \in Queues : ~Ready => queue[q].last = 0
    /\ irqStatus = 1 \/ irqpc \in {"ack", "collect"} => Ready
    /\ \A q \in Queues : Ready => Accounted(queue[q].last, ring[q], lastUsed[q], owned[q])

\* A chain the driver has not collected is about to be collected, about to be
\* signalled by the holder of mtx_, or has been signalled.
SignalInv ==
    \A q \in Queues : Ready /\ lastUsed[q] # ring[q].usedIdx =>
        \/ irqpc = "collect" \/ raised \/ rxpc = "irq"
        \/ irqStatus = 1 /\ (spi \/ irqpc \in {"read", "ack"})

\* Every element of one sequence is less than every one of another; the
\* elements of a sequence are numbers of the first n frames.
Before(s, t) == \A i \in 1..Len(s), j \in 1..Len(t) : s[i] < t[j]
UpTo(s, n)   == \A i \in 1..Len(s) : s[i] \in 1..n

\* The TX frames still to be handed over are newer than those handed over;
\* the chain a vCPU is serving is the oldest one and has been handed over.
TxFrames == Carry(ToServe("tx"), buf["tx"])
TxInv ==
    /\ Increasing(handed) /\ UpTo(handed, txMade)
    /\ Serving => queue["tx"].last # ring["tx"].availIdx /\ txhead = NextHead(queue["tx"].last, ring["tx"])
    /\ Ready => /\ Increasing(TxFrames) /\ UpTo(TxFrames, txMade)
                /\ Before(handed, IF Serving THEN Tail(TxFrames) ELSE TxFrames)

\* RX frames are numbered along their way: with the driver, in its buffers, in
\* the RX thread's hand, in rx_queue_.
RxFrames == Carry(ToTake("rx"), buf["rx"])
InHand   == IF frame = 0 THEN <<>> ELSE <<frame>>
RxInv ==
    /\ rxpc = "feed" <=> frame # 0
    /\ Increasing(got) /\ Increasing(rxQueue)
    /\ UpTo(got, rxMade) /\ UpTo(InHand, rxMade) /\ UpTo(rxQueue, rxMade)
    /\ Before(got, InHand) /\ Before(got, rxQueue) /\ Before(InHand, rxQueue)
    /\ Ready => /\ Increasing(RxFrames) /\ UpTo(RxFrames, rxMade)
                /\ Before(got, RxFrames) /\ Before(RxFrames, InHand) /\ Before(RxFrames, rxQueue)

IndInv == TypeOK /\ LockInv /\ ReadyInv /\ SignalInv /\ TxInv /\ RxInv

-----------------------------------------------------------------------------
(***************************************************************************)
(* Ordered sequences of frame numbers.                                     *)
(***************************************************************************)
\* One more frame at the end.
LEMMA OrderAppend ==
    ASSUME NEW s \in Seq(Nat), NEW x \in Nat
    PROVE  /\ Append(s, x) \in Seq(Nat)
           /\ Increasing(s) /\ Before(s, <<x>>) => Increasing(Append(s, x))
           /\ \A t \in Seq(Nat) : Before(s, t) /\ Before(<<x>>, t) => Before(Append(s, x), t)
           /\ \A t \in Seq(Nat) : Before(t, s) /\ Before(t, <<x>>) => Before(t, Append(s, x))
           /\ \A n \in Nat : UpTo(s, n) /\ x \in 1..n => UpTo(Append(s, x), n)
<1> DEFINE a == Append(s, x)
<1>1. /\ a \in Seq(Nat) /\ Len(a) = Len(s) + 1 /\ Len(s) \in Nat
      /\ \A i \in 1..(Len(s) + 1) : a[i] = IF i = Len(s) + 1 THEN x ELSE s[i]
  BY AppendAt
<1>2. \A i \in 1..Len(a) : (i \in 1..Len(s) /\ a[i] = s[i]) \/ (i = Len(s) + 1 /\ a[i] = x)
  BY <1>1
<1>3. Len(<<x>>) = 1 /\ <<x>>[1] = x /\ 1 \in 1..1
  OBVIOUS
<1> HIDE DEF a
<1>4. ASSUME Increasing(s), Before(s, <<x>>) PROVE Increasing(a)
  <2> SUFFICES ASSUME NEW i \in 1..Len(a), NEW j \in 1..Len(a), i < j PROVE a[i] < a[j]
    BY DEF Increasing
  <2>1. i \in 1..Len(s) /\ a[i] = s[i]
    BY <1>1, <1>2
  <2>2. CASE j \in 1..Len(s) /\ a[j] = s[j]
    BY <1>4, <2>1, <2>2 DEF Increasing
  <2>3. CASE a[j] = x
    BY <1>3, <1>4, <2>1, <2>3 DEF Before
  <2> QED BY <1>2, <2>2, <2>3
<1>5. ASSUME NEW t \in Seq(Nat), Before(s, t), Before(<<x>>, t) PROVE Before(a, t)
  BY <1>2, <1>3, <1>5 DEF Before
<1>6. ASSUME NEW t \in Seq(Nat), Before(t, s), Before(t, <<x>>) PROVE Before(t, a)
  BY <1>2, <1>3, <1>6 DEF Before
<1>7. ASSUME NEW n \in Nat, UpTo(s, n), x \in 1..n PROVE UpTo(a, n)
  BY <1>2, <1>7 DEF UpTo
<1> QED BY <1>1, <1>4, <1>5, <1>6, <1>7 DEF a

\* Taking the first frame.
LEMMA OrderTail ==
    ASSUME NEW s \in Seq(Nat), s # <<>>
    PROVE  /\ Tail(s) \in Seq(Nat) /\ Head(s) \in Nat
           /\ Increasing(s) => Increasing(Tail(s)) /\ Before(<<Head(s)>>, Tail(s))
           /\ \A t \in Seq(Nat) : Before(s, t) => Before(Tail(s), t) /\ Before(<<Head(s)>>, t)
           /\ \A t \in Seq(Nat) : Before(t, s) => Before(t, Tail(s)) /\ Before(t, <<Head(s)>>)
           /\ \A n \in Nat : UpTo(s, n) => UpTo(Tail(s), n) /\ Head(s) \in 1..n
<1> DEFINE a == Tail(s)
           x == Head(s)
<1>1. /\ a \in Seq(Nat) /\ Len(a) = Len(s) - 1 /\ Len(s) \in Nat \ {0} /\ x = s[1] /\ x \in Nat
      /\ \A i \in 1..(Len(s) - 1) : a[i] = s[i + 1]
  BY TailAt
<1>2. 1 \in 1..Len(s) /\ \A i \in 1..Len(a) : i + 1 \in 1..Len(s) /\ 1 < i + 1 /\ a[i] = s[i + 1]
  BY <1>1
<1> HIDE DEF a, x
<1>3. Len(<<x>>) = 1 /\ <<x>>[1] = x /\ \A i \in 1..1 : i = 1
  OBVIOUS
<1>4. ASSUME Increasing(s) PROVE Increasing(a) /\ Before(<<x>>, a)
  <2>1. \A i, j \in 1..Len(a) : i < j => a[i] < a[j]
    <3> SUFFICES ASSUME NEW i \in 1..Len(a), NEW j \in 1..Len(a), i < j PROVE a[i] < a[j]
      OBVIOUS
    <3>1. i + 1 < j + 1
      OBVIOUS
    <3> QED BY <1>2, <1>4, <3>1 DEF Increasing
  <2>2. \A j \in 1..Len(a) : x < a[j]
    BY <1>1, <1>2, <1>4 DEF Increasing
  <2> QED BY <1>3, <2>1, <2>2 DEF Increasing, Before
<1>5. ASSUME NEW t \in Seq(Nat), Before(s, t) PROVE Before(a, t) /\ Before(<<x>>, t)
  BY <1>1, <1>2, <1>3, <1>5 DEF Before
<1>6. ASSUME NEW t \in Seq(Nat), Before(t, s) PROVE Before(t, a) /\ Before(t, <<x>>)
  BY <1>1, <1>2, <1>3, <1>6 DEF Before
<1>7. ASSUME NEW n \in Nat, UpTo(s, n) PROVE UpTo(a, n) /\ x \in 1..n
  BY <1>1, <1>2, <1>7 DEF UpTo
<1> QED BY <1>1, <1>4, <1>5, <1>6, <1>7 DEF a, x

\* The frame with the next number is newer than all, and nothing is before or
\* after nothing.
LEMMA OrderNext ==
    /\ \A s \in Seq(Nat), n \in Nat : UpTo(s, n) => UpTo(s, n + 1) /\ Before(s, <<n + 1>>)
    /\ \A s \in Seq(Nat) : Before(<<>>, s) /\ Before(s, <<>>)
    /\ Increasing(<<>>) /\ \A n \in Nat : UpTo(<<>>, n)
<1>1. ASSUME NEW s \in Seq(Nat), NEW n \in Nat, UpTo(s, n)
      PROVE  UpTo(s, n + 1) /\ Before(s, <<n + 1>>)
  <2>1. \A i \in 1..Len(s) : s[i] \in 1..(n + 1) /\ s[i] < n + 1
    BY <1>1 DEF UpTo
  <2>2. Len(<<n + 1>>) = 1 /\ <<n + 1>>[1] = n + 1 /\ \A i \in 1..1 : i = 1
    OBVIOUS
  <2> QED BY <2>1, <2>2 DEF UpTo, Before
<1>2. Len(<<>>) = 0 /\ \A i \in 1..0 : FALSE
  OBVIOUS
<1> QED BY <1>1, <1>2 DEF Before, Increasing, UpTo

-----------------------------------------------------------------------------
(***************************************************************************)
(* Facts of one state.                                                     *)
(***************************************************************************)
\* The queues of a state, and that they are sequences of heads.
LEMMA ReadyFacts ==
    ASSUME IndInv, Ready, NEW q \in Queues
    PROVE  /\ Accounted(queue[q].last, ring[q], lastUsed[q], owned[q]) /\ queue[q].ready
           /\ ToServe(q) \in Seq(Heads) /\ ToTake(q) \in Seq(Heads)
           /\ \A i \in 1..Len(ToServe(q)) : ToServe(q)[i] \in Heads /\ ToServe(q)[i] \notin owned[q]
           /\ \A i \in 1..Len(ToTake(q)) : ToTake(q)[i] \in Heads /\ ToTake(q)[i] \notin owned[q]
           /\ \A i, j \in 1..Len(ToServe(q)) : ToServe(q)[i] = ToServe(q)[j] => i = j
           /\ \A i, j \in 1..Len(ToTake(q)) : ToTake(q)[i] = ToTake(q)[j] => i = j
           /\ \A i \in 1..Len(ToServe(q)), j \in 1..Len(ToTake(q)) : ToServe(q)[i] # ToTake(q)[j]
<1>1. Accounted(queue[q].last, ring[q], lastUsed[q], owned[q])
  BY DEF IndInv, ReadyInv
<1>2. ToServe(q) \in Seq(Heads) /\ ToTake(q) \in Seq(Heads) /\ Apart(ToServe(q), ToTake(q), owned[q])
  BY <1>1 DEF Accounted, Partition, ToServe, ToTake
<1>3. /\ \A i \in 1..Len(ToServe(q)) : ToServe(q)[i] \in Heads
      /\ \A i \in 1..Len(ToTake(q)) : ToTake(q)[i] \in Heads
  BY <1>2
<1>4. queue[q].ready
  BY DEF IndInv, ReadyInv, Ready, Queues
<1> QED BY <1>1, <1>2, <1>3, <1>4 DEF Apart

\* What chains of heads carry, when every chain carries a number.
LEMMA CarryNat ==
    ASSUME NEW s \in Seq(Heads), NEW f, \A h \in Heads : f[h] \in Nat
    PROVE  Carry(s, f) \in Seq(Nat) /\ Len(Carry(s, f)) = Len(s)
<1>1. DOMAIN s = 1..Len(s) /\ Len(s) \in Nat /\ \A i \in 1..Len(s) : s[i] \in Heads
  OBVIOUS
<1>2. Carry(s, f) \in [1..Len(s) -> Nat]
  BY <1>1 DEF Carry
<1> QED BY <1>1, <1>2, LenProperties, IsASeq

\* The sequences of frame numbers.
LEMMA FrameFacts ==
    ASSUME IndInv
    PROVE  /\ \A q \in Queues, h \in Heads : buf[q][h] \in Nat
           /\ handed \in Seq(Nat) /\ got \in Seq(Nat) /\ rxQueue \in Seq(Nat) /\ InHand \in Seq(Nat)
           /\ txMade \in Nat /\ rxMade \in Nat /\ frame \in Nat
           /\ Ready => TxFrames \in Seq(Nat) /\ RxFrames \in Seq(Nat)
<1>1. \A q \in Queues, h \in Heads : buf[q][h] \in Nat
  BY DEF IndInv, TypeOK
<1>2. /\ handed \in Seq(1..MaxTx) /\ got \in Seq(Nat \ {0}) /\ rxQueue \in Seq(Nat \ {0})
      /\ txMade \in Nat /\ rxMade \in Nat /\ frame \in Nat /\ MaxTx \in Nat
  BY NetAssumption DEF IndInv, TypeOK
<1>3. handed \in Seq(Nat) /\ got \in Seq(Nat) /\ rxQueue \in Seq(Nat)
  BY <1>2
<1>4. InHand \in Seq(Nat)
  BY <1>2 DEF InHand
<1>5. ASSUME Ready PROVE TxFrames \in Seq(Nat) /\ RxFrames \in Seq(Nat)
  <2>1. ToServe("tx") \in Seq(Heads) /\ ToTake("rx") \in Seq(Heads)
    BY <1>5, ReadyFacts DEF Queues
  <2>2. \A h \in Heads : buf["tx"][h] \in Nat /\ buf["rx"][h] \in Nat
    BY <1>1 DEF Queues
  <2> QED BY <2>1, <2>2, CarryNat DEF TxFrames, RxFrames
<1> QED BY <1>1, <1>2, <1>3, <1>4, <1>5

\* A vCPU inside process_tx is the only one, and the RX thread is elsewhere.
LEMMA HolderFacts ==
    ASSUME IndInv, NEW v \in Vcpus, pc[v] \in {"tx", "enq", "used"}
    PROVE  /\ mtx = v /\ mtx # "free" /\ mtx # "rx" /\ Ready
           /\ \A w \in Vcpus : w # v => pc[w] \in {"run", "kick"}
           /\ Serving <=> pc[v] \in {"enq", "used"}
           /\ rxpc \notin {"test", "block", "irq"}
<1>1. mtx = v /\ v # "free" /\ v # "rx" /\ Ready
  BY NetAssumption DEF IndInv, LockInv
<1>2. \A w \in Vcpus : pc[w] \in {"run", "kick", "tx", "enq", "used"}
  BY DEF IndInv, TypeOK, Threads
<1>3. \A w \in Vcpus : w # v => pc[w] \in {"run", "kick"}
  BY <1>1, <1>2 DEF IndInv, LockInv
<1> QED BY <1>1, <1>3 DEF Serving, IndInv, LockInv

\* Nobody is inside process_tx when no vCPU has mtx_.
LEMMA FreeFacts ==
    ASSUME IndInv, mtx \in {"free", "rx"}
    PROVE  ~Serving /\ ~raised /\ mtx \notin Vcpus /\ \A v \in Vcpus : pc[v] \in {"run", "kick"}
<1>1. \A w \in Vcpus : pc[w] \in {"run", "kick", "tx", "enq", "used"} /\ w \notin {"free", "rx"}
  BY NetAssumption DEF IndInv, TypeOK, Threads
<1>2. \A v \in Vcpus : pc[v] \in {"run", "kick"}
  BY <1>1 DEF IndInv, LockInv
<1> QED BY <1>1, <1>2 DEF IndInv, LockInv, Serving

\* Moving a thread.
LEMMA GotoFacts ==
    ASSUME IndInv, NEW t \in Threads, NEW l \in {"run", "kick", "tx", "enq", "used"}, Goto(t, l)
    PROVE  /\ pc' \in [Threads -> {"run", "kick", "tx", "enq", "used"}]
           /\ pc'[t] = l /\ \A w \in Threads : w # t => pc'[w] = pc[w]
<1>1. pc \in [Threads -> {"run", "kick", "tx", "enq", "used"}] /\ pc' = [pc EXCEPT ![t] = l]
  BY DEF IndInv, TypeOK, Goto
<1> QED BY <1>1

\* What the queues hold after a step that leaves them alone.
queueVars == <<queue, ring, buf, owned, lastUsed>>
LEMMA QueuesSame ==
    ASSUME UNCHANGED queueVars
    PROVE  /\ Ready' = Ready /\ TxFrames' = TxFrames /\ RxFrames' = RxFrames
           /\ \A q \in Queues : ToServe(q)' = ToServe(q) /\ ToTake(q)' = ToTake(q)
  BY DEF queueVars, Ready, TxFrames, RxFrames, ToServe, ToTake

-----------------------------------------------------------------------------
(***************************************************************************)
(* Parts of the invariant a step leaves alone.                             *)
(***************************************************************************)
\* No TX chain moves.
LEMMA TxSame ==
    ASSUME IndInv, UNCHANGED <<txhead, handed, txMade>>, Serving' <=> Serving,
           queue'["tx"].last = queue["tx"].last, ring'["tx"] = ring["tx"],
           Ready' => Ready /\ TxFrames' = TxFrames
    PROVE  TxInv'
  BY DEF IndInv, TxInv

\* No RX frame moves, but the RX thread may drop the one in its hand.
LEMMA RxSame ==
    ASSUME IndInv, UNCHANGED <<got, rxQueue, rxMade>>, frame' = frame \/ frame' = 0,
           (rxpc' = "feed" <=> frame' # 0), Ready' => Ready /\ RxFrames' = RxFrames
    PROVE  RxInv'
<1>1. CASE frame' = frame
  <2>1. InHand' = InHand
    BY <1>1 DEF InHand
  <2> QED BY <2>1 DEF IndInv, RxInv
<1>2. CASE frame' = 0
  <2>1. InHand' = <<>>
    BY <1>2 DEF InHand
  <2>2. /\ UpTo(<<>>, rxMade) /\ Before(got, <<>>) /\ Before(<<>>, rxQueue)
        /\ Ready => Before(RxFrames, <<>>)
    BY OrderNext, FrameFacts
  <2> QED BY <1>2, <2>1, <2>2 DEF IndInv, RxInv
<1> QED BY <1>1, <1>2

\* A longer sequence is not empty, and its tail is longer too.
LEMMA TailAppend ==
    ASSUME NEW s \in Seq(Nat), NEW x \in Nat, s # <<>>
    PROVE  Append(s, x) # <<>> /\ Tail(Append(s, x)) = Append(Tail(s), x)
<1> DEFINE a == Append(s, x)
           t == Tail(s)
           b == Tail(a)
           c == Append(t, x)
<1>1. /\ a \in Seq(Nat) /\ Len(a) = Len(s) + 1 /\ Len(s) \in Nat
      /\ \A i \in 1..(Len(s) + 1) : a[i] = IF i = Len(s) + 1 THEN x ELSE s[i]
  BY AppendAt
<1>2. /\ t \in Seq(Nat) /\ Len(t) = Len(s) - 1 /\ Len(s) \in Nat \ {0}
      /\ \A i \in 1..(Len(s) - 1) : t[i] = s[i + 1]
  BY TailAt
<1> HIDE DEF a, t
<1>3. a # <<>>
  BY <1>1, <1>2
<1>4. /\ b \in Seq(Nat) /\ Len(b) = Len(a) - 1
      /\ \A i \in 1..(Len(a) - 1) : b[i] = a[i + 1]
  BY <1>1, <1>3, TailAt
<1>5. /\ c \in Seq(Nat) /\ Len(c) = Len(t) + 1
      /\ \A i \in 1..(Len(t) + 1) : c[i] = IF i = Len(t) + 1 THEN x ELSE t[i]
  BY <1>2, AppendAt
<1> HIDE DEF b, c
<1>6. Len(b) = Len(s) /\ Len(c) = Len(s) /\ Len(a) - 1 = Len(s) /\ Len(t) + 1 = Len(s)
  BY <1>1, <1>2, <1>4, <1>5
<1>7. ASSUME NEW i \in 1..Len(s) PROVE b[i] = c[i]
  <2>1. b[i] = a[i + 1] /\ i + 1 \in 1..(Len(s) + 1)
    BY <1>1, <1>4, <1>6
  <2>2. c[i] = IF i = Len(s) THEN x ELSE t[i]
    BY <1>5, <1>6
  <2>3. CASE i = Len(s)
    BY <1>1, <2>1, <2>2, <2>3
  <2>4. CASE i # Len(s)
    <3>1. i \in 1..(Len(s) - 1) /\ i + 1 # Len(s) + 1
      BY <1>2, <2>4
    <3>2. a[i + 1] = s[i + 1] /\ t[i] = s[i + 1]
      BY <1>1, <1>2, <2>1, <3>1
    <3> QED BY <2>1, <2>2, <2>4, <3>2
  <2> QED BY <2>3, <2>4
<1>8. b = c
  BY <1>4, <1>5, <1>6, <1>7, SeqEqual
<1> QED BY <1>3, <1>8 DEF a, b, c, t

\* The invariant about a queue's chains, when the queue is left alone.
LEMMA ReadySame ==
    ASSUME IndInv, UNCHANGED queueVars, irqStatus' = 1 \/ irqpc' \in {"ack", "collect"} => Ready
    PROVE  ReadyInv'
  BY DEF IndInv, ReadyInv, Ready, queueVars

-----------------------------------------------------------------------------
(***************************************************************************)
(* Each step keeps the invariant.                                          *)
(***************************************************************************)
\* Initially.
LEMMA InitInd == Init => IndInv
<1> SUFFICES ASSUME Init PROVE IndInv
  OBVIOUS
<1>1. 0 \in Heads /\ NewRing \in Rings /\ 0 \in Indices
  BY NewRingFacts, IndexFacts DEF Heads, Slots
<1>2. TypeOK
  <2>1. <<>> \in Seq(Nat \ {0}) /\ <<>> \in Seq(1..MaxTx) /\ 0 \in 0..MaxTx /\ 0 \in 0..MaxReset
    BY NetAssumption
  <2>2. queue \in [Queues -> [last : Indices, ready : BOOLEAN]]
    BY <1>1 DEF Init, NewQueue
  <2>3. buf \in [Queues -> [Heads -> Nat]] /\ owned \in [Queues -> SUBSET Heads]
    BY DEF Init
  <2> QED BY <1>1, <2>1, <2>2, <2>3 DEF Init, TypeOK
<1>3. ~Ready /\ ~Serving /\ InHand = <<>>
  BY DEF Init, Ready, NewQueue, Serving, InHand, Queues, Threads
<1>4. LockInv
  BY <1>3, NetAssumption DEF Init, LockInv, Threads
<1>5. ReadyInv /\ SignalInv
  BY <1>3 DEF Init, ReadyInv, SignalInv, Ready, NewQueue, Queues
<1>6. Before(<<>>, <<>>) /\ Increasing(<<>>) /\ UpTo(<<>>, 0)
  <2>1. Len(<<>>) = 0 /\ \A i \in 1..0 : FALSE
    OBVIOUS
  <2> QED BY <2>1 DEF Before, Increasing, UpTo
<1>7. TxInv
  BY <1>3, <1>6 DEF Init, TxInv
<1>8. RxInv
  BY <1>3, <1>6 DEF Init, RxInv
<1> QED BY <1>2, <1>4, <1>5, <1>7, <1>8 DEF IndInv

\* The handler's steps that touch no queue.
LEMMA HandlerInd ==
    ASSUME IndInv, IrqTake \/ CollectEnd \/ ReadIrqStatus \/ WriteIrqAck PROVE IndInv'
<1>1. /\ UNCHANGED <<mtx, pc, raised, txhead, rxpc, frame, rxQueue, stopRx, dtor, queue, ring, buf,
                     owned, lastUsed, txMade, rxMade, resets, handed, got>>
      /\ irqpc' \in {"idle", "read", "ack", "collect"} /\ irqStatus' \in {0, 1} /\ spi' \in BOOLEAN
  BY DEF IrqTake, CollectEnd, ReadIrqStatus, WriteIrqAck, txVars, rxVars, devVars, countVars, IndInv, TypeOK
<1>2. UNCHANGED queueVars
  BY <1>1 DEF queueVars
<1>3. Ready' = Ready /\ TxFrames' = TxFrames /\ RxFrames' = RxFrames /\ (Serving' <=> Serving)
  BY <1>1, <1>2, QueuesSame DEF Serving
<1>4. TypeOK'
  BY <1>1 DEF IndInv, TypeOK
<1>5. LockInv'
  BY <1>1, <1>3 DEF IndInv, LockInv
<1>6. irqStatus' = 1 \/ irqpc' \in {"ack", "collect"} => Ready
  BY DEF IrqTake, CollectEnd, ReadIrqStatus, WriteIrqAck, devVars, IndInv, ReadyInv
<1>7. ReadyInv'
  BY <1>2, <1>6, ReadySame
<1>8. SignalInv'
  <2>1. CASE IrqTake
    BY <1>1, <1>3, <2>1 DEF IrqTake, IndInv, SignalInv
  <2>2. CASE CollectEnd
    BY <1>1, <2>2 DEF CollectEnd, SignalInv
  <2>3. CASE ReadIrqStatus
    <3>1. ~raised /\ rxpc # "irq"
      BY <2>3, FreeFacts DEF ReadIrqStatus, IndInv, LockInv
    <3> QED BY <1>1, <1>3, <2>3, <3>1 DEF ReadIrqStatus, IndInv, SignalInv, devVars
  <2>4. CASE WriteIrqAck
    BY <2>4 DEF WriteIrqAck, SignalInv
  <2> QED BY <2>1, <2>2, <2>3, <2>4
<1>9. TxInv'
  BY <1>1, <1>3, TxSame
<1>10. RxInv'
  <2>1. (rxpc' = "feed" <=> frame' # 0)
    BY <1>1 DEF IndInv, RxInv
  <2> QED BY <1>1, <1>3, <2>1, RxSame
<1> QED BY <1>4, <1>5, <1>7, <1>8, <1>9, <1>10 DEF IndInv

\* The RX thread's steps that move no frame into the guest, and ~Net's.
LEMMA RxQuietInd ==
    ASSUME IndInv,
           \/ RxTop \/ RxLock \/ RxStop \/ RxEmpty \/ RxBlock \/ RxDrop \/ RxIrq
           \/ DtorStop \/ DtorNotify \/ DtorJoin
    PROVE  IndInv'
<1>1. /\ UNCHANGED <<pc, raised, txhead, rxQueue, queue, ring, buf,
                     owned, lastUsed, irqpc, txMade, rxMade, resets, handed, got>>
      /\ irqStatus' \in {0, 1} /\ spi' \in BOOLEAN /\ stopRx' \in BOOLEAN
      /\ dtor' \in {"live", "notify", "join", "gone"} /\ (frame' = frame \/ frame' = 0)
      /\ rxpc' \in {"top", "lock", "test", "block", "wait", "feed", "irq", "done"}
      /\ mtx' \in {mtx, "rx", "free"}
  BY DEF RxTop, RxLock, RxStop, RxEmpty, RxBlock, RxDrop, RxIrq, DtorStop, DtorNotify, DtorJoin, Awaken,
         txVars, rxVars, devVars, countVars, guestVars, IndInv, TypeOK
<1>2. UNCHANGED queueVars
  BY <1>1 DEF queueVars
<1>3. Ready' = Ready /\ TxFrames' = TxFrames /\ RxFrames' = RxFrames /\ (Serving' <=> Serving)
  BY <1>1, <1>2, QueuesSame DEF Serving
<1>4. TypeOK'
  BY <1>1 DEF IndInv, TypeOK
<1>5. \/ mtx' = mtx /\ (rxpc' \in {"test", "block", "irq"} <=> rxpc \in {"test", "block", "irq"})
         /\ (rxpc' = "irq" <=> rxpc = "irq")
      \/ mtx' = "rx" /\ mtx \in {"free", "rx"} /\ rxpc' \in {"test", "block"}
      \/ mtx' = "free" /\ mtx \in {"free", "rx"} /\ rxpc' \in {"wait", "top", "done"}
  <2>1. CASE RxTop \/ RxDrop \/ DtorStop \/ DtorNotify \/ DtorJoin
    BY <2>1 DEF RxTop, RxDrop, DtorStop, DtorNotify, DtorJoin, Awaken
  <2>2. CASE RxLock \/ RxStop \/ RxEmpty \/ RxBlock \/ RxIrq
    <3>1. mtx \in {"free", "rx"}
      BY <2>2 DEF RxLock, RxStop, RxEmpty, RxBlock, RxIrq, IndInv, LockInv
    <3>2. RxEmpty => mtx' = "rx"
      BY DEF RxEmpty, IndInv, LockInv
    <3> QED BY <2>2, <3>1, <3>2 DEF RxLock, RxStop, RxEmpty, RxBlock, RxIrq
  <2> QED BY <2>1, <2>2
<1>6. LockInv'
  <2>1. CASE mtx' = mtx /\ (rxpc' \in {"test", "block", "irq"} <=> rxpc \in {"test", "block", "irq"})
             /\ (rxpc' = "irq" <=> rxpc = "irq")
    BY <1>1, <1>3, <2>1 DEF IndInv, LockInv
  <2>2. CASE mtx' \in {"free", "rx"} /\ mtx \in {"free", "rx"}
    <3>1. ~Serving /\ ~raised /\ \A v \in Vcpus : pc[v] \in {"run", "kick"} /\ v \notin {"free", "rx"}
      BY <2>2, FreeFacts, NetAssumption
    <3>2. mtx' \notin Vcpus
      BY <2>2, <3>1
    <3>3. rxpc' \in {"test", "block", "irq"} <=> mtx' = "rx"
      BY <1>5 DEF IndInv, LockInv
    <3>4. rxpc' = "irq" => Ready
      BY <1>5 DEF IndInv, LockInv
    <3> QED BY <1>1, <1>3, <2>2, <3>1, <3>2, <3>3, <3>4 DEF LockInv
  <2> QED BY <1>5, <2>1, <2>2
<1>7. irqStatus' = 1 \/ irqpc' \in {"ack", "collect"} => Ready
  BY DEF RxTop, RxLock, RxStop, RxEmpty, RxBlock, RxDrop, RxIrq, DtorStop, DtorNotify, DtorJoin,
         devVars, guestVars, IndInv, ReadyInv, LockInv
<1>8. ReadyInv'
  BY <1>2, <1>7, ReadySame
<1>9. SignalInv'
  <2>1. CASE RxIrq
    BY <2>1 DEF RxIrq, SignalInv
  <2>2. CASE ~RxIrq
    <3>1. irqStatus' = irqStatus /\ spi' = spi /\ (rxpc = "irq" => rxpc' = "irq")
      BY <2>2 DEF RxTop, RxLock, RxStop, RxEmpty, RxBlock, RxDrop, DtorStop, DtorNotify, DtorJoin, Awaken, devVars
    <3> QED BY <1>1, <1>3, <3>1 DEF IndInv, SignalInv
  <2> QED BY <2>1, <2>2
<1>10. TxInv'
  BY <1>1, <1>3, TxSame
<1>11. RxInv'
  <2>1. (rxpc' = "feed" <=> frame' # 0)
    BY DEF RxTop, RxLock, RxStop, RxEmpty, RxBlock, RxDrop, RxIrq, DtorStop, DtorNotify, DtorJoin, Awaken,
           IndInv, RxInv
  <2> QED BY <1>1, <1>3, <2>1, RxSame
<1> QED BY <1>4, <1>6, <1>8, <1>9, <1>10, <1>11 DEF IndInv

\* Taking and releasing mtx_ in a notification.
LEMMA LoopInd == ASSUME IndInv, NEW v \in Vcpus, Notify(v) \/ EndTx(v) PROVE IndInv'
<1>1. /\ UNCHANGED <<txhead, rxpc, frame, rxQueue, stopRx, dtor, queue, ring, buf,
                     owned, lastUsed, irqpc, txMade, rxMade, resets, handed, got>>
      /\ irqStatus' \in {0, 1} /\ spi' \in BOOLEAN /\ raised' \in BOOLEAN
      /\ mtx' \in Vcpus \cup {"rx", "free"}
  BY DEF Notify, EndTx, rxVars, devVars, guestVars, countVars, IndInv, TypeOK
<1>2. UNCHANGED queueVars
  BY <1>1 DEF queueVars
<1>3. Ready' = Ready /\ TxFrames' = TxFrames /\ RxFrames' = RxFrames
  BY <1>2, QueuesSame
<1>4. v \in Threads /\ \A w \in Vcpus : w \in Threads /\ w \notin {"free", "rx"}
  BY NetAssumption DEF Threads
<1>5. PICK l \in {"run", "tx"} : Goto(v, l)
  BY DEF Notify, EndTx
<1>6. /\ pc' \in [Threads -> {"run", "kick", "tx", "enq", "used"}]
      /\ pc'[v] = l /\ \A w \in Vcpus : w # v => pc'[w] = pc[w]
  BY <1>4, <1>5, GotoFacts
<1>7. /\ ~Serving /\ pc[v] \notin {"enq", "used"} /\ rxpc \notin {"test", "block", "irq"}
      /\ \A w \in Vcpus : w # v => pc[w] \in {"run", "kick"}
  <2>1. CASE Notify(v)
    BY <2>1, FreeFacts DEF Notify, IndInv, LockInv
  <2>2. CASE EndTx(v)
    BY <2>2, HolderFacts DEF EndTx
  <2> QED BY <2>1, <2>2
<1>8. ~Serving'
  BY <1>6, <1>7 DEF Serving
<1>9. TypeOK'
  BY <1>1, <1>6 DEF IndInv, TypeOK
<1>10. \/ mtx' = v /\ pc'[v] = "tx" /\ Ready /\ ~raised'
       \/ mtx' = "free" /\ pc'[v] = "run" /\ ~raised'
  <2>1. CASE Notify(v)
    <3>1. ~raised /\ queue["tx"].ready = Ready
      BY <2>1, FreeFacts DEF Notify, IndInv, ReadyInv
    <3>2. \/ mtx' = v /\ Goto(v, "tx") /\ Ready /\ ~raised'
          \/ mtx' = "free" /\ Goto(v, "run") /\ ~raised'
      BY <2>1, <3>1 DEF Notify
    <3> QED BY <1>4, <3>2, GotoFacts
  <2>2. CASE EndTx(v)
    BY <1>4, <2>2, GotoFacts DEF EndTx
  <2> QED BY <2>1, <2>2
<1>11. LockInv'
  BY <1>1, <1>3, <1>4, <1>6, <1>7, <1>8, <1>10 DEF LockInv
<1>12. irqStatus' = 1 \/ irqpc' \in {"ack", "collect"} => Ready
  BY <1>1, HolderFacts DEF Notify, EndTx, devVars, IndInv, ReadyInv
<1>13. ReadyInv'
  BY <1>2, <1>12, ReadySame
<1>14. SignalInv'
  <2>1. CASE Notify(v)
    BY <1>1, <1>3, <2>1, FreeFacts DEF Notify, IndInv, SignalInv, devVars
  <2>2. CASE EndTx(v)
    BY <1>1, <1>3, <1>7, <2>2 DEF EndTx, IndInv, SignalInv, TypeOK
  <2> QED BY <2>1, <2>2
<1>15. TxInv'
  BY <1>1, <1>3, <1>7, <1>8, TxSame
<1>16. RxInv'
  <2>1. (rxpc' = "feed" <=> frame' # 0)
    BY <1>1 DEF IndInv, RxInv
  <2> QED BY <1>1, <1>3, <2>1, RxSame
<1> QED BY <1>9, <1>11, <1>13, <1>14, <1>15, <1>16 DEF IndInv

\* A stack thread makes a frame and queues it; a vCPU that answers from inside
\* guest_tx never gets mtx_, which it holds.
LEMMA EnqueueInd ==
    ASSUME IndInv, \/ \E p \in Peers : Produce(p)
                   \/ \E t \in Threads : EnqueueRx(t)
    PROVE  IndInv'
<1>1. /\ UNCHANGED <<mtx, raised, txhead, frame, stopRx, dtor, queue, irqStatus, spi, ring, buf,
                     owned, lastUsed, irqpc, txMade, resets, handed, got>>
  BY DEF Produce, EnqueueRx, txVars, rxVars, devVars, guestVars, countVars
<1>2. UNCHANGED queueVars
  BY <1>1 DEF queueVars
<1>3. Ready' = Ready /\ TxFrames' = TxFrames /\ RxFrames' = RxFrames
  BY <1>2, QueuesSame
<1>4. PICK p \in Peers : p \notin Vcpus /\ p \in Threads /\ \E l \in {"run", "enq"} : Goto(p, l)
  <2>1. CASE \E p \in Peers : Produce(p)
    BY <2>1, NetAssumption DEF Produce, Threads
  <2>2. CASE \E t \in Threads : EnqueueRx(t)
    <3>1. PICK t \in Threads : EnqueueRx(t)
      BY <2>2
    <3>2. t \notin Vcpus
      BY <3>1, FreeFacts DEF EnqueueRx
    <3> QED BY <3>1, <3>2 DEF EnqueueRx, Threads
  <2> QED BY <2>1, <2>2
<1>5. /\ pc' \in [Threads -> {"run", "kick", "tx", "enq", "used"}]
      /\ \A w \in Vcpus : pc'[w] = pc[w]
  BY <1>4, GotoFacts DEF Threads
<1>6. Serving' <=> Serving
  BY <1>5 DEF Serving
<1>7. \/ rxpc' = rxpc
      \/ rxpc = "wait" /\ rxpc' = "lock"
  BY DEF Produce, EnqueueRx, Awaken, rxVars
<1>8. \/ rxQueue' = rxQueue /\ rxMade' = rxMade
      \/ rxQueue' = Append(rxQueue, rxMade + 1) /\ rxMade' = rxMade + 1
  BY DEF Produce, EnqueueRx, rxVars, countVars
<1>9. rxMade \in Nat /\ rxMade + 1 \in Nat \ {0} /\ rxQueue \in Seq(Nat \ {0})
  BY DEF IndInv, TypeOK
<1>10. TypeOK'
  <2>1. Append(rxQueue, rxMade + 1) \in Seq(Nat \ {0})
    <3> DEFINE S == Nat \ {0}
               n == rxMade + 1
    <3>1. rxQueue \in Seq(S) /\ n \in S
      BY <1>9
    <3> HIDE DEF S, n
    <3>2. Append(rxQueue, n) \in Seq(S)
      BY <3>1, AppendAt
    <3> QED BY <3>2 DEF S, n
  <2>2. rxQueue' \in Seq(Nat \ {0}) /\ rxMade' \in Nat
    <3>1. CASE rxQueue' = rxQueue /\ rxMade' = rxMade
      BY <1>9, <3>1
    <3>2. CASE rxQueue' = Append(rxQueue, rxMade + 1) /\ rxMade' = rxMade + 1
      BY <1>9, <2>1, <3>2
    <3> QED BY <1>8, <3>1, <3>2
  <2>3. rxpc' \in {"top", "lock", "test", "block", "wait", "feed", "irq", "done"}
    BY <1>7 DEF IndInv, TypeOK
  <2> QED BY <1>1, <1>5, <2>2, <2>3 DEF IndInv, TypeOK
<1>11. LockInv'
  BY <1>1, <1>3, <1>5, <1>6, <1>7 DEF IndInv, LockInv
<1>12. ReadyInv'
  BY <1>1, <1>2, ReadySame DEF IndInv, ReadyInv
<1>13. SignalInv'
  BY <1>1, <1>3, <1>7 DEF IndInv, SignalInv
<1>14. TxInv'
  BY <1>1, <1>3, <1>6, TxSame
<1>15. RxInv'
  <2>1. (rxpc' = "feed" <=> frame' # 0)
    BY <1>1, <1>7 DEF IndInv, RxInv
  <2>2. CASE rxQueue' = rxQueue /\ rxMade' = rxMade
    BY <1>1, <1>3, <2>1, <2>2, RxSame
  <2>3. CASE rxQueue' = Append(rxQueue, rxMade + 1) /\ rxMade' = rxMade + 1
    <3> DEFINE n == rxMade + 1
    <3>1. /\ got \in Seq(Nat) /\ InHand \in Seq(Nat) /\ rxQueue \in Seq(Nat) /\ n \in Nat
          /\ n \in 1..n /\ (Ready => RxFrames \in Seq(Nat))
      BY <1>9, FrameFacts
    <3>2. InHand' = InHand
      BY <1>1 DEF InHand
    <3>3. /\ UpTo(got, n) /\ UpTo(InHand, n) /\ UpTo(rxQueue, n)
          /\ Before(got, <<n>>) /\ Before(InHand, <<n>>) /\ Before(rxQueue, <<n>>)
          /\ Ready => UpTo(RxFrames, n) /\ Before(RxFrames, <<n>>)
      BY <1>9, <3>1, OrderNext DEF IndInv, RxInv
    <3> HIDE DEF n
    <3>4. /\ Increasing(Append(rxQueue, n)) /\ UpTo(Append(rxQueue, n), n)
          /\ Before(got, Append(rxQueue, n)) /\ Before(InHand, Append(rxQueue, n))
          /\ Ready => Before(RxFrames, Append(rxQueue, n))
      BY <3>1, <3>3, OrderAppend DEF IndInv, RxInv
    <3>5. rxQueue' = Append(rxQueue, n) /\ rxMade' = n
      BY <2>3 DEF n
    <3> QED BY <1>1, <1>3, <2>1, <3>2, <3>3, <3>4, <3>5 DEF IndInv, RxInv
  <2> QED BY <1>8, <2>2, <2>3
<1> QED BY <1>10, <1>11, <1>12, <1>13, <1>14, <1>15 DEF IndInv

\* The RX thread takes the oldest frame of rx_queue_.
LEMMA PopInd == ASSUME IndInv, RxPop PROVE IndInv'
<1>1. /\ rxpc = "test" /\ rxQueue # <<>> /\ frame' = Head(rxQueue) /\ rxQueue' = Tail(rxQueue)
      /\ mtx' = "free" /\ rxpc' = "feed"
      /\ UNCHANGED <<pc, raised, txhead, stopRx, dtor, queue, irqStatus, spi, ring, buf,
                     owned, lastUsed, irqpc, txMade, rxMade, resets, handed, got>>
  BY DEF RxPop, txVars, devVars, guestVars, countVars
<1>2. UNCHANGED queueVars
  BY <1>1 DEF queueVars
<1>3. Ready' = Ready /\ TxFrames' = TxFrames /\ RxFrames' = RxFrames /\ (Serving' <=> Serving)
  BY <1>1, <1>2, QueuesSame DEF Serving
<1>4. mtx = "rx" /\ frame = 0 /\ InHand = <<>>
  BY <1>1 DEF IndInv, LockInv, RxInv, InHand
<1>5. rxQueue \in Seq(Nat \ {0}) /\ Tail(rxQueue) \in Seq(Nat \ {0}) /\ Head(rxQueue) \in Nat \ {0}
  BY <1>1 DEF IndInv, TypeOK
<1>6. TypeOK'
  BY <1>1, <1>5 DEF IndInv, TypeOK
<1>7. LockInv'
  BY <1>1, <1>3, <1>4, FreeFacts, NetAssumption DEF LockInv
<1>8. ReadyInv'
  BY <1>1, <1>2, ReadySame DEF IndInv, ReadyInv
<1>9. SignalInv'
  BY <1>1, <1>3 DEF IndInv, SignalInv
<1>10. TxInv'
  BY <1>1, <1>3, TxSame
<1>11. RxInv'
  <2> DEFINE x == Head(rxQueue)
             t == Tail(rxQueue)
  <2>1. InHand' = <<x>>
    BY <1>1, <1>5 DEF InHand
  <2>2. got \in Seq(Nat) /\ rxQueue \in Seq(Nat) /\ rxMade \in Nat /\ (Ready => RxFrames \in Seq(Nat))
    BY FrameFacts
  <2>3. /\ Increasing(t) /\ UpTo(t, rxMade) /\ x \in 1..rxMade /\ Before(<<x>>, t)
        /\ Before(got, t) /\ Before(got, <<x>>)
        /\ Ready => Before(RxFrames, t) /\ Before(RxFrames, <<x>>)
    BY <1>1, <2>2, OrderTail DEF IndInv, RxInv
  <2>4. UpTo(<<x>>, rxMade)
    BY <2>3 DEF UpTo
  <2> HIDE DEF x, t
  <2>5. rxQueue' = t /\ frame' # 0
    BY <1>1, <1>5 DEF t
  <2> QED BY <1>1, <1>3, <2>1, <2>3, <2>4, <2>5 DEF IndInv, RxInv
<1> QED BY <1>6, <1>7, <1>8, <1>9, <1>10, <1>11 DEF IndInv

-----------------------------------------------------------------------------
(***************************************************************************)
(* Steps that move a chain of one queue q.                                 *)
(***************************************************************************)
\* The other queue and the readiness of both stay as they are.
OthersSame(q) ==
    \A p \in Queues :
        /\ queue'[p].ready = queue[p].ready
        /\ p # q => /\ queue'[p] = queue[p] /\ ring'[p] = ring[p] /\ buf'[p] = buf[p]
                    /\ owned'[p] = owned[p] /\ lastUsed'[p] = lastUsed[p]

\* Then only q's chains are left to account for.
LEMMA OneQueue ==
    ASSUME IndInv, Ready, NEW q \in Queues, OthersSame(q), irqStatus' = irqStatus, irqpc' = irqpc,
           Accounted(queue'[q].last, ring'[q], lastUsed'[q], owned'[q])
    PROVE  /\ ReadyInv' /\ Ready'
           /\ q # "tx" => TxFrames' = TxFrames
           /\ q # "rx" => RxFrames' = RxFrames
<1>1. Ready' /\ queue'["tx"].ready
  BY DEF OthersSame, Ready, Queues, IndInv, ReadyInv
<1>2. \A p \in Queues : Accounted(queue'[p].last, ring'[p], lastUsed'[p], owned'[p])
  BY DEF OthersSame, IndInv, ReadyInv
<1>3. ReadyInv'
  BY <1>1, <1>2 DEF ReadyInv
<1>4. (q # "tx" => TxFrames' = TxFrames) /\ (q # "rx" => RxFrames' = RxFrames)
  BY DEF OthersSame, Queues, TxFrames, RxFrames, ToServe, ToTake
<1> QED BY <1>1, <1>3, <1>4

\* The driver gives chain h to the device.
LEMMA GiveFacts ==
    ASSUME IndInv, Ready, NEW q \in Queues, NEW h \in owned[q], NEW n \in Nat, Give(q, h, n),
           UNCHANGED <<queue, lastUsed, irqStatus, irqpc>>
    PROVE  /\ ReadyInv' /\ Ready'
           /\ ring' \in [Queues -> Rings] /\ owned' \in [Queues -> SUBSET Heads]
           /\ buf' \in [Queues -> [Heads -> Nat]]
           /\ h \in Heads /\ ToServe(q)' = Append(ToServe(q), h) /\ ToTake(q)' = ToTake(q)
           /\ buf'[q][h] = n /\ \A g \in Heads : g # h => buf'[q][g] = buf[q][g]
           /\ ring'[q].usedIdx = ring[q].usedIdx /\ OthersSame(q)
           /\ q # "tx" => TxFrames' = TxFrames
           /\ q # "rx" => RxFrames' = RxFrames
<1> DEFINE r == ring[q]
           o == owned[q]
           l == queue[q].last
           u == lastUsed[q]
<1>1. /\ ring \in [Queues -> Rings] /\ owned \in [Queues -> SUBSET Heads]
      /\ buf \in [Queues -> [Heads -> Nat]] /\ h \in Heads
  BY DEF IndInv, TypeOK
<1>2. Accounted(l, r, u, o) /\ h \in o
  BY ReadyFacts
<1>3. /\ ring' = [ring EXCEPT ![q] = Offer(r, h)] /\ owned' = [owned EXCEPT ![q] = o \ {h}]
      /\ buf' = [buf EXCEPT ![q][h] = n]
  BY DEF Give
<1> HIDE DEF r, o, l, u
<1>4. /\ Accounted(l, Offer(r, h), u, o \ {h})
      /\ Unserved(l, Offer(r, h)) = Append(Unserved(l, r), h)
      /\ Uncollected(u, Offer(r, h)) = Uncollected(u, r)
      /\ Offer(r, h).usedIdx = r.usedIdx
  BY <1>2, AccountedOffer
<1>5. Offer(r, h) \in Rings /\ o \ {h} \in SUBSET Heads
  BY <1>4 DEF Accounted, Partition
<1>6. ring' \in [Queues -> Rings] /\ ring'[q] = Offer(r, h) /\ \A p \in Queues : p # q => ring'[p] = ring[p]
  BY <1>1, <1>3, <1>5
<1>7. /\ owned' \in [Queues -> SUBSET Heads] /\ owned'[q] = o \ {h}
      /\ \A p \in Queues : p # q => owned'[p] = owned[p]
  BY <1>1, <1>3, <1>5
<1>8. /\ buf' \in [Queues -> [Heads -> Nat]] /\ buf'[q][h] = n
      /\ \A g \in Heads : g # h => buf'[q][g] = buf[q][g]
      /\ \A p \in Queues : p # q => buf'[p] = buf[p]
  BY <1>1, <1>3
<1>9. OthersSame(q)
  BY <1>6, <1>7, <1>8 DEF OthersSame
<1>10. Accounted(queue'[q].last, ring'[q], lastUsed'[q], owned'[q])
  BY <1>4, <1>6, <1>7 DEF l, u
<1>11. ToServe(q)' = Append(ToServe(q), h) /\ ToTake(q)' = ToTake(q)
  BY <1>4, <1>6 DEF l, u, r, ToServe, ToTake
<1>12. /\ ReadyInv' /\ Ready' /\ (q # "tx" => TxFrames' = TxFrames) /\ (q # "rx" => RxFrames' = RxFrames)
  BY <1>9, <1>10, OneQueue
<1>13. ring'[q].usedIdx = ring[q].usedIdx
  BY <1>4, <1>6 DEF r
<1> QED BY <1>1, <1>6, <1>7, <1>8, <1>9, <1>11, <1>12, <1>13

\* The device hands its next chain back.
HandBack(q, h) ==
    /\ queue[q].last # ring[q].availIdx /\ h = NextHead(queue[q].last, ring[q])
    /\ ring' = [ring EXCEPT ![q] = PushUsed(@, h)]
    /\ queue' = [queue EXCEPT ![q].last = Bump(@)]

\* It was the oldest chain, and the driver has one more to collect.
LEMMA ServeFacts ==
    ASSUME IndInv, Ready, NEW q \in Queues, NEW h, HandBack(q, h),
           \A p \in Queues : p # q => buf'[p] = buf[p],
           UNCHANGED <<owned, lastUsed, irqStatus, irqpc>>
    PROVE  /\ ReadyInv' /\ Ready'
           /\ ring' \in [Queues -> Rings] /\ queue' \in [Queues -> [last : Indices, ready : BOOLEAN]]
           /\ h \in Heads /\ ToServe(q) # <<>> /\ h = Head(ToServe(q))
           /\ ToServe(q)' = Tail(ToServe(q)) /\ ToTake(q)' = Append(ToTake(q), h)
           /\ OthersSame(q)
           /\ q # "tx" => TxFrames' = TxFrames
           /\ q # "rx" => RxFrames' = RxFrames
<1> DEFINE r == ring[q]
           o == owned[q]
           l == queue[q].last
           u == lastUsed[q]
<1>1. /\ ring \in [Queues -> Rings] /\ queue \in [Queues -> [last : Indices, ready : BOOLEAN]]
  BY DEF IndInv, TypeOK
<1>2. Accounted(l, r, u, o) /\ l # r.availIdx /\ h = NextHead(l, r)
  BY ReadyFacts DEF HandBack
<1>3. ring' = [ring EXCEPT ![q] = PushUsed(r, h)] /\ queue' = [queue EXCEPT ![q].last = Bump(l)]
  BY DEF HandBack
<1> HIDE DEF r, o, l, u
<1>4. /\ h \in Heads /\ Unserved(l, r) # <<>> /\ h = Head(Unserved(l, r))
      /\ Accounted(Bump(l), PushUsed(r, h), u, o)
      /\ Unserved(Bump(l), PushUsed(r, h)) = Tail(Unserved(l, r))
      /\ Uncollected(u, PushUsed(r, h)) = Append(Uncollected(u, r), h)
  <2> DEFINE k == NextHead(l, r)
  <2>1. /\ k \in Heads /\ Unserved(l, r) # <<>> /\ k = Head(Unserved(l, r))
        /\ Accounted(Bump(l), PushUsed(r, k), u, o)
        /\ Unserved(Bump(l), PushUsed(r, k)) = Tail(Unserved(l, r))
        /\ Uncollected(u, PushUsed(r, k)) = Append(Uncollected(u, r), k)
    BY <1>2, AccountedServe
  <2>2. k = h
    BY <1>2
  <2> HIDE DEF k
  <2> QED BY <2>1, <2>2
<1>5. PushUsed(r, h) \in Rings /\ Bump(l) \in Indices
  BY <1>4 DEF Accounted
<1>6. ring' \in [Queues -> Rings] /\ ring'[q] = PushUsed(r, h) /\ \A p \in Queues : p # q => ring'[p] = ring[p]
  BY <1>1, <1>3, <1>5
<1>7. /\ queue' \in [Queues -> [last : Indices, ready : BOOLEAN]] /\ queue'[q].last = Bump(l)
      /\ \A p \in Queues : queue'[p].ready = queue[p].ready /\ (p # q => queue'[p] = queue[p])
  BY <1>1, <1>3, <1>5
<1>8. OthersSame(q)
  BY <1>6, <1>7 DEF OthersSame
<1>9. Accounted(queue'[q].last, ring'[q], lastUsed'[q], owned'[q])
  BY <1>4, <1>6, <1>7 DEF u, o
<1>10. ReadyInv' /\ Ready' /\ (q # "tx" => TxFrames' = TxFrames) /\ (q # "rx" => RxFrames' = RxFrames)
  BY <1>8, <1>9, OneQueue
<1>11. /\ ToServe(q) # <<>> /\ h = Head(ToServe(q))
       /\ ToServe(q)' = Tail(ToServe(q)) /\ ToTake(q)' = Append(ToTake(q), h)
  BY <1>4, <1>6, <1>7 DEF l, u, r, ToServe, ToTake
<1> QED BY <1>4, <1>6, <1>7, <1>8, <1>10, <1>11

-----------------------------------------------------------------------------
(***************************************************************************)
(* The steps that move a chain keep the invariant.                         *)
(***************************************************************************)
\* The driver sets the device up: the queues are empty.
LEMMA SetupInd == ASSUME IndInv, Setup PROVE IndInv'
<1>1. /\ ~Ready /\ mtx = "free" /\ irqpc = "idle"
      /\ queue' = [q \in Queues |-> [queue[q] EXCEPT !.ready = TRUE]]
      /\ ring' = [q \in Queues |-> NewRing] /\ owned' = [q \in Queues |-> Heads]
      /\ lastUsed' = [q \in Queues |-> 0] /\ buf' = [q \in Queues |-> [h \in Heads |-> 0]]
      /\ UNCHANGED <<mtx, pc, raised, txhead, rxpc, frame, rxQueue, stopRx, dtor, irqStatus, spi,
                     irqpc, txMade, rxMade, resets, handed, got>>
  BY DEF Setup, txVars, rxVars, countVars, Ready
<1>2. /\ queue \in [Queues -> [last : Indices, ready : BOOLEAN]]
      /\ \A q \in Queues : queue[q].last = 0
  BY <1>1 DEF IndInv, TypeOK, ReadyInv
<1>3. /\ queue' \in [Queues -> [last : Indices, ready : BOOLEAN]] /\ Ready'
      /\ \A q \in Queues : queue'[q].last = 0 /\ queue'[q].ready
  BY <1>1, <1>2 DEF Ready, Queues
<1>4. \A q \in Queues : ring'[q] = NewRing /\ lastUsed'[q] = 0 /\ owned'[q] = Heads
  BY <1>1
<1>5. NewRing \in Rings /\ 0 \in Indices
  BY NewRingFacts
<1>6. TypeOK'
  <2>1. ring' \in [Queues -> Rings] /\ lastUsed' \in [Queues -> Indices]
    BY <1>1, <1>5
  <2>2. owned' \in [Queues -> SUBSET Heads] /\ buf' \in [Queues -> [Heads -> Nat]]
    BY <1>1
  <2> QED BY <1>1, <1>3, <2>1, <2>2 DEF IndInv, TypeOK
<1>7. ~Serving /\ ~Serving'
  BY <1>1, FreeFacts DEF Serving
<1>8. LockInv'
  BY <1>1, <1>3, <1>7 DEF IndInv, LockInv
<1>9. ReadyInv'
  <2>1. \A q \in Queues : Accounted(queue'[q].last, ring'[q], lastUsed'[q], owned'[q])
    BY <1>3, <1>4, AccountedNew
  <2> QED BY <1>3, <2>1 DEF ReadyInv, Queues
<1>10. SignalInv'
  BY <1>4 DEF SignalInv, NewRing
<1>11. TxFrames' = <<>> /\ RxFrames' = <<>>
  <2>1. ToServe("tx")' = <<>> /\ ToTake("rx")' = <<>>
    BY <1>3, <1>4, NewRingFacts DEF ToServe, ToTake, Queues
  <2> QED BY <2>1 DEF TxFrames, RxFrames, Carry
<1>12. TxInv'
  <2>1. Increasing(<<>>) /\ UpTo(<<>>, txMade) /\ Before(handed, <<>>)
    BY OrderNext, FrameFacts
  <2> QED BY <1>1, <1>7, <1>11, <2>1 DEF IndInv, TxInv
<1>13. RxInv'
  <2>1. /\ Increasing(<<>>) /\ UpTo(<<>>, rxMade) /\ Before(got, <<>>)
        /\ Before(<<>>, InHand) /\ Before(<<>>, rxQueue)
    BY OrderNext, FrameFacts
  <2>2. InHand' = InHand
    BY <1>1 DEF InHand
  <2> QED BY <1>1, <1>11, <2>1, <2>2 DEF IndInv, RxInv
<1> QED BY <1>6, <1>8, <1>9, <1>10, <1>12, <1>13 DEF IndInv

\* An empty buffer is posted: nothing is said of the chains in the used ring.
LEMMA PostRxInd == ASSUME IndInv, NEW h \in Heads, PostRx(h) PROVE IndInv'
<1>1. /\ Ready /\ h \in owned["rx"] /\ Give("rx", h, 0) /\ "rx" \in Queues
      /\ UNCHANGED <<mtx, pc, raised, txhead, rxpc, frame, rxQueue, stopRx, dtor, queue, irqStatus,
                     spi, lastUsed, irqpc, txMade, rxMade, resets, handed, got>>
  BY DEF PostRx, Ready, txVars, rxVars, devVars, countVars, Queues
<1>2. /\ ReadyInv' /\ Ready' /\ ring' \in [Queues -> Rings] /\ owned' \in [Queues -> SUBSET Heads]
      /\ buf' \in [Queues -> [Heads -> Nat]]
      /\ ToTake("rx")' = ToTake("rx") /\ (\A g \in Heads : g # h => buf'["rx"][g] = buf["rx"][g])
      /\ ring'["rx"].usedIdx = ring["rx"].usedIdx /\ OthersSame("rx") /\ TxFrames' = TxFrames
  BY <1>1, GiveFacts
<1>3. RxFrames' = RxFrames
  <2> DEFINE c == ToTake("rx")
             f == buf'["rx"]
             g == buf["rx"]
  <2>1. c \in Seq(Heads) /\ \A i \in 1..Len(c) : c[i] \in Heads /\ c[i] # h
    BY <1>1, ReadyFacts
  <2>2. \A i \in 1..Len(c) : f[c[i]] = g[c[i]]
    BY <1>2, <2>1
  <2>3. RxFrames' = Carry(c, f) /\ RxFrames = Carry(c, g)
    BY <1>2 DEF RxFrames
  <2> HIDE DEF c, f, g
  <2> QED BY <2>1, <2>2, <2>3, CarrySame
<1>4. Serving' <=> Serving
  BY <1>1 DEF Serving
<1>5. ring'["tx"] = ring["tx"]
  BY <1>2 DEF OthersSame, Queues
<1>6. TypeOK'
  BY <1>1, <1>2 DEF IndInv, TypeOK
<1>7. LockInv'
  BY <1>1, <1>2, <1>4 DEF IndInv, LockInv
<1>8. SignalInv'
  BY <1>1, <1>2, <1>5 DEF IndInv, SignalInv, Queues
<1>9. TxInv'
  BY <1>1, <1>2, <1>4, <1>5, TxSame
<1>10. RxInv'
  <2>1. rxpc' = "feed" <=> frame' # 0
    BY <1>1 DEF IndInv, RxInv
  <2> QED BY <1>1, <1>3, <2>1, RxSame
<1> QED BY <1>2, <1>6, <1>7, <1>8, <1>9, <1>10 DEF IndInv

\* A TX frame is posted: it is newer than all, and the chain a vCPU is serving
\* remains the oldest.
LEMMA PostTxInd == ASSUME IndInv, NEW v \in Vcpus, NEW h \in Heads, PostTx(v, h) PROVE IndInv'
<1> DEFINE n == txMade + 1
           u == ToServe("tx")
           f == buf["tx"]
           g == buf'["tx"]
<1>1. /\ Ready /\ h \in owned["tx"] /\ Give("tx", h, n) /\ "tx" \in Queues /\ Goto(v, "kick")
      /\ pc[v] = "run" /\ txMade < MaxTx /\ txMade' = n
      /\ UNCHANGED <<mtx, raised, txhead, rxpc, frame, rxQueue, stopRx, dtor, queue, irqStatus,
                     spi, lastUsed, irqpc, rxMade, resets, handed, got>>
  BY DEF PostTx, Ready, txVars, rxVars, devVars, Queues, IndInv, ReadyInv
<1>2. n \in Nat /\ n \in 1..n /\ n \in 0..MaxTx /\ txMade \in Nat
  BY <1>1, NetAssumption DEF IndInv, TypeOK
<1> HIDE DEF n
<1>3. /\ ReadyInv' /\ Ready' /\ ring' \in [Queues -> Rings] /\ owned' \in [Queues -> SUBSET Heads]
      /\ buf' \in [Queues -> [Heads -> Nat]]
      /\ ToServe("tx")' = Append(u, h) /\ g[h] = n
      /\ (\A k \in Heads : k # h => g[k] = f[k])
      /\ ring'["tx"].usedIdx = ring["tx"].usedIdx /\ OthersSame("tx") /\ RxFrames' = RxFrames
  BY <1>1, <1>2, GiveFacts
<1>4. v \in Threads /\ \A w \in Vcpus : w \in Threads
  BY DEF Threads
<1>5. /\ pc' \in [Threads -> {"run", "kick", "tx", "enq", "used"}]
      /\ pc'[v] = "kick" /\ \A w \in Vcpus : w # v => pc'[w] = pc[w]
  BY <1>1, <1>4, GotoFacts
<1>6. Serving' <=> Serving
  BY <1>1, <1>5 DEF Serving
<1>7. ring'["rx"] = ring["rx"]
  BY <1>3 DEF OthersSame, Queues
<1>8. TypeOK'
  BY <1>1, <1>2, <1>3, <1>5 DEF IndInv, TypeOK
<1>9. LockInv'
  BY <1>1, <1>3, <1>5, <1>6 DEF IndInv, LockInv
<1>10. SignalInv'
  BY <1>1, <1>3, <1>7 DEF IndInv, SignalInv, Queues
<1>11. RxInv'
  <2>1. rxpc' = "feed" <=> frame' # 0
    BY <1>1 DEF IndInv, RxInv
  <2> QED BY <1>1, <1>3, <2>1, RxSame
<1>12. u \in Seq(Heads) /\ \A i \in 1..Len(u) : u[i] \in Heads /\ u[i] # h
  BY <1>1, ReadyFacts
<1>13. TxFrames' = Append(TxFrames, n)
  <2>1. \A i \in 1..Len(u) : g[u[i]] = f[u[i]]
    BY <1>3, <1>12
  <2>2. TxFrames' = Carry(Append(u, h), g) /\ TxFrames = Carry(u, f)
    BY <1>3 DEF TxFrames
  <2> HIDE DEF u, f, g
  <2>3. Carry(Append(u, h), g) = Append(Carry(u, g), g[h]) /\ Carry(u, g) = Carry(u, f)
    BY <1>12, <2>1, CarryAppend, CarrySame
  <2> QED BY <1>3, <2>2, <2>3
<1>14. TxFrames \in Seq(Nat) /\ handed \in Seq(Nat)
  BY <1>1, FrameFacts
<1>15. /\ UpTo(handed, n) /\ Before(handed, <<n>>) /\ UpTo(TxFrames, n) /\ Before(TxFrames, <<n>>)
  BY <1>1, <1>2, <1>14, OrderNext DEF IndInv, TxInv, n
<1>16. Increasing(Append(TxFrames, n)) /\ UpTo(Append(TxFrames, n), n)
  BY <1>1, <1>2, <1>14, <1>15, OrderAppend DEF IndInv, TxInv
<1>17. CASE ~Serving
  <2>1. Before(handed, TxFrames)
    BY <1>1, <1>17 DEF IndInv, TxInv
  <2>2. Before(handed, Append(TxFrames, n))
    BY <1>2, <1>14, <1>15, <2>1, OrderAppend
  <2>3. TxInv'
    BY <1>1, <1>6, <1>13, <1>15, <1>16, <1>17, <2>2 DEF IndInv, TxInv
  <2> QED BY <1>3, <1>8, <1>9, <1>10, <1>11, <2>3 DEF IndInv
<1>18. CASE Serving
  <2> DEFINE l == queue["tx"].last
             r == ring["tx"]
             s == ring'["tx"]
  <2>1. l # r.availIdx /\ txhead = NextHead(l, r) /\ Before(handed, Tail(TxFrames))
    BY <1>1, <1>18 DEF IndInv, TxInv
  <2>2. r \in Rings /\ s \in Rings /\ l \in Indices
    BY <1>1, <1>3 DEF IndInv, TypeOK
  <2>3. u = Unserved(l, r) /\ Append(u, h) = Unserved(l, s)
    BY <1>1, <1>3 DEF ToServe
  <2> HIDE DEF l, r, s, u
  <2>4. u # <<>> /\ txhead = Head(u)
    BY <2>1, <2>2, <2>3, ServeTakesHead
  <2>5. Append(u, h) # <<>> /\ Head(Append(u, h)) = Head(u)
    BY <1>12, <2>4
  <2>6. l # s.availIdx
    BY <2>2, <2>3, <2>5, QueueFacts
  <2>7. txhead = NextHead(l, s)
    BY <2>2, <2>3, <2>4, <2>5, <2>6, ServeTakesHead
  <2>8. TxFrames # <<>>
    <3>1. Carry(u, f) # <<>>
      <4> HIDE DEF f
      <4> QED BY <1>12, <2>4, CarryTail
    <3> QED BY <3>1 DEF TxFrames, u
  <2>9. Before(handed, Tail(Append(TxFrames, n)))
    <3>1. Tail(TxFrames) \in Seq(Nat) /\ Tail(Append(TxFrames, n)) = Append(Tail(TxFrames), n)
      BY <1>2, <1>14, <2>8, TailAppend
    <3>2. Before(handed, Append(Tail(TxFrames), n))
      BY <1>2, <1>14, <1>15, <2>1, <3>1, OrderAppend
    <3> QED BY <3>1, <3>2
  <2>10. TxInv'
    BY <1>1, <1>6, <1>13, <1>15, <1>16, <1>18, <2>6, <2>7, <2>9 DEF IndInv, TxInv, l, s
  <2> QED BY <1>3, <1>8, <1>9, <1>10, <1>11, <2>10 DEF IndInv
<1> QED BY <1>17, <1>18

\* A vCPU gives the oldest TX frame to guest_tx.
LEMMA TakeTxInd == ASSUME IndInv, NEW v \in Vcpus, TakeTx(v) PROVE IndInv'
<1> DEFINE h == NextHead(queue["tx"].last, ring["tx"])
           x == buf["tx"][h]
<1>1. /\ pc[v] = "tx" /\ queue["tx"].last # ring["tx"].availIdx /\ txhead' = h
      /\ handed' = Append(handed, x) /\ Goto(v, GuestTx(x))
      /\ UNCHANGED <<mtx, raised, rxpc, frame, rxQueue, stopRx, dtor, queue, irqStatus, spi, ring, buf,
                     owned, lastUsed, irqpc, txMade, rxMade, resets, got>>
  BY DEF TakeTx, rxVars, devVars, guestVars
<1>2. UNCHANGED queueVars
  BY <1>1 DEF queueVars
<1>3. Ready' = Ready /\ TxFrames' = TxFrames /\ RxFrames' = RxFrames
  BY <1>2, QueuesSame
<1>4. /\ mtx = v /\ Ready /\ ~Serving /\ rxpc \notin {"test", "block", "irq"}
      /\ \A w \in Vcpus : w # v => pc[w] \in {"run", "kick"}
  BY <1>1, HolderFacts
<1>5. v \in Threads /\ \A w \in Vcpus : w \in Threads
  BY DEF Threads
<1>6. GuestTx(x) \in {"enq", "used"}
  BY DEF GuestTx
<1>7. /\ pc' \in [Threads -> {"run", "kick", "tx", "enq", "used"}]
      /\ pc'[v] = GuestTx(x) /\ \A w \in Vcpus : w # v => pc'[w] = pc[w]
  BY <1>1, <1>5, <1>6, GotoFacts
<1>8. Serving'
  BY <1>6, <1>7 DEF Serving
<1>9. ToServe("tx") \in Seq(Heads) /\ ToServe("tx") # <<>> /\ h = Head(ToServe("tx")) /\ h \in Heads
  <2>1. Accounted(queue["tx"].last, ring["tx"], lastUsed["tx"], owned["tx"]) /\ ToServe("tx") \in Seq(Heads)
    BY <1>4, ReadyFacts DEF Queues
  <2>2. queue["tx"].last \in Indices /\ ring["tx"] \in Rings
    BY <2>1 DEF Accounted
  <2> QED BY <1>1, <2>1, <2>2, ServeTakesHead DEF ToServe
<1>10. TxFrames # <<>> /\ x = Head(TxFrames)
  <2> DEFINE s == ToServe("tx")
             f == buf["tx"]
  <2> HIDE DEF s, f, h
  <2>1. s \in Seq(Heads) /\ s # <<>> /\ h = Head(s)
    BY <1>9 DEF s
  <2>2. Carry(s, f) # <<>> /\ Head(Carry(s, f)) = f[h]
    BY <2>1, CarryTail
  <2> QED BY <2>2 DEF TxFrames, s, f
<1> HIDE DEF x
<1>11. TxFrames \in Seq(Nat) /\ handed \in Seq(Nat) /\ txMade \in Nat /\ txMade <= MaxTx /\ MaxTx \in Nat
  BY <1>4, FrameFacts, NetAssumption DEF IndInv, TypeOK
<1>12. Increasing(TxFrames) /\ UpTo(TxFrames, txMade) /\ Before(handed, TxFrames)
  BY <1>4 DEF IndInv, TxInv
<1>13. /\ x \in 1..txMade /\ x \in Nat /\ Before(<<x>>, Tail(TxFrames)) /\ Before(handed, <<x>>)
       /\ Before(handed, Tail(TxFrames)) /\ Tail(TxFrames) \in Seq(Nat)
  BY <1>10, <1>11, <1>12, OrderTail
<1>14. TypeOK'
  <2>1. x \in 1..MaxTx
    BY <1>11, <1>13
  <2>2. handed \in Seq(1..MaxTx)
    BY DEF IndInv, TypeOK
  <2>3. Append(handed, x) \in Seq(1..MaxTx)
    <3> DEFINE S == 1..MaxTx
    <3> HIDE DEF S
    <3>1. handed \in Seq(S) /\ x \in S
      BY <2>1, <2>2 DEF S
    <3>2. Append(handed, x) \in Seq(S)
      BY <3>1, AppendAt
    <3> QED BY <3>2 DEF S
  <2> QED BY <1>1, <1>7, <1>9, <2>3 DEF IndInv, TypeOK
<1>15. LockInv'
  BY <1>1, <1>3, <1>4, <1>6, <1>7 DEF IndInv, LockInv
<1>16. ReadyInv'
  BY <1>1, <1>2, ReadySame DEF IndInv, ReadyInv
<1>17. SignalInv'
  BY <1>1, <1>3 DEF IndInv, SignalInv
<1>18. TxInv'
  <2>1. /\ Increasing(Append(handed, x)) /\ UpTo(Append(handed, x), txMade)
        /\ Before(Append(handed, x), Tail(TxFrames))
    BY <1>11, <1>13, OrderAppend DEF IndInv, TxInv
  <2> QED BY <1>1, <1>3, <1>8, <1>12, <2>1 DEF TxInv
<1>19. RxInv'
  <2>1. rxpc' = "feed" <=> frame' # 0
    BY <1>1 DEF IndInv, RxInv
  <2> QED BY <1>1, <1>3, <2>1, RxSame
<1> QED BY <1>14, <1>15, <1>16, <1>17, <1>18, <1>19 DEF IndInv

\* The chain it came in goes back.
LEMMA FinishTxInd == ASSUME IndInv, NEW v \in Vcpus, FinishTx(v) PROVE IndInv'
<1>1. /\ pc[v] = "used" /\ raised' = TRUE /\ txhead' = 0 /\ Goto(v, "tx") /\ "tx" \in Queues
      /\ ring' = [ring EXCEPT !["tx"] = PushUsed(@, txhead)]
      /\ queue' = [queue EXCEPT !["tx"].last = Bump(@)]
      /\ UNCHANGED <<mtx, rxpc, frame, rxQueue, stopRx, dtor, irqStatus, spi, buf,
                     owned, lastUsed, irqpc, txMade, rxMade, resets, handed, got>>
  BY DEF FinishTx, rxVars, countVars, Queues
<1>2. /\ mtx = v /\ Ready /\ Serving /\ rxpc \notin {"test", "block", "irq"}
      /\ \A w \in Vcpus : w # v => pc[w] \in {"run", "kick"}
  BY <1>1, HolderFacts
<1>3. HandBack("tx", txhead)
  BY <1>1, <1>2 DEF HandBack, IndInv, TxInv
<1>4. /\ ReadyInv' /\ Ready'
      /\ ring' \in [Queues -> Rings] /\ queue' \in [Queues -> [last : Indices, ready : BOOLEAN]]
      /\ ToServe("tx") # <<>> /\ ToServe("tx")' = Tail(ToServe("tx"))
      /\ OthersSame("tx") /\ RxFrames' = RxFrames
  BY <1>1, <1>2, <1>3, ServeFacts
<1>5. v \in Threads /\ \A w \in Vcpus : w \in Threads
  BY DEF Threads
<1>6. /\ pc' \in [Threads -> {"run", "kick", "tx", "enq", "used"}]
      /\ pc'[v] = "tx" /\ \A w \in Vcpus : w # v => pc'[w] = pc[w]
  BY <1>1, <1>5, GotoFacts
<1>7. ~Serving'
  BY <1>2, <1>6 DEF Serving
<1>8. TxFrames # <<>> /\ TxFrames' = Tail(TxFrames)
  <2> DEFINE s == ToServe("tx")
             f == buf["tx"]
  <2>1. s \in Seq(Heads) /\ s # <<>>
    BY <1>1, <1>2, <1>4, ReadyFacts
  <2>2. TxFrames = Carry(s, f) /\ TxFrames' = Carry(Tail(s), f)
    BY <1>1, <1>4 DEF TxFrames
  <2> HIDE DEF s, f
  <2> QED BY <2>1, <2>2, CarryTail
<1>9. 0 \in Heads
  BY IndexFacts DEF Heads, Slots
<1>10. TypeOK'
  BY <1>1, <1>4, <1>6, <1>9 DEF IndInv, TypeOK
<1>11. LockInv'
  BY <1>1, <1>2, <1>4, <1>6, <1>7 DEF IndInv, LockInv
<1>12. SignalInv'
  BY <1>1 DEF SignalInv
<1>13. TxInv'
  <2>1. TxFrames \in Seq(Nat) /\ txMade \in Nat
    BY <1>2, FrameFacts
  <2>2. Increasing(Tail(TxFrames)) /\ UpTo(Tail(TxFrames), txMade) /\ Before(handed, Tail(TxFrames))
    BY <1>2, <1>8, <2>1, OrderTail DEF IndInv, TxInv
  <2> QED BY <1>1, <1>7, <1>8, <2>2 DEF IndInv, TxInv
<1>14. RxInv'
  <2>1. rxpc' = "feed" <=> frame' # 0
    BY <1>1 DEF IndInv, RxInv
  <2> QED BY <1>1, <1>2, <1>4, <2>1, RxSame
<1> QED BY <1>4, <1>10, <1>11, <1>12, <1>13, <1>14 DEF IndInv

\* The RX thread copies the frame in its hand into the next empty buffer.
LEMMA RxFeedInd == ASSUME IndInv, RxFeed PROVE IndInv'
<1> DEFINE h == NextHead(queue["rx"].last, ring["rx"])
           f == buf["rx"]
           g == buf'["rx"]
           c == ToTake("rx")
<1>1. /\ rxpc = "feed" /\ mtx = "free" /\ Ready /\ HandBack("rx", h) /\ "rx" \in Queues
      /\ buf' = [buf EXCEPT !["rx"][h] = frame] /\ mtx' = "rx" /\ rxpc' = "irq" /\ frame' = 0
      /\ UNCHANGED <<pc, raised, txhead, rxQueue, stopRx, dtor, irqStatus, spi,
                     owned, lastUsed, irqpc, txMade, rxMade, resets, handed, got>>
  BY DEF RxFeed, Ready, HandBack, txVars, countVars, Queues
<1>2. buf \in [Queues -> [Heads -> Nat]] /\ frame \in Nat /\ frame # 0
  BY <1>1 DEF IndInv, TypeOK, RxInv
<1>3. \A p \in Queues : p # "rx" => buf'[p] = buf[p]
  BY <1>1, <1>2
<1>4. /\ ReadyInv' /\ Ready' /\ h \in Heads
      /\ ring' \in [Queues -> Rings] /\ queue' \in [Queues -> [last : Indices, ready : BOOLEAN]]
      /\ ToServe("rx") # <<>> /\ h = Head(ToServe("rx")) /\ ToTake("rx")' = Append(c, h)
      /\ OthersSame("rx") /\ TxFrames' = TxFrames
  BY <1>1, <1>3, ServeFacts
<1> HIDE DEF h
<1>5. /\ buf' \in [Queues -> [Heads -> Nat]] /\ g[h] = frame
      /\ \A k \in Heads : k # h => g[k] = f[k]
  BY <1>1, <1>2, <1>4
<1>6. c \in Seq(Heads) /\ \A i \in 1..Len(c) : c[i] \in Heads /\ c[i] # h
  <2>1. ToServe("rx") \in Seq(Heads) /\ h = ToServe("rx")[1] /\ 1 \in 1..Len(ToServe("rx"))
    BY <1>1, <1>4, ReadyFacts
  <2> QED BY <1>1, <2>1, ReadyFacts
<1>7. RxFrames' = Append(RxFrames, frame)
  <2>1. \A i \in 1..Len(c) : g[c[i]] = f[c[i]]
    BY <1>5, <1>6
  <2>2. RxFrames' = Carry(Append(c, h), g) /\ RxFrames = Carry(c, f)
    BY <1>4 DEF RxFrames
  <2> HIDE DEF c, f, g
  <2>3. Carry(Append(c, h), g) = Append(Carry(c, g), g[h]) /\ Carry(c, g) = Carry(c, f)
    BY <1>4, <1>6, <2>1, CarryAppend, CarrySame
  <2> QED BY <1>5, <2>2, <2>3
<1>8. /\ ~Serving /\ ~Serving' /\ ~raised
      /\ \A v \in Vcpus : pc[v] \in {"run", "kick"} /\ v \notin {"free", "rx"}
  BY <1>1, FreeFacts, NetAssumption DEF Serving
<1>9. TypeOK'
  BY <1>1, <1>4, <1>5 DEF IndInv, TypeOK
<1>10. LockInv'
  BY <1>1, <1>4, <1>8 DEF LockInv
<1>11. SignalInv'
  BY <1>1 DEF SignalInv
<1>12. TxInv'
  <2>1. queue'["tx"].last = queue["tx"].last /\ ring'["tx"] = ring["tx"]
    BY <1>4 DEF OthersSame, Queues
  <2> QED BY <1>1, <1>4, <1>8, <2>1, TxSame
<1>13. RxInv'
  <2>1. InHand = <<frame>> /\ InHand' = <<>>
    BY <1>1, <1>2 DEF InHand
  <2>2. RxFrames \in Seq(Nat) /\ got \in Seq(Nat) /\ rxQueue \in Seq(Nat) /\ rxMade \in Nat
    BY <1>1, FrameFacts
  <2>3. /\ Increasing(RxFrames) /\ UpTo(RxFrames, rxMade) /\ UpTo(<<frame>>, rxMade)
        /\ Before(got, RxFrames) /\ Before(got, <<frame>>) /\ Before(RxFrames, <<frame>>)
        /\ Before(RxFrames, rxQueue) /\ Before(<<frame>>, rxQueue)
    BY <1>1, <2>1 DEF IndInv, RxInv
  <2>4. frame \in 1..rxMade
    <3>1. Len(<<frame>>) = 1 /\ <<frame>>[1] = frame /\ 1 \in 1..1
      OBVIOUS
    <3> QED BY <2>3, <3>1 DEF UpTo
  <2> DEFINE s == RxFrames
             t == Append(s, frame)
  <2>5. /\ t \in Seq(Nat) /\ Increasing(t) /\ UpTo(t, rxMade) /\ Before(got, t) /\ Before(t, rxQueue)
    <3> HIDE DEF s
    <3>1. s \in Seq(Nat) /\ Increasing(s) /\ UpTo(s, rxMade) /\ Before(got, s) /\ Before(s, <<frame>>)
          /\ Before(s, rxQueue)
      BY <2>2, <2>3 DEF s
    <3> QED BY <1>2, <2>2, <2>3, <2>4, <3>1, OrderAppend
  <2> HIDE DEF t
  <2>6. /\ UpTo(<<>>, rxMade) /\ Before(got, <<>>) /\ Before(<<>>, rxQueue) /\ Before(t, <<>>)
    BY <2>2, <2>5, OrderNext
  <2>7. RxFrames' = t
    BY <1>7 DEF t
  <2> QED BY <1>1, <2>1, <2>5, <2>6, <2>7 DEF IndInv, RxInv
<1> QED BY <1>4, <1>9, <1>10, <1>11, <1>12, <1>13 DEF IndInv

\* The driver collects a chain: an RX chain holds the oldest frame it has not
\* seen, and a TX chain is not one still to be served.
LEMMA CollectInd == ASSUME IndInv, NEW q \in Queues, Collect(q) PROVE IndInv'
<1> DEFINE h == ring[q].used[lastUsed[q] % QSize]
           u == ToServe("tx")
           c == ToTake(q)
           f == buf[q]
           g == buf'[q]
<1>1. /\ irqpc = "collect" /\ lastUsed[q] # ring[q].usedIdx
      /\ owned' = [owned EXCEPT ![q] = @ \cup {h}] /\ buf' = [buf EXCEPT ![q][h] = 0]
      /\ lastUsed' = [lastUsed EXCEPT ![q] = Bump(@)]
      /\ got' = IF q = "rx" THEN Append(got, f[h]) ELSE got
      /\ UNCHANGED <<mtx, pc, raised, txhead, rxpc, frame, rxQueue, stopRx, dtor, queue, irqStatus,
                     spi, ring, irqpc, txMade, rxMade, resets, handed>>
  BY DEF Collect, txVars, rxVars, devVars
<1>2. Ready /\ (Serving' <=> Serving)
  BY <1>1 DEF IndInv, ReadyInv, Serving
<1>3. /\ h \in Heads /\ c # <<>> /\ h = Head(c)
      /\ Accounted(queue[q].last, ring[q], Bump(lastUsed[q]), owned[q] \cup {h})
      /\ Uncollected(Bump(lastUsed[q]), ring[q]) = Tail(c)
  <2> DEFINE r == ring[q]
             o == owned[q]
             l == queue[q].last
             d == lastUsed[q]
  <2>1. Accounted(l, r, d, o) /\ d # r.usedIdx
    BY <1>1, <1>2, ReadyFacts
  <2>2. h = r.used[d % QSize] /\ c = Uncollected(d, r)
    BY DEF ToTake
  <2> HIDE DEF r, o, l, d
  <2>3. /\ r.used[d % QSize] \in Heads /\ Uncollected(d, r) # <<>>
        /\ r.used[d % QSize] = Head(Uncollected(d, r))
        /\ Accounted(l, r, Bump(d), o \cup {r.used[d % QSize]})
        /\ Uncollected(Bump(d), r) = Tail(Uncollected(d, r))
    BY <2>1, AccountedCollect
  <2> QED BY <2>2, <2>3 DEF r, o, l, d
<1> HIDE DEF h
<1>4. /\ owned \in [Queues -> SUBSET Heads] /\ buf \in [Queues -> [Heads -> Nat]]
      /\ lastUsed \in [Queues -> Indices]
  BY DEF IndInv, TypeOK
<1>5. Bump(lastUsed[q]) \in Indices
  BY <1>3 DEF Accounted
<1>6. /\ owned' \in [Queues -> SUBSET Heads] /\ owned'[q] = owned[q] \cup {h}
      /\ \A p \in Queues : p # q => owned'[p] = owned[p]
  BY <1>1, <1>3, <1>4
<1>7. /\ lastUsed' \in [Queues -> Indices] /\ lastUsed'[q] = Bump(lastUsed[q])
      /\ \A p \in Queues : p # q => lastUsed'[p] = lastUsed[p]
  BY <1>1, <1>4, <1>5
<1>8. /\ buf' \in [Queues -> [Heads -> Nat]] /\ (\A k \in Heads : k # h => g[k] = f[k])
      /\ \A p \in Queues : p # q => buf'[p] = buf[p]
  BY <1>1, <1>3, <1>4
<1>9. OthersSame(q)
  BY <1>1, <1>6, <1>7, <1>8 DEF OthersSame
<1>10. Accounted(queue'[q].last, ring'[q], lastUsed'[q], owned'[q])
  BY <1>1, <1>3, <1>6, <1>7
<1>11. ReadyInv' /\ Ready' /\ (q # "tx" => TxFrames' = TxFrames) /\ (q # "rx" => RxFrames' = RxFrames)
  BY <1>1, <1>2, <1>9, <1>10, OneQueue
<1>12. TxFrames' = TxFrames
  <2>1. CASE q = "tx"
    <3>1. /\ u \in Seq(Heads) /\ c \in Seq(Heads) /\ 1 \in 1..Len(c) /\ h = c[1]
          /\ \A i \in 1..Len(u) : u[i] \in Heads
      BY <1>2, <1>3, <2>1, ReadyFacts
    <3>2. \A i \in 1..Len(u) : u[i] # h
      BY <1>2, <2>1, <3>1, ReadyFacts
    <3>3. \A i \in 1..Len(u) : g[u[i]] = f[u[i]]
      BY <1>8, <3>1, <3>2
    <3>4. TxFrames' = Carry(u, g) /\ TxFrames = Carry(u, f)
      BY <1>1, <2>1 DEF TxFrames, ToServe
    <3> HIDE DEF u, f, g, c
    <3> QED BY <3>1, <3>3, <3>4, CarrySame
  <2> QED BY <1>11, <2>1
<1>13. ring'["tx"] = ring["tx"] /\ queue'["tx"].last = queue["tx"].last
  BY <1>1
<1>14. TxInv'
  BY <1>1, <1>2, <1>11, <1>12, <1>13, TxSame
<1>15. LockInv'
  BY <1>1, <1>2, <1>11 DEF IndInv, LockInv
<1>16. SignalInv'
  BY <1>1 DEF SignalInv
<1>17. CASE q # "rx"
  <2>1. rxpc' = "feed" <=> frame' # 0
    BY <1>1 DEF IndInv, RxInv
  <2>2. got' = got
    BY <1>1, <1>17
  <2>3. RxInv'
    BY <1>1, <1>2, <1>11, <1>17, <2>1, <2>2, RxSame
  <2>4. TypeOK'
    BY <1>1, <1>6, <1>7, <1>8, <2>2 DEF IndInv, TypeOK
  <2> QED BY <1>11, <1>14, <1>15, <1>16, <2>3, <2>4 DEF IndInv
<1>18. CASE q = "rx"
  <2> DEFINE x == f[h]
  <2>1. /\ c \in Seq(Heads) /\ \A i \in 1..Len(c) : c[i] \in Heads
        /\ \A i, j \in 1..Len(c) : c[i] = c[j] => i = j
    BY <1>2, ReadyFacts
  <2>2. /\ Tail(c) \in Seq(Heads) /\ Len(Tail(c)) = Len(c) - 1 /\ Len(c) \in Nat \ {0} /\ h = c[1]
        /\ \A i \in 1..(Len(c) - 1) : Tail(c)[i] = c[i + 1]
    <3> HIDE DEF c
    <3> QED BY <1>3, <2>1, TailAt
  <2>3. ASSUME NEW i \in 1..Len(Tail(c)) PROVE g[Tail(c)[i]] = f[Tail(c)[i]]
    <3>1. 1 \in 1..Len(c) /\ i + 1 \in 1..Len(c) /\ i + 1 # 1 /\ Tail(c)[i] = c[i + 1]
      BY <2>2
    <3>2. c[i + 1] \in Heads /\ c[i + 1] # h
      BY <2>1, <2>2, <3>1
    <3> QED BY <1>8, <3>1, <3>2
  <2>4. RxFrames = Carry(c, f) /\ RxFrames' = Carry(Tail(c), g)
    BY <1>1, <1>3, <1>7, <1>18 DEF RxFrames, ToTake
  <2>5. RxFrames # <<>> /\ x = Head(RxFrames) /\ RxFrames' = Tail(RxFrames)
    <3> DEFINE d == Tail(c)
    <3>1. d \in Seq(Heads) /\ \A i \in 1..Len(d) : g[d[i]] = f[d[i]]
      BY <2>2, <2>3
    <3> HIDE DEF c, f, g
    <3>2. Carry(c, f) # <<>> /\ Head(Carry(c, f)) = f[Head(c)] /\ Carry(d, f) = Tail(Carry(c, f))
      BY <1>3, <2>1, CarryTail
    <3> HIDE DEF d
    <3>3. Carry(d, g) = Carry(d, f)
      BY <3>1, CarrySame
    <3> QED BY <1>3, <2>4, <3>2, <3>3 DEF d
  <2> HIDE DEF x
  <2>6. /\ RxFrames \in Seq(Nat) /\ got \in Seq(Nat) /\ rxQueue \in Seq(Nat) /\ InHand \in Seq(Nat)
        /\ rxMade \in Nat
    BY <1>2, FrameFacts
  <2>7. /\ Increasing(RxFrames) /\ UpTo(RxFrames, rxMade) /\ Before(got, RxFrames)
        /\ Before(RxFrames, InHand) /\ Before(RxFrames, rxQueue)
        /\ Increasing(got) /\ UpTo(got, rxMade) /\ Before(got, InHand) /\ Before(got, rxQueue)
    BY <1>2 DEF IndInv, RxInv
  <2> DEFINE s == RxFrames
             t == Tail(s)
             a == Append(got, x)
  <2>8. /\ t \in Seq(Nat) /\ x \in Nat /\ x \in 1..rxMade /\ Increasing(t) /\ UpTo(t, rxMade)
        /\ Before(<<x>>, t) /\ Before(<<x>>, InHand) /\ Before(<<x>>, rxQueue) /\ Before(got, <<x>>)
        /\ Before(got, t) /\ Before(t, InHand) /\ Before(t, rxQueue)
    BY <2>5, <2>6, <2>7, OrderTail
  <2> HIDE DEF t
  <2>9. /\ Increasing(a) /\ UpTo(a, rxMade) /\ Before(a, t) /\ Before(a, InHand) /\ Before(a, rxQueue)
    BY <2>6, <2>7, <2>8, OrderAppend
  <2>10. got' = a /\ RxFrames' = t
    BY <1>1, <1>18, <2>5 DEF x, t
  <2>11. InHand' = InHand
    BY <1>1 DEF InHand
  <2>12. a \in Seq(Nat \ {0})
    <3> DEFINE S == Nat \ {0}
    <3>1. got \in Seq(S) /\ x \in S
      BY <2>8 DEF IndInv, TypeOK
    <3> HIDE DEF S
    <3>2. Append(got, x) \in Seq(S)
      BY <3>1, AppendAt
    <3> QED BY <3>2 DEF S
  <2> HIDE DEF a
  <2>13. TypeOK'
    BY <1>1, <1>6, <1>7, <1>8, <2>10, <2>12 DEF IndInv, TypeOK
  <2>14. RxInv'
    BY <1>1, <2>8, <2>9, <2>10, <2>11 DEF IndInv, RxInv
  <2> QED BY <1>11, <1>14, <1>15, <1>16, <2>13, <2>14 DEF IndInv
<1> QED BY <1>17, <1>18

\* A reset forgets the queues.
LEMMA ResetInd == ASSUME IndInv, Reset PROVE IndInv'
<1>1. /\ mtx = "free" /\ resets < MaxReset /\ irqpc = "idle" /\ queue' = [q \in Queues |-> NewQueue]
      /\ irqStatus' = 0 /\ resets' = resets + 1
      /\ UNCHANGED <<mtx, pc, raised, txhead, rxpc, frame, rxQueue, stopRx, dtor, spi, ring, buf,
                     owned, lastUsed, irqpc, txMade, rxMade, handed, got>>
  BY DEF Reset, txVars, rxVars, guestVars
<1>2. resets' \in 0..MaxReset
  BY <1>1, NetAssumption DEF IndInv, TypeOK
<1>3. queue' \in [Queues -> [last : Indices, ready : BOOLEAN]]
  BY <1>1, IndexFacts DEF NewQueue
<1>4. ~Ready' /\ \A q \in Queues : queue'[q] = NewQueue
  BY <1>1 DEF Ready, NewQueue, Queues
<1>5. ~Serving /\ ~Serving' /\ ~raised /\ mtx \notin Vcpus
  BY <1>1, FreeFacts DEF Serving
<1>6. TypeOK'
  BY <1>1, <1>2, <1>3 DEF IndInv, TypeOK
<1>7. LockInv'
  <2>1. rxpc # "irq"
    BY <1>1 DEF IndInv, LockInv
  <2> QED BY <1>1, <1>5, <2>1 DEF IndInv, LockInv
<1>8. ReadyInv' /\ SignalInv'
  BY <1>1, <1>4 DEF ReadyInv, SignalInv, NewQueue, Queues, Ready
<1>9. TxInv'
  BY <1>1, <1>4, <1>5 DEF IndInv, TxInv
<1>10. RxInv'
  <2>1. rxpc' = "feed" <=> frame' # 0
    BY <1>1 DEF IndInv, RxInv
  <2> QED BY <1>1, <1>4, <2>1, RxSame
<1> QED BY <1>6, <1>7, <1>8, <1>9, <1>10 DEF IndInv

\* Every step keeps the invariant.
LEMMA NextInd == ASSUME IndInv, [Next]_vars PROVE IndInv'
<1>1. CASE UNCHANGED vars
  <2>1. /\ UNCHANGED <<mtx, pc, raised, txhead, rxpc, frame, rxQueue, stopRx, dtor, queue, irqStatus,
                       spi, ring, buf, owned, lastUsed, irqpc, txMade, rxMade, resets, handed, got>>
    BY <1>1 DEF vars, txVars, rxVars, devVars, guestVars, countVars
  <2>2. UNCHANGED queueVars
    BY <2>1 DEF queueVars
  <2>3. Ready' = Ready /\ TxFrames' = TxFrames /\ RxFrames' = RxFrames /\ (Serving' <=> Serving)
    BY <2>1, <2>2, QueuesSame DEF Serving
  <2>4. TypeOK' /\ LockInv'
    BY <2>1, <2>3 DEF IndInv, TypeOK, LockInv
  <2>5. ReadyInv' /\ SignalInv'
    BY <2>1, <2>2, <2>3, ReadySame DEF IndInv, ReadyInv, SignalInv
  <2>6. TxInv'
    BY <2>1, <2>3, TxSame
  <2>7. RxInv'
    <3>1. rxpc' = "feed" <=> frame' # 0
      BY <2>1 DEF IndInv, RxInv
    <3> QED BY <2>1, <2>3, <3>1, RxSame
  <2> QED BY <2>4, <2>5, <2>6, <2>7 DEF IndInv
<1>2. CASE Next
  BY <1>2, SetupInd, PostRxInd, PostTxInd, HandlerInd, CollectInd, ResetInd, LoopInd, TakeTxInd,
     FinishTxInd, EnqueueInd, PopInd, RxFeedInd, RxQuietInd
     DEF Next, Driver, Registers, ProcessTx, RxFlush, DestroyNet
<1> QED BY <1>1, <1>2

\* The invariant holds throughout.
LEMMA Invariance == Spec => []IndInv
<1>1. IndInv /\ [Next]_vars => IndInv'
  BY NextInd
<1> QED BY <1>1, InitInd, PTL DEF Spec

-----------------------------------------------------------------------------
(***************************************************************************)
(* Queues laid end to end.                                                 *)
(***************************************************************************)
\* A chain the driver has is not in the line, every other is in it once.
OneEach(line, o) ==
    \A h \in Heads :
        IF h \in o
        THEN \A i \in 1..Len(line) : line[i] # h
        ELSE \E i \in 1..Len(line) : \A j \in 1..Len(line) : line[j] = h <=> i = j

\* This is what the partition of the chains amounts to.
LEMMA PartitionLine ==
    ASSUME NEW u, NEW c, NEW o, Partition(u, c, o) PROVE OneEach(u \o c, o)
<1> DEFINE s == u \o c
<1>1. u \in Seq(Heads) /\ c \in Seq(Heads) /\ Apart(u, c, o) /\ Somewhere(u, c, o)
  BY DEF Partition
<1>2. Len(u) \in Nat /\ Len(c) \in Nat /\ Len(s) = Len(u) + Len(c)
  BY <1>1
<1>3. /\ \A i \in 1..Len(u) : s[i] = u[i]
      /\ \A j \in 1..Len(c) : s[Len(u) + j] = c[j]
  BY <1>1
<1> HIDE DEF s
<1>4. \A i \in 1..Len(s) : \/ i \in 1..Len(u) /\ s[i] = u[i]
                           \/ \E j \in 1..Len(c) : i = Len(u) + j /\ s[i] = c[j]
  <2> TAKE i \in 1..Len(s)
  <2>1. CASE i \in 1..Len(u)
    BY <1>3, <2>1
  <2>2. CASE i \notin 1..Len(u)
    <3>1. i - Len(u) \in 1..Len(c) /\ i = Len(u) + (i - Len(u))
      BY <1>2, <2>2
    <3> QED BY <1>3, <3>1
  <2> QED BY <2>1, <2>2
<1>5. ASSUME NEW i \in 1..Len(s), NEW j \in 1..Len(s), s[i] = s[j] PROVE i = j
  <2>1. CASE i \in 1..Len(u) /\ s[i] = u[i]
    <3>1. \A k \in 1..Len(c) : u[i] # c[k]
      BY <1>1, <2>1 DEF Apart
    <3>2. j \in 1..Len(u) /\ s[j] = u[j]
      BY <1>4, <1>5, <2>1, <3>1
    <3> QED BY <1>1, <1>5, <2>1, <3>2 DEF Apart
  <2>2. CASE \E k \in 1..Len(c) : i = Len(u) + k /\ s[i] = c[k]
    <3>1. PICK k \in 1..Len(c) : i = Len(u) + k /\ s[i] = c[k]
      BY <2>2
    <3>2. \A m \in 1..Len(u) : u[m] # c[k]
      BY <1>1 DEF Apart
    <3>3. PICK m \in 1..Len(c) : j = Len(u) + m /\ s[j] = c[m]
      BY <1>4, <1>5, <3>1, <3>2
    <3>4. k = m
      BY <1>1, <1>5, <3>1, <3>3 DEF Apart
    <3> QED BY <3>1, <3>3, <3>4
  <2> QED BY <1>4, <2>1, <2>2
<1>6. ASSUME NEW h \in Heads, h \in o, NEW i \in 1..Len(s) PROVE s[i] # h
  <2>1. (\A k \in 1..Len(u) : u[k] # h) /\ (\A k \in 1..Len(c) : c[k] # h)
    BY <1>1, <1>6 DEF Apart
  <2> QED BY <1>4, <2>1
<1>7. ASSUME NEW h \in Heads, h \notin o PROVE \E i \in 1..Len(s) : s[i] = h
  <2>1. CASE \E i \in 1..Len(u) : u[i] = h
    <3>1. \A i \in 1..Len(u) : i \in 1..Len(s)
      BY <1>2
    <3> QED BY <1>3, <2>1, <3>1
  <2>2. CASE \E j \in 1..Len(c) : c[j] = h
    <3>1. \A j \in 1..Len(c) : Len(u) + j \in 1..Len(s)
      BY <1>2
    <3> QED BY <1>3, <2>2, <3>1
  <2> QED BY <1>1, <1>7, <2>1, <2>2 DEF Somewhere
<1>8. OneEach(s, o)
  <2> SUFFICES ASSUME NEW h \in Heads, h \notin o
               PROVE  \E i \in 1..Len(s) : \A j \in 1..Len(s) : s[j] = h <=> i = j
    BY <1>6 DEF OneEach
  <2>1. PICK i \in 1..Len(s) : s[i] = h
    BY <1>7
  <2>2. \A j \in 1..Len(s) : s[j] = h <=> i = j
    BY <1>5, <2>1
  <2> QED BY <2>2
<1> QED BY <1>8 DEF s

-----------------------------------------------------------------------------
\* Every variable of the device, its threads and its driver stays in its type.
THEOREM Typing == Spec => []TypeOK
<1>1. IndInv => TypeOK
  BY DEF IndInv
<1> QED BY <1>1, Invariance, PTL

\* The stack is handed the TX frames, and the driver receives the RX frames, at
\* most once each and in order, whichever threads notify, answer, send and
\* flush, and across resets.
THEOREM Ordering == Spec => []InOrder
<1>1. IndInv => InOrder
  BY DEF IndInv, TxInv, RxInv, InOrder
<1> QED BY <1>1, Invariance, PTL

\* A chain of a ready queue is in exactly one place, at any ring size.
THEOREM Accounting == Spec => []ChainsAccounted
<1>1. ASSUME IndInv PROVE ChainsAccounted
  <2> SUFFICES ASSUME NEW q \in Queues, Ready, NEW h \in Heads
               PROVE  LET line == ToServe(q) \o ToTake(q)
                      IN IF h \in owned[q]
                         THEN \A i \in 1..Len(line) : line[i] # h
                         ELSE \E i \in 1..Len(line) : \A j \in 1..Len(line) : line[j] = h <=> i = j
    BY <1>1 DEF ChainsAccounted, ToServe, ToTake, Ready, Queues, IndInv, ReadyInv
  <2> DEFINE u == ToServe(q)
             c == ToTake(q)
             o == owned[q]
             line == u \o c
  <2>1. Partition(u, c, o)
    BY <1>1, ReadyFacts DEF Accounted, ToServe, ToTake
  <2> HIDE DEF u, c, o
  <2>2. OneEach(line, o)
    BY <2>1, PartitionLine
  <2> QED BY <2>2 DEF OneEach, u, c, o
<1> QED BY <1>1, Invariance, PTL

\* No interrupt is lost between the two paths that raise it and the handler
\* that reads, acknowledges and collects.
THEOREM Signalling == Spec => []UsedIsSignalled
<1>1. ASSUME IndInv PROVE UsedIsSignalled
  <2> SUFFICES ASSUME NEW q \in Queues, queue[q].ready, lastUsed[q] # ring[q].usedIdx,
                      irqpc = "idle", mtx = "free"
               PROVE  spi /\ irqStatus = 1
    BY DEF UsedIsSignalled
  <2>1. Ready /\ ~raised /\ rxpc # "irq"
    BY <1>1, FreeFacts DEF IndInv, ReadyInv, LockInv, Ready, Queues
  <2> QED BY <1>1, <2>1 DEF IndInv, SignalInv
<1> QED BY <1>1, Invariance, PTL
=============================================================================
