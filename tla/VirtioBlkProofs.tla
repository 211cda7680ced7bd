--------------------------- MODULE VirtioBlkProofs ---------------------------
(***************************************************************************)
(* Proofs about VirtioBlk, for any number of vCPUs, any ring size and      *)
(* index width, and any set of requests.                                   *)
(***************************************************************************)
EXTENDS VirtioBlk, VirtqueueProofs

(***************************************************************************)
(* The inductive invariant.                                                *)
(***************************************************************************)
Working == \E v \in Vcpus : pc[v] = "io"

\* mtx_ is held by the one vCPU that is inside process_rq.
LockInv ==
    /\ \A v \in Vcpus : pc[v] \in {"scan", "io", "end"} <=> mtx = v
    /\ mtx # "free" => ready
    /\ raised => mtx # "free"

\* After a reset the queue starts again at 0 and the handler has nothing to do.
ReadyInv ==
    /\ ~ready => last = 0
    /\ irqStatus = 1 \/ irqpc \in {"ack", "collect"} => ready
    /\ ready => Accounted(last, ring, lastUsed, owned)

\* An answer the driver has not collected is about to be collected, about to
\* be signalled by the holder of mtx_, or has been signalled.
SignalInv ==
    ready /\ lastUsed # ring.usedIdx =>
        \/ irqpc = "collect" \/ raised
        \/ irqStatus = 1 /\ (spi \/ irqpc \in {"read", "ack"})

\* The blocks of the first n transfers of request r.
Touched(r, n) == {r.start + i - 1 : i \in 1..n}

\* What n transfers of request r have done to the data buffers and to the image
\* that was bf before, and the status so far; those in `failed` failed and those
\* in `short` were incomplete.
Outcome(r, n, failed, short, data, st, dk, bf) ==
    /\ r.type = "IN" =>
         /\ data = [i \in 1..n |-> IF r.start + i - 1 \in failed \cup short
                                    THEN "stale" ELSE bf[r.start + i - 1]]
         /\ dk = bf /\ (st = IF failed = {} THEN "OK" ELSE "IOERR")
    /\ r.type = "OUT" =>
         /\ dk = [b \in Blocks |-> IF b \in short THEN "torn"
                                   ELSE IF b \in Touched(r, n) \ failed THEN r.val ELSE bf[b]]
         /\ data = <<>> /\ (st = IF failed = {} THEN "OK" ELSE "IOERR")
    /\ r.type = "OTHER" =>
         /\ dk = bf /\ data = <<>>
         /\ (st = IF n = 0 THEN "OK" ELSE "UNSUPP")
    /\ r.type \in {"FLUSH", "GET_ID"} =>
         dk = bf /\ data = <<>> /\ st = "OK" /\ n = r.n
Work(r, n, data, st, dk, bf) ==
    \E short \in SUBSET (Touched(r, n) \cap Short) :
    \E failed \in SUBSET (Touched(r, n) \ short) :
        Outcome(r, n, failed, short, data, st, dk, bf)

\* The chain a vCPU works on is the oldest unserved one.
RequestInv ==
    Working =>
        /\ last # ring.availIdx /\ head = NextHead(last, ring)
        /\ chain[head].type # "BAD" /\ seg <= chain[head].n
        /\ skip <= chain[head].skipped
        /\ Work(chain[head], seg, answer[head].data, status, disk, before)

\* A chain that waits to be served has no answer yet.
FreshInv ==
    ready => \A i \in 1..Len(Unserveds) :
        answer[Unserveds[i]] = NoAnswer \/ (i = 1 /\ Working)

IndInv == TypeOK /\ LockInv /\ ReadyInv /\ SignalInv /\ RequestInv /\ FreshInv

-----------------------------------------------------------------------------
(***************************************************************************)
(* What the transfers of one request add up to.                            *)
(***************************************************************************)
Data == Seq(Contents \cup {"stale"})

\* A request has a start, a length and a value, and its blocks are Blocks.
LEMMA RequestFacts ==
    ASSUME NEW r \in Requests
    PROVE  /\ r.type \in Types /\ r.val \in Values /\ r.start \in Nat /\ r.n \in Nat
           /\ r.skipped \in Nat
           /\ \A n \in Nat : n < r.n => r.start + n \in Blocks
<1>1. r.type \in Types /\ r.val \in Values /\ r.start \in Nat /\ r.n \in Nat /\ r.skipped \in Nat
  BY BlkAssumption
<1>2. ASSUME NEW n \in Nat, n < r.n PROVE r.start + n \in Blocks
  <2>1. n + 1 \in 1..r.n /\ r.start + (n + 1) - 1 = r.start + n
    BY <1>1, <1>2
  <2> QED BY <2>1 DEF Blocks
<1> QED BY <1>1, <1>2

\* The next transfer touches one more block, a new one.
LEMMA TouchedNext ==
    ASSUME NEW r \in Requests, NEW n \in Nat
    PROVE  /\ Touched(r, n + 1) = Touched(r, n) \cup {r.start + n}
           /\ r.start + n \notin Touched(r, n) /\ Touched(r, 0) = {}
<1>1. r.start \in Nat
  BY RequestFacts
<1>2. \A i \in 1..(n + 1) : i \in 1..n \/ i = n + 1
  OBVIOUS
<1>3. n + 1 \in 1..(n + 1) /\ r.start + (n + 1) - 1 = r.start + n /\ \A i \in 1..n : i \in 1..(n + 1)
  BY <1>1
<1>4. Touched(r, n + 1) = Touched(r, n) \cup {r.start + n}
  BY <1>2, <1>3 DEF Touched
<1>5. \A i \in 1..n : r.start + i - 1 # r.start + n
  BY <1>1
<1> QED BY <1>4, <1>5 DEF Touched

\* A request that has just been taken has done nothing.
LEMMA WorkTaken ==
    ASSUME NEW r \in Requests, r.type # "BAD", NEW dk \in [Blocks -> Contents],
           NEW n \in Nat, n = IF r.type \in {"FLUSH", "GET_ID"} THEN r.n ELSE 0
    PROVE  Work(r, n, <<>>, "OK", dk, dk)
<1>1. Outcome(r, n, {}, {}, <<>>, "OK", dk, dk)
  <2>1. CASE r.type = "IN"
    BY <2>1 DEF Outcome
  <2>2. CASE r.type = "OUT"
    <3>1. Touched(r, n) = {}
      BY <2>2, TouchedNext
    <3>2. dk = [b \in Blocks |-> IF b \in {} THEN "torn"
                               ELSE IF b \in Touched(r, n) \ {} THEN r.val ELSE dk[b]]
      BY <3>1
    <3> QED BY <2>2, <3>2 DEF Outcome
  <2>3. CASE r.type \notin {"IN", "OUT"}
    BY <2>3 DEF Outcome
  <2> QED BY <2>1, <2>2, <2>3
<1> QED BY <1>1 DEF Work

\* A read transfer: the block's contents, or stale data, with an error unless the
\* block is one the host may read in part.
LEMMA WorkRead ==
    ASSUME NEW r \in Requests, NEW n \in Nat, n < r.n, r.type = "IN", NEW data \in Data,
           NEW st, NEW dk \in [Blocks -> Contents], NEW bf, Work(r, n, data, st, dk, bf)
    PROVE  /\ Work(r, n + 1, Append(data, dk[r.start + n]), st, dk, bf)
           /\ Work(r, n + 1, Append(data, "stale"), "IOERR", dk, bf)
           /\ r.start + n \in Short => Work(r, n + 1, Append(data, "stale"), st, dk, bf)
<1> DEFINE b == r.start + n
           Part(gone, k) == [i \in 1..k |-> IF r.start + i - 1 \in gone
                                             THEN "stale" ELSE bf[r.start + i - 1]]
<1>a. PICK short \in SUBSET (Touched(r, n) \cap Short) :
        \E failed \in SUBSET (Touched(r, n) \ short) : Outcome(r, n, failed, short, data, st, dk, bf)
  BY DEF Work
<1>1. PICK failed \in SUBSET (Touched(r, n) \ short) :
        /\ short \in SUBSET (Touched(r, n) \cap Short)
        /\ Outcome(r, n, failed, short, data, st, dk, bf)
  BY <1>a
<1>2. /\ data = Part(failed \cup short, n) /\ dk = bf
      /\ (st = IF failed = {} THEN "OK" ELSE "IOERR")
  BY <1>1 DEF Outcome
<1>3. b \notin Touched(r, n) /\ Touched(r, n + 1) = Touched(r, n) \cup {b} /\ r.start \in Nat
  BY TouchedNext, RequestFacts
<1>4. Len(data) = n
  BY <1>2
<1>5. dk[b] \in Contents
  BY RequestFacts
<1>6. ASSUME NEW x \in Contents \cup {"stale"}, NEW f,
             \A i \in 1..n : r.start + i - 1 \in f <=> r.start + i - 1 \in failed \cup short,
             x = IF b \in f THEN "stale" ELSE bf[b]
      PROVE  Append(data, x) = Part(f, n + 1)
  <2>1. /\ Append(data, x) \in Data /\ Len(Append(data, x)) = n + 1
        /\ \A i \in 1..(n + 1) : Append(data, x)[i] = IF i = n + 1 THEN x ELSE data[i]
    BY <1>4, AppendAt DEF Data
  <2>2. ASSUME NEW i \in 1..(n + 1) PROVE Append(data, x)[i] = Part(f, n + 1)[i]
    <3>1. CASE i = n + 1
      <4>1. r.start + i - 1 = b
        BY <1>3, <3>1
      <4> QED BY <1>6, <2>1, <3>1, <4>1
    <3>2. CASE i # n + 1
      <4>1. i \in 1..n
        BY <3>2
      <4>2. data[i] = IF r.start + i - 1 \in failed \cup short THEN "stale" ELSE bf[r.start + i - 1]
        BY <1>2, <4>1
      <4> QED BY <1>6, <2>1, <3>2, <4>1, <4>2
    <3> QED BY <3>1, <3>2
  <2>3. Append(data, x) \in [1..(n + 1) -> Contents \cup {"stale"}]
    <3> DEFINE t == Append(data, x)
    <3>1. t \in Seq(Contents \cup {"stale"}) /\ Len(t) = n + 1
      BY <2>1 DEF Data
    <3> HIDE DEF t
    <3>2. t \in [1..Len(t) -> Contents \cup {"stale"}]
      BY <3>1, LenProperties
    <3> QED BY <3>1, <3>2 DEF t
  <2> HIDE DEF b
  <2> QED BY <2>2, <2>3
<1>7. \A i \in 1..n : r.start + i - 1 # b
  BY <1>3
<1>8. Outcome(r, n + 1, failed, short, Append(data, dk[b]), st, dk, bf)
  <2>1. Append(data, dk[b]) = Part(failed \cup short, n + 1)
    <3>1. b \notin failed \cup short
      BY <1>1, <1>3
    <3> HIDE DEF b, Part
    <3> QED BY <1>2, <1>5, <1>6, <3>1
  <2> QED BY <1>2, <2>1 DEF Outcome
<1>9. ASSUME NEW p, NEW q, p \cup q = (failed \cup short) \cup {b}
      PROVE  Append(data, "stale") = Part(p \cup q, n + 1)
  <2> DEFINE f == p \cup q
  <2>1. \A i \in 1..n : r.start + i - 1 \in f <=> r.start + i - 1 \in failed \cup short
    BY <1>7, <1>9
  <2>2. b \in f
    BY <1>9
  <2> HIDE DEF b, f, Part
  <2>3. Append(data, "stale") = Part(f, n + 1)
    BY <1>6, <2>1, <2>2
  <2> QED BY <2>3 DEF f
<1>10. Outcome(r, n + 1, failed \cup {b}, short, Append(data, "stale"), "IOERR", dk, bf)
  <2>1. Append(data, "stale") = Part((failed \cup {b}) \cup short, n + 1)
    <3>1. (failed \cup {b}) \cup short = (failed \cup short) \cup {b}
      OBVIOUS
    <3> HIDE DEF b, Part
    <3> QED BY <1>9, <3>1
  <2> QED BY <1>2, <2>1 DEF Outcome
<1>11. Outcome(r, n + 1, failed, short \cup {b}, Append(data, "stale"), st, dk, bf)
  <2>1. Append(data, "stale") = Part(failed \cup (short \cup {b}), n + 1)
    <3>1. failed \cup (short \cup {b}) = (failed \cup short) \cup {b}
      OBVIOUS
    <3> HIDE DEF b, Part
    <3> QED BY <1>9, <3>1
  <2> QED BY <1>2, <2>1 DEF Outcome
<1>12. /\ failed \in SUBSET (Touched(r, n + 1) \ short) /\ short \in SUBSET (Touched(r, n + 1) \cap Short)
       /\ failed \cup {b} \in SUBSET (Touched(r, n + 1) \ short)
       /\ b \in Short => /\ short \cup {b} \in SUBSET (Touched(r, n + 1) \cap Short)
                         /\ failed \in SUBSET (Touched(r, n + 1) \ (short \cup {b}))
  BY <1>1, <1>3
<1> HIDE DEF b
<1>13. /\ Work(r, n + 1, Append(data, dk[b]), st, dk, bf)
       /\ Work(r, n + 1, Append(data, "stale"), "IOERR", dk, bf)
  BY <1>8, <1>10, <1>12 DEF Work
<1>14. b \in Short => Work(r, n + 1, Append(data, "stale"), st, dk, bf)
  BY <1>11, <1>12 DEF Work
<1> QED BY <1>13, <1>14 DEF b

\* A write transfer: the block replaced, an error and the block as it was, or a
\* torn block if it is one the host may write in part.
LEMMA WorkWrite ==
    ASSUME NEW r \in Requests, NEW n \in Nat, n < r.n, r.type = "OUT", NEW data,
           NEW st, NEW dk \in [Blocks -> Contents], NEW bf, Work(r, n, data, st, dk, bf)
    PROVE  /\ Work(r, n + 1, data, st, [dk EXCEPT ![r.start + n] = r.val], bf)
           /\ Work(r, n + 1, data, "IOERR", dk, bf)
           /\ r.start + n \in Short =>
                Work(r, n + 1, data, st, [dk EXCEPT ![r.start + n] = "torn"], bf)
<1> DEFINE b == r.start + n
           Image(k, failed, short) ==
             [c \in Blocks |-> IF c \in short THEN "torn"
                               ELSE IF c \in Touched(r, k) \ failed THEN r.val ELSE bf[c]]
<1>a. PICK short \in SUBSET (Touched(r, n) \cap Short) :
        \E failed \in SUBSET (Touched(r, n) \ short) : Outcome(r, n, failed, short, data, st, dk, bf)
  BY DEF Work
<1>1. PICK failed \in SUBSET (Touched(r, n) \ short) :
        /\ short \in SUBSET (Touched(r, n) \cap Short)
        /\ Outcome(r, n, failed, short, data, st, dk, bf)
  BY <1>a
<1>2. dk = Image(n, failed, short) /\ data = <<>> /\ (st = IF failed = {} THEN "OK" ELSE "IOERR")
  BY <1>1 DEF Outcome
<1>3. b \notin Touched(r, n) /\ Touched(r, n + 1) = Touched(r, n) \cup {b} /\ b \in Blocks
  BY TouchedNext, RequestFacts
<1> HIDE DEF b
<1>4. Outcome(r, n + 1, failed, short, data, st, [dk EXCEPT ![b] = r.val], bf)
  <2>1. [dk EXCEPT ![b] = r.val] = Image(n + 1, failed, short)
    BY <1>1, <1>2, <1>3
  <2> QED BY <1>2, <2>1 DEF Outcome
<1>5. Outcome(r, n + 1, failed \cup {b}, short, data, "IOERR", dk, bf)
  <2>1. Touched(r, n + 1) \ (failed \cup {b}) = Touched(r, n) \ failed
    BY <1>1, <1>3
  <2>2. dk = Image(n + 1, failed \cup {b}, short)
    BY <1>2, <2>1
  <2> QED BY <1>2, <2>2 DEF Outcome
<1>6. Outcome(r, n + 1, failed, short \cup {b}, data, st, [dk EXCEPT ![b] = "torn"], bf)
  <2>1. [dk EXCEPT ![b] = "torn"] = Image(n + 1, failed, short \cup {b})
    BY <1>1, <1>2, <1>3
  <2> QED BY <1>2, <2>1 DEF Outcome
<1>7. /\ failed \in SUBSET (Touched(r, n + 1) \ short) /\ short \in SUBSET (Touched(r, n + 1) \cap Short)
      /\ failed \cup {b} \in SUBSET (Touched(r, n + 1) \ short)
      /\ b \in Short => /\ short \cup {b} \in SUBSET (Touched(r, n + 1) \cap Short)
                        /\ failed \in SUBSET (Touched(r, n + 1) \ (short \cup {b}))
  BY <1>1, <1>3
<1>8. /\ Work(r, n + 1, data, st, [dk EXCEPT ![b] = r.val], bf)
      /\ Work(r, n + 1, data, "IOERR", dk, bf)
  BY <1>4, <1>5, <1>7 DEF Work
<1>9. b \in Short => Work(r, n + 1, data, st, [dk EXCEPT ![b] = "torn"], bf)
  BY <1>6, <1>7 DEF Work
<1> QED BY <1>8, <1>9 DEF b

\* A descriptor of a request of an unknown type.
LEMMA WorkUnsupported ==
    ASSUME NEW r \in Requests, NEW n \in Nat, r.type = "OTHER", NEW data,
           NEW st, NEW dk, NEW bf, Work(r, n, data, st, dk, bf)
    PROVE  Work(r, n + 1, data, "UNSUPP", dk, bf)
<1>1. dk = bf /\ data = <<>>
  BY DEF Work, Outcome
<1>2. Outcome(r, n + 1, {}, {}, data, "UNSUPP", dk, bf)
  BY <1>1 DEF Outcome
<1> QED BY <1>2 DEF Work

-----------------------------------------------------------------------------
(***************************************************************************)
(* Facts of one state.                                                     *)
(***************************************************************************)
AnswerSet == [status : {"none", "OK", "IOERR", "UNSUPP"}, data : Data]

\* While the queue is ready, every chain is in one place.
LEMMA ReadyFacts ==
    ASSUME IndInv, ready
    PROVE  /\ Accounted(last, ring, lastUsed, owned)
           /\ Unserveds \in Seq(Heads) /\ Answereds \in Seq(Heads)
           /\ Len(Unserveds) \in Nat /\ Len(Answereds) \in Nat
           /\ \A i \in 1..Len(Unserveds) : Unserveds[i] \in Heads /\ Unserveds[i] \notin owned
           /\ \A i \in 1..Len(Answereds) : Answereds[i] \in Heads /\ Answereds[i] \notin owned
           /\ \A i, j \in 1..Len(Unserveds) : Unserveds[i] = Unserveds[j] => i = j
           /\ \A i, j \in 1..Len(Answereds) : Answereds[i] = Answereds[j] => i = j
           /\ \A i \in 1..Len(Unserveds), j \in 1..Len(Answereds) : Unserveds[i] # Answereds[j]
<1>1. Accounted(last, ring, lastUsed, owned)
  BY DEF IndInv, ReadyInv
<1>2. Unserveds \in Seq(Heads) /\ Answereds \in Seq(Heads) /\ Apart(Unserveds, Answereds, owned)
  BY <1>1 DEF Accounted, Partition, Unserveds, Answereds
<1>3. /\ Len(Unserveds) \in Nat /\ Len(Answereds) \in Nat
      /\ \A i \in 1..Len(Unserveds) : Unserveds[i] \in Heads
      /\ \A i \in 1..Len(Answereds) : Answereds[i] \in Heads
  BY <1>2
<1> QED BY <1>1, <1>2, <1>3 DEF Apart

\* A vCPU at work on a request holds mtx_, alone, and works on the chain at
\* the head of the queue.
LEMMA WorkingFacts ==
    ASSUME IndInv, Working
    PROVE  /\ ready /\ mtx \in Vcpus /\ pc[mtx] = "io" /\ last # ring.availIdx
           /\ head \in Heads /\ head = NextHead(last, ring)
           /\ 1 \in 1..Len(Unserveds) /\ head = Unserveds[1] /\ head \notin owned
           /\ \A i \in 1..Len(Unserveds) : i # 1 => Unserveds[i] # head
           /\ \A i \in 1..Len(Answereds) : Answereds[i] # head
<1>1. PICK v \in Vcpus : pc[v] = "io"
  BY DEF Working
<1>2. mtx = v /\ ready /\ last # ring.availIdx /\ head = NextHead(last, ring)
  BY <1>1, BlkAssumption DEF IndInv, LockInv, RequestInv
<1>3. Accounted(last, ring, lastUsed, owned)
  BY <1>2, ReadyFacts
<1>4. head \in Heads /\ Unserveds # <<>> /\ head = Head(Unserveds)
  BY <1>2, <1>3, AccountedServe DEF Unserveds
<1>5. Unserveds \in Seq(Heads) /\ Len(Unserveds) \in Nat
  BY <1>2, ReadyFacts
<1>6. 1 \in 1..Len(Unserveds) /\ head = Unserveds[1]
  BY <1>4, <1>5
<1> QED BY <1>1, <1>2, <1>4, <1>6, ReadyFacts

\* Only one vCPU is inside process_rq.
LEMMA HolderFacts ==
    ASSUME IndInv, NEW v \in Vcpus, pc[v] \in {"scan", "io", "end"}
    PROVE  /\ mtx = v /\ ready /\ \A w \in Vcpus : w # v => pc[w] \in {"run", "kick"}
           /\ Working <=> pc[v] = "io"
<1>1. mtx = v /\ ready
  BY BlkAssumption DEF IndInv, LockInv
<1>2. \A w \in Vcpus : pc[w] \in {"run", "kick", "scan", "io", "end"}
  BY DEF IndInv, TypeOK
<1>3. \A w \in Vcpus : w # v => pc[w] \in {"run", "kick"}
  BY <1>1, <1>2 DEF IndInv, LockInv
<1> QED BY <1>1, <1>3 DEF Working

\* Nobody is at work when mtx_ is free.
LEMMA FreeFacts ==
    ASSUME IndInv, mtx = "free"
    PROVE  ~Working /\ ~raised /\ \A v \in Vcpus : pc[v] \in {"run", "kick"}
<1>1. \A w \in Vcpus : pc[w] \in {"run", "kick", "scan", "io", "end"} /\ w # "free"
  BY BlkAssumption DEF IndInv, TypeOK
<1>2. \A v \in Vcpus : pc[v] \in {"run", "kick"}
  BY <1>1 DEF IndInv, LockInv
<1> QED BY <1>2 DEF IndInv, LockInv, Working

\* Moving a vCPU.
LEMMA GotoFacts ==
    ASSUME IndInv, NEW v \in Vcpus, NEW l \in {"run", "kick", "scan", "io", "end"}, Goto(v, l)
    PROVE  /\ pc' \in [Vcpus -> {"run", "kick", "scan", "io", "end"}]
           /\ pc'[v] = l /\ \A w \in Vcpus : w # v => pc'[w] = pc[w]
           /\ (pc[v] # "io" /\ l # "io") => (Working' <=> Working)
<1>1. pc \in [Vcpus -> {"run", "kick", "scan", "io", "end"}] /\ pc' = [pc EXCEPT ![v] = l]
  BY DEF IndInv, TypeOK, Goto
<1>2. pc'[v] = l /\ \A w \in Vcpus : w # v => pc'[w] = pc[w]
  BY <1>1
<1>3. (pc[v] # "io" /\ l # "io") => (Working' <=> Working)
  BY <1>2 DEF Working
<1> QED BY <1>1, <1>2, <1>3

-----------------------------------------------------------------------------
(***************************************************************************)
(* Each step keeps the invariant.                                          *)
(***************************************************************************)
\* Initially.
LEMMA InitInd == Init => IndInv
<1> SUFFICES ASSUME Init PROVE IndInv
  OBVIOUS
<1>1. AnyRequest \in Requests
  BY BlkAssumption DEF AnyRequest
<1>2. NoAnswer \in AnswerSet
  BY DEF NoAnswer, AnswerSet, Data
<1>3. 0 \in Heads /\ NewRing \in Rings /\ 0 \in Indices
  BY NewRingFacts, IndexFacts DEF Heads, Slots
<1>4. TypeOK
  BY <1>1, <1>2, <1>3 DEF Init, TypeOK, AnswerSet, Data, Contents
<1>5. LockInv
  BY BlkAssumption DEF Init, LockInv
<1>6. ReadyInv /\ SignalInv /\ RequestInv /\ FreshInv
  BY DEF Init, ReadyInv, SignalInv, RequestInv, FreshInv, Working
<1> QED BY <1>4, <1>5, <1>6 DEF IndInv

\* Setting the device up.
LEMMA SetupInd == ASSUME IndInv, Setup PROVE IndInv'
<1>1. AnyRequest \in Requests
  BY BlkAssumption DEF AnyRequest
<1>2. NoAnswer \in AnswerSet
  BY DEF NoAnswer, AnswerSet, Data
<1>3. NewRing \in Rings /\ 0 \in Indices /\ Unserved(0, NewRing) = <<>>
  BY NewRingFacts
<1>4. TypeOK'
  BY <1>1, <1>2, <1>3 DEF Setup, IndInv, TypeOK, AnswerSet, Data, locals
<1>5. LockInv'
  BY DEF Setup, IndInv, LockInv, locals
<1>6. last = 0
  BY DEF Setup, IndInv, ReadyInv
<1>7. ReadyInv'
  BY <1>6, AccountedNew DEF Setup, ReadyInv
<1>8. SignalInv'
  BY DEF Setup, SignalInv, NewRing
<1>9. RequestInv'
  BY FreeFacts DEF Setup, RequestInv, Working
<1>10. FreshInv'
  BY <1>3, <1>6 DEF Setup, FreshInv, Unserveds
<1> QED BY <1>4, <1>5, <1>7, <1>8, <1>9, <1>10 DEF IndInv

\* Posting a request: the chain is the driver's, so neither the device nor an
\* answer has anything to do with it.
LEMMA PostInd ==
    ASSUME IndInv, NEW v \in Vcpus, NEW h \in Heads, NEW r \in Requests, Post(v, h, r)
    PROVE  /\ IndInv' /\ (Working' <=> Working)
           /\ Unserveds' = Append(Unserveds, h) /\ Answereds' = Answereds
<1>1. /\ ready /\ pc[v] = "run" /\ h \in owned /\ Goto(v, "kick")
      /\ ring' = Offer(ring, h) /\ owned' = owned \ {h}
      /\ chain' = [chain EXCEPT ![h] = r] /\ answer' = [answer EXCEPT ![h] = NoAnswer]
      /\ UNCHANGED <<mtx, raised, head, seg, skip, status, before, last, ready, irqStatus, spi,
                     disk, lastUsed, irqpc>>
  BY DEF Post, locals, devVars
<1>2. /\ pc' \in [Vcpus -> {"run", "kick", "scan", "io", "end"}]
      /\ pc'[v] = "kick" /\ (\A w \in Vcpus : w # v => pc'[w] = pc[w]) /\ (Working' <=> Working)
  BY <1>1, GotoFacts
<1>3. /\ Accounted(last, Offer(ring, h), lastUsed, owned \ {h})
      /\ Unserved(last, Offer(ring, h)) = Append(Unserveds, h)
      /\ Uncollected(lastUsed, Offer(ring, h)) = Answereds
      /\ Offer(ring, h).usedIdx = ring.usedIdx
  <2>1. Accounted(last, ring, lastUsed, owned) /\ h \in owned
    BY <1>1, ReadyFacts
  <2>2. /\ Accounted(last, Offer(ring, h), lastUsed, owned \ {h})
        /\ Unserved(last, Offer(ring, h)) = Append(Unserved(last, ring), h)
        /\ Uncollected(lastUsed, Offer(ring, h)) = Uncollected(lastUsed, ring)
        /\ Offer(ring, h).usedIdx = ring.usedIdx
    BY ONLY <2>1, AccountedOffer, SMT
  <2> QED BY <2>2, Zenon DEF Unserveds, Answereds
<1>4. Unserveds' = Append(Unserveds, h) /\ Answereds' = Answereds /\ ring'.usedIdx = ring.usedIdx
  BY <1>1, <1>3 DEF Unserveds, Answereds
<1>5. /\ Unserveds \in Seq(Heads) /\ Len(Unserveds) \in Nat
      /\ \A i \in 1..Len(Unserveds) : Unserveds[i] \in Heads /\ Unserveds[i] # h
  BY <1>1, ReadyFacts
<1>6. /\ Len(Unserveds') = Len(Unserveds) + 1
      /\ \A i \in 1..(Len(Unserveds) + 1) :
            Unserveds'[i] = IF i = Len(Unserveds) + 1 THEN h ELSE Unserveds[i]
  BY <1>4, <1>5, AppendAt
<1>7. /\ chain \in [Heads -> Requests] /\ answer \in [Heads -> AnswerSet] /\ NoAnswer \in AnswerSet
      /\ answer'[h] = NoAnswer
      /\ \A g \in Heads : g # h => chain'[g] = chain[g] /\ answer'[g] = answer[g]
  BY <1>1 DEF IndInv, TypeOK, AnswerSet, Data, NoAnswer
<1>8. TypeOK'
  <2>1. ring' \in Rings /\ owned' \in SUBSET Heads
    BY <1>1, <1>3 DEF Accounted, IndInv, TypeOK
  <2>2. chain' \in [Heads -> Requests] /\ answer' \in [Heads -> AnswerSet]
    BY <1>1, <1>7
  <2> QED BY <1>1, <1>2, <2>1, <2>2 DEF IndInv, TypeOK, AnswerSet, Data
<1>9. LockInv'
  BY <1>1, <1>2 DEF IndInv, LockInv
<1>10. ReadyInv'
  BY <1>1, <1>3 DEF IndInv, ReadyInv
<1>11. SignalInv'
  BY <1>1, <1>4 DEF IndInv, SignalInv
<1>12. RequestInv'
  <2> SUFFICES ASSUME Working PROVE RequestInv'
    BY <1>2 DEF RequestInv
  <2>1. head \in Heads /\ 1 \in 1..Len(Unserveds) /\ head = Unserveds[1] /\ head # h
    BY <1>1, WorkingFacts
  <2>2. Unserveds' # <<>> /\ Unserveds'[1] = head
    BY <1>4, <1>5, <1>6, <2>1
  <2>3. ring' \in Rings /\ last \in Indices
    BY <1>1, <1>3 DEF Accounted
  <2>4. Unserveds' = Unserved(last, ring')
    BY <1>1 DEF Unserveds
  <2>5. last # ring'.availIdx
    BY <2>2, <2>3, <2>4, QueueFacts
  <2>6. NextHead(last, ring') = Head(Unserveds')
    BY <2>3, <2>4, <2>5, ServeTakesHead
  <2>7. Head(Unserveds') = Unserveds'[1]
    BY <1>4, <1>5
  <2>8. chain'[head] = chain[head] /\ answer'[head] = answer[head]
    BY <1>7, <2>1
  <2> QED BY <1>1, <2>2, <2>5, <2>6, <2>7, <2>8 DEF IndInv, RequestInv
<1>13. FreshInv'
  <2> SUFFICES ASSUME NEW i \in 1..Len(Unserveds')
               PROVE  answer'[Unserveds'[i]] = NoAnswer \/ (i = 1 /\ Working)
    BY <1>2 DEF FreshInv
  <2>1. CASE i = Len(Unserveds) + 1
    BY <1>5, <1>6, <1>7, <2>1
  <2>2. CASE i # Len(Unserveds) + 1
    <3>1. i \in 1..Len(Unserveds) /\ Unserveds'[i] = Unserveds[i]
      BY <1>5, <1>6, <2>2
    <3>2. answer'[Unserveds'[i]] = answer[Unserveds[i]]
      BY <1>5, <1>7, <3>1
    <3> QED BY <1>1, <3>1, <3>2 DEF IndInv, FreshInv
  <2> QED BY <2>1, <2>2
<1> QED BY <1>2, <1>4, <1>8, <1>9, <1>10, <1>11, <1>12, <1>13 DEF IndInv

\* The handler's steps that touch neither the rings nor the chains.
LEMMA HandlerInd ==
    ASSUME IndInv, IrqTake \/ CollectEnd \/ ReadIrqStatus \/ WriteIrqAck
    PROVE  /\ IndInv' /\ (Working' <=> Working) /\ Unserveds' = Unserveds /\ Answereds' = Answereds
<1>1. /\ UNCHANGED <<mtx, pc, raised, head, seg, skip, status, before, last, ready, disk,
                     ring, chain, answer, owned, lastUsed>>
      /\ irqpc' \in {"idle", "read", "ack", "collect"} /\ irqStatus' \in {0, 1} /\ spi' \in BOOLEAN
  BY DEF IrqTake, CollectEnd, ReadIrqStatus, WriteIrqAck, locals, devVars, IndInv, TypeOK
<1>2. (Working' <=> Working) /\ Unserveds' = Unserveds /\ Answereds' = Answereds
  BY <1>1 DEF Working, Unserveds, Answereds
<1>3. TypeOK'
  BY <1>1 DEF IndInv, TypeOK
<1>4. LockInv'
  BY <1>1 DEF IndInv, LockInv
<1>5. ReadyInv'
  BY <1>1 DEF IrqTake, CollectEnd, ReadIrqStatus, WriteIrqAck, devVars, IndInv, ReadyInv
<1>6. SignalInv'
  <2>1. CASE IrqTake
    BY <2>1 DEF IrqTake, IndInv, SignalInv, locals
  <2>2. CASE CollectEnd
    BY <2>2 DEF CollectEnd, SignalInv, devVars
  <2>3. CASE ReadIrqStatus
    BY <2>3, FreeFacts DEF ReadIrqStatus, IndInv, SignalInv, locals, devVars
  <2>4. CASE WriteIrqAck
    BY <2>4 DEF WriteIrqAck, SignalInv
  <2> QED BY <2>1, <2>2, <2>3, <2>4
<1>7. RequestInv'
  BY <1>1, <1>2 DEF IndInv, RequestInv
<1>8. FreshInv'
  BY <1>1, <1>2 DEF IndInv, FreshInv
<1> QED BY <1>2, <1>3, <1>4, <1>5, <1>6, <1>7, <1>8 DEF IndInv

\* Collecting an answer: its chain is not the one a vCPU works on.
LEMMA CollectInd ==
    ASSUME IndInv, Collect
    PROVE  /\ IndInv' /\ (Working' <=> Working) /\ Unserveds' = Unserveds
           /\ Answereds # <<>> /\ Answereds' = Tail(Answereds)
           /\ \A i \in 1..Len(Unserveds) : chain'[Unserveds[i]] = chain[Unserveds[i]]
           /\ \A i \in 1..Len(Answereds) : i # 1 => answer'[Answereds[i]] = answer[Answereds[i]]
<1> DEFINE h == ring.used[lastUsed % QSize]
<1>1. /\ irqpc = "collect" /\ lastUsed # ring.usedIdx
      /\ owned' = owned \cup {h} /\ chain' = [chain EXCEPT ![h] = AnyRequest]
      /\ answer' = [answer EXCEPT ![h] = NoAnswer] /\ lastUsed' = Bump(lastUsed)
      /\ UNCHANGED <<mtx, pc, raised, head, seg, skip, status, before, last, ready, irqStatus, spi,
                     disk, ring, irqpc>>
  BY DEF Collect, locals, devVars
<1>2. ready
  BY <1>1 DEF IndInv, ReadyInv
<1>3. /\ h \in Heads /\ Answereds # <<>> /\ h = Head(Answereds)
      /\ Accounted(last, ring, Bump(lastUsed), owned \cup {h})
      /\ Uncollected(Bump(lastUsed), ring) = Tail(Answereds)
  BY <1>1, <1>2, ReadyFacts, AccountedCollect DEF Answereds
<1> HIDE DEF h
<1>4. /\ Answereds \in Seq(Heads) /\ Len(Answereds) \in Nat \ {0} /\ h = Answereds[1]
      /\ 1 \in 1..Len(Answereds)
  BY <1>2, <1>3, ReadyFacts
<1>5. /\ \A i \in 1..Len(Unserveds) : Unserveds[i] \in Heads /\ Unserveds[i] # h
      /\ \A i \in 1..Len(Answereds) : i # 1 => Answereds[i] \in Heads /\ Answereds[i] # h
  BY <1>2, <1>4, ReadyFacts
<1>6. (Working' <=> Working) /\ Unserveds' = Unserveds /\ Answereds' = Tail(Answereds)
  BY <1>1, <1>3 DEF Working, Unserveds, Answereds
<1>7. /\ chain \in [Heads -> Requests] /\ answer \in [Heads -> AnswerSet]
      /\ NoAnswer \in AnswerSet /\ AnyRequest \in Requests
      /\ \A g \in Heads : g # h => chain'[g] = chain[g] /\ answer'[g] = answer[g]
  BY <1>1, BlkAssumption DEF IndInv, TypeOK, AnswerSet, Data, NoAnswer, AnyRequest
<1>8. TypeOK'
  <2>1. owned' \in SUBSET Heads /\ lastUsed' \in Indices
    BY <1>1, <1>3 DEF Accounted, IndInv, TypeOK
  <2>2. chain' \in [Heads -> Requests] /\ answer' \in [Heads -> AnswerSet]
    BY <1>1, <1>7
  <2> QED BY <1>1, <2>1, <2>2 DEF IndInv, TypeOK, AnswerSet, Data
<1>9. LockInv'
  BY <1>1 DEF IndInv, LockInv
<1>10. ReadyInv'
  BY <1>1, <1>2, <1>3 DEF IndInv, ReadyInv
<1>11. SignalInv'
  BY <1>1 DEF SignalInv
<1>12. RequestInv'
  <2> SUFFICES ASSUME Working PROVE RequestInv'
    BY <1>6 DEF RequestInv
  <2>1. chain'[head] = chain[head] /\ answer'[head] = answer[head]
    BY <1>5, <1>7, WorkingFacts
  <2> QED BY <1>1, <2>1 DEF IndInv, RequestInv
<1>13. \A i \in 1..Len(Unserveds) : /\ chain'[Unserveds[i]] = chain[Unserveds[i]]
                                    /\ answer'[Unserveds[i]] = answer[Unserveds[i]]
  BY <1>5, <1>7
<1>14. FreshInv'
  BY <1>1, <1>6, <1>13 DEF IndInv, FreshInv
<1>15. \A i \in 1..Len(Answereds) : i # 1 => answer'[Answereds[i]] = answer[Answereds[i]]
  BY <1>5, <1>7
<1> QED BY <1>3, <1>6, <1>8, <1>9, <1>10, <1>11, <1>12, <1>13, <1>14, <1>15 DEF IndInv

\* A reset finds nobody at work.
LEMMA ResetInd == ASSUME IndInv, Reset PROVE IndInv' /\ ~Working /\ ~Working'
<1>1. 0 \in Indices
  BY IndexFacts
<1>2. TypeOK'
  BY <1>1 DEF Reset, IndInv, TypeOK, locals, guestVars
<1>3. ~Working /\ ~Working'
  BY FreeFacts DEF Reset, Working
<1>4. LockInv'
  BY FreeFacts DEF Reset, IndInv, LockInv, locals
<1>5. ReadyInv' /\ SignalInv' /\ RequestInv' /\ FreshInv'
  BY <1>3 DEF Reset, ReadyInv, SignalInv, RequestInv, FreshInv, guestVars
<1> QED BY <1>2, <1>3, <1>4, <1>5 DEF IndInv

\* Taking and releasing mtx_, and leaving the loop at an unusable header.
LEMMA LoopInd ==
    ASSUME IndInv, NEW v \in Vcpus, Notify(v) \/ BadRequest(v) \/ EndRequests(v)
    PROVE  /\ IndInv' /\ ~Working /\ ~Working'
           /\ UNCHANGED <<disk, ready, last, ring, chain, answer, lastUsed>>
<1>1. /\ UNCHANGED <<head, seg, skip, status, before, last, ready, disk,
                     ring, chain, answer, owned, lastUsed, irqpc>>
      /\ irqStatus' \in {0, 1} /\ spi' \in BOOLEAN /\ raised' \in BOOLEAN
  BY DEF Notify, BadRequest, EndRequests, locals, devVars, guestVars, IndInv, TypeOK
<1>2. PICK l \in {"run", "scan", "end"} : Goto(v, l)
  BY DEF Notify, BadRequest, EndRequests
<1>3. ~Working /\ pc[v] # "io"
  BY FreeFacts, HolderFacts DEF Notify, BadRequest, EndRequests, Drained
<1>4. /\ pc' \in [Vcpus -> {"run", "kick", "scan", "io", "end"}]
      /\ pc'[v] = l /\ (\A w \in Vcpus : w # v => pc'[w] = pc[w]) /\ ~Working'
  BY <1>2, <1>3, GotoFacts
<1>5. mtx' \in Vcpus \cup {"free"}
  BY DEF Notify, BadRequest, EndRequests, IndInv, TypeOK
<1>6. TypeOK'
  BY <1>1, <1>4, <1>5 DEF IndInv, TypeOK
<1>7. LockInv'
  <2>1. CASE Notify(v)
    <3>1. mtx = "free" /\ ~raised /\ (\A w \in Vcpus : pc[w] \in {"run", "kick"}) /\ raised' = raised
      BY <2>1, FreeFacts DEF Notify, locals
    <3>2. \/ ready /\ mtx' = v /\ pc'[v] = "scan"
          \/ mtx' = mtx /\ pc'[v] = "run"
      BY <2>1, GotoFacts DEF Notify
    <3> QED BY <1>1, <1>4, <3>1, <3>2, BlkAssumption DEF LockInv
  <2>2. CASE BadRequest(v)
    <3>1. mtx = v /\ ready /\ (\A w \in Vcpus : w # v => pc[w] \in {"run", "kick"}) /\ mtx' = mtx
      BY <2>2, HolderFacts DEF BadRequest
    <3>2. pc'[v] = "end" /\ raised' = raised
      BY <2>2, GotoFacts DEF BadRequest, locals
    <3> QED BY <1>1, <1>4, <3>1, <3>2, BlkAssumption DEF LockInv
  <2>3. CASE EndRequests(v)
    <3>1. /\ mtx = v /\ (\A w \in Vcpus : w # v => pc[w] \in {"run", "kick"})
          /\ mtx' = "free" /\ ~raised'
      BY <2>3, HolderFacts DEF EndRequests, Drained
    <3>2. pc'[v] = "run"
      BY <2>3, GotoFacts DEF EndRequests
    <3> QED BY <1>4, <3>1, <3>2, BlkAssumption DEF LockInv
  <2> QED BY <2>1, <2>2, <2>3
<1>8. irqStatus' = irqStatus \/ (irqStatus' = 1 /\ ready)
  BY HolderFacts DEF Notify, BadRequest, EndRequests, devVars, Drained
<1>9. ReadyInv'
  BY <1>1, <1>8 DEF IndInv, ReadyInv
<1>10. SignalInv'
  <2>1. CASE EndRequests(v)
    BY <1>1, <2>1 DEF EndRequests, IndInv, SignalInv, TypeOK
  <2>2. CASE Notify(v) \/ BadRequest(v)
    BY <2>2 DEF Notify, BadRequest, IndInv, SignalInv, locals, devVars, guestVars
  <2> QED BY <2>1, <2>2
<1>11. RequestInv'
  BY <1>4 DEF RequestInv
<1>12. FreshInv'
  BY <1>1, <1>3 DEF IndInv, FreshInv, Unserveds
<1> QED BY <1>1, <1>3, <1>4, <1>6, <1>7, <1>9, <1>10, <1>11, <1>12 DEF IndInv

\* Taking the next request.
LEMMA TakeInd ==
    ASSUME IndInv, NEW v \in Vcpus, TakeRequest(v)
    PROVE  /\ IndInv' /\ ~Working /\ Working' /\ before' = disk
           /\ UNCHANGED <<ready, last, ring, chain, answer, lastUsed>>
<1> DEFINE h == NextHead(last, ring)
<1>1. /\ pc[v] = "scan" /\ last # ring.availIdx /\ head' = h /\ chain[h].type # "BAD"
      /\ status' = "OK" /\ before' = disk /\ Goto(v, "io")
      /\ seg' = IF chain[h].type \in {"FLUSH", "GET_ID"} THEN chain[h].n ELSE 0
      /\ skip' = IF chain[h].type \in {"FLUSH", "GET_ID"} THEN chain[h].skipped ELSE 0
      /\ UNCHANGED <<mtx, raised, last, ready, irqStatus, spi, disk,
                     ring, chain, answer, owned, lastUsed, irqpc>>
  BY DEF TakeRequest, devVars, guestVars
<1>2. mtx = v /\ ready /\ ~Working /\ \A w \in Vcpus : w # v => pc[w] \in {"run", "kick"}
  BY <1>1, HolderFacts
<1>3. /\ pc' \in [Vcpus -> {"run", "kick", "scan", "io", "end"}]
      /\ pc'[v] = "io" /\ \A w \in Vcpus : w # v => pc'[w] = pc[w]
  BY <1>1, GotoFacts
<1>4. Working'
  BY <1>3 DEF Working
<1>5. h \in Heads /\ Unserveds # <<>> /\ h = Head(Unserveds)
  BY <1>1, <1>2, ReadyFacts, AccountedServe DEF Unserveds
<1> HIDE DEF h
<1>6. 1 \in 1..Len(Unserveds) /\ h = Unserveds[1]
  BY <1>2, <1>5, ReadyFacts
<1>7. chain[h] \in Requests /\ answer[h] = NoAnswer /\ disk \in [Blocks -> Contents]
  BY <1>2, <1>5, <1>6 DEF IndInv, TypeOK, FreshInv
<1>8. seg' \in Nat /\ seg' <= chain[h].n /\ skip' \in Nat /\ skip' <= chain[h].skipped
  BY <1>1, <1>7, RequestFacts
<1>9. TypeOK'
  BY <1>1, <1>3, <1>5, <1>8 DEF IndInv, TypeOK
<1>10. LockInv'
  BY <1>1, <1>2, <1>3 DEF IndInv, LockInv
<1>11. ReadyInv'
  BY <1>1 DEF IndInv, ReadyInv
<1>12. SignalInv'
  BY <1>1 DEF IndInv, SignalInv
<1>13. RequestInv'
  <2>1. Work(chain[h], seg', <<>>, "OK", disk, disk)
    <3> DEFINE n == seg'
               q == chain[h]
    <3>1. q \in Requests /\ q.type # "BAD" /\ n \in Nat
          /\ n = IF q.type \in {"FLUSH", "GET_ID"} THEN q.n ELSE 0
      BY <1>1, <1>7, <1>8
    <3> HIDE DEF n, q
    <3>2. Work(q, n, <<>>, "OK", disk, disk)
      BY <1>7, <3>1, WorkTaken
    <3> QED BY <3>2 DEF n, q
  <2>2. answer[h].data = <<>>
    BY <1>7 DEF NoAnswer
  <2>3. Work(chain[h], seg', answer[h].data, "OK", disk, disk)
    BY <2>1, <2>2
  <2> QED BY <1>1, <1>8, <2>3 DEF RequestInv, h
<1>14. FreshInv'
  BY <1>1, <1>2, <1>4 DEF IndInv, FreshInv, Unserveds
<1> QED BY <1>1, <1>2, <1>4, <1>9, <1>10, <1>11, <1>12, <1>13, <1>14 DEF IndInv

\* One data descriptor: only the data of the current chain, the status and,
\* for a write, the image change.
LEMMA TransferInd ==
    ASSUME IndInv, NEW v \in Vcpus, Read(v) \/ Write(v) \/ Unsupported(v)
    PROVE  /\ IndInv' /\ Working /\ Working'
           /\ UNCHANGED <<before, ready, last, ring, chain, lastUsed>>
           /\ \A g \in Heads : g # head => answer'[g] = answer[g]
<1>1. /\ pc[v] = "io" /\ seg < chain[head].n /\ seg' = seg + 1
      /\ UNCHANGED <<mtx, pc, raised, head, skip, before, last, ready, irqStatus, spi,
                     ring, chain, owned, lastUsed, irqpc>>
  BY DEF Read, Write, Unsupported, InChain, devVars, guestVars
<1>2. Working /\ Working'
  BY <1>1 DEF Working
<1>3. /\ head \in Heads /\ chain[head] \in Requests /\ seg \in Nat /\ disk \in [Blocks -> Contents]
      /\ answer \in [Heads -> AnswerSet] /\ answer[head] \in AnswerSet /\ answer[head].data \in Data
      /\ status \in {"OK", "IOERR", "UNSUPP"}
  BY DEF IndInv, TypeOK, AnswerSet, Data
<1>4. /\ chain[head].n \in Nat /\ chain[head].val \in Values /\ Block \in Blocks
      /\ disk[Block] \in Contents
  BY <1>1, <1>3, RequestFacts DEF Block
<1>5. Work(chain[head], seg, answer[head].data, status, disk, before)
  BY <1>2 DEF IndInv, RequestInv
<1>6. ready
  BY <1>2, WorkingFacts
<1>7. /\ answer' \in [Heads -> AnswerSet] /\ disk' \in [Blocks -> Contents]
      /\ status' \in {"OK", "IOERR", "UNSUPP"}
      /\ \A g \in Heads : g # head => answer'[g] = answer[g]
      /\ Work(chain[head], seg + 1, answer'[head].data, status', disk', before)
  <2>1. CASE Read(v)
    <3>1. PICK x \in Contents \cup {"stale"} :
            /\ answer' = [answer EXCEPT ![head].data = Append(@, x)]
            /\ \/ x = disk[Block] /\ status' = status
               \/ x = "stale" /\ status' = "IOERR"
               \/ x = "stale" /\ Block \in Short /\ status' = status
      BY <1>4, <2>1 DEF Read
    <3>2. Append(answer[head].data, x) \in Data
      BY <1>3 DEF Data
    <3>3. /\ answer' \in [Heads -> AnswerSet] /\ answer'[head].data = Append(answer[head].data, x)
          /\ \A g \in Heads : g # head => answer'[g] = answer[g]
      BY <1>3, <3>1, <3>2 DEF AnswerSet
    <3>4. disk' = disk
      BY <2>1 DEF Read
    <3>5. chain[head].type = "IN"
      BY <2>1 DEF Read, InChain
    <3>6. /\ Work(chain[head], seg + 1, Append(answer[head].data, disk[Block]), status, disk, before)
          /\ Work(chain[head], seg + 1, Append(answer[head].data, "stale"), "IOERR", disk, before)
          /\ Block \in Short =>
               Work(chain[head], seg + 1, Append(answer[head].data, "stale"), status, disk, before)
      BY <1>1, <1>3, <1>5, <3>5, WorkRead DEF Block
    <3> QED BY <1>3, <3>1, <3>3, <3>4, <3>6
  <2>2. CASE Write(v)
    <3>1. chain[head].type = "OUT" /\ answer' = answer
      BY <2>2 DEF Write, InChain, guestVars
    <3>2. /\ Work(chain[head], seg + 1, answer[head].data, status,
                  [disk EXCEPT ![Block] = chain[head].val], before)
          /\ Work(chain[head], seg + 1, answer[head].data, "IOERR", disk, before)
          /\ Block \in Short =>
               Work(chain[head], seg + 1, answer[head].data, status,
                    [disk EXCEPT ![Block] = "torn"], before)
      BY <1>1, <1>3, <1>5, <3>1, WorkWrite DEF Block
    <3>3. /\ [disk EXCEPT ![Block] = chain[head].val] \in [Blocks -> Contents]
          /\ [disk EXCEPT ![Block] = "torn"] \in [Blocks -> Contents]
      BY <1>3, <1>4 DEF Contents
    <3>4. \/ disk' = [disk EXCEPT ![Block] = chain[head].val] /\ status' = status
          \/ Block \in Short /\ disk' = [disk EXCEPT ![Block] = "torn"] /\ status' = status
          \/ disk' = disk /\ status' = "IOERR"
      BY <2>2 DEF Write
    <3> QED BY <1>3, <3>1, <3>2, <3>3, <3>4
  <2>3. CASE Unsupported(v)
    <3>1. chain[head].type = "OTHER" /\ answer' = answer /\ disk' = disk /\ status' = "UNSUPP"
      BY <2>3 DEF Unsupported, InChain, guestVars
    <3>2. Work(chain[head], seg + 1, answer[head].data, "UNSUPP", disk, before)
      BY <1>3, <1>5, <3>1, WorkUnsupported
    <3> QED BY <1>3, <3>1, <3>2
  <2> QED BY <2>1, <2>2, <2>3
<1>8. TypeOK'
  BY <1>1, <1>3, <1>7 DEF IndInv, TypeOK, AnswerSet, Data
<1>9. LockInv'
  BY <1>1 DEF IndInv, LockInv
<1>10. ReadyInv'
  BY <1>1 DEF IndInv, ReadyInv
<1>11. SignalInv'
  BY <1>1 DEF IndInv, SignalInv
<1>12. RequestInv'
  <2>1. seg + 1 <= chain[head].n
    BY <1>1, <1>3, <1>4
  <2> QED BY <1>1, <1>2, <1>7, <2>1 DEF IndInv, RequestInv
<1>13. FreshInv'
  <2>1. Unserveds' = Unserveds
    BY <1>1 DEF Unserveds
  <2>2. \A i \in 1..Len(Unserveds) : i # 1 => answer'[Unserveds[i]] = answer[Unserveds[i]]
    BY <1>2, <1>6, <1>7, ReadyFacts, WorkingFacts
  <2> QED BY <1>1, <1>2, <2>1, <2>2 DEF IndInv, FreshInv
<1> QED BY <1>1, <1>2, <1>7, <1>8, <1>9, <1>10, <1>11, <1>12, <1>13 DEF IndInv

\* Passing over a buffer changes nothing but the position in the chain.
LEMMA SkipInd ==
    ASSUME IndInv, NEW v \in Vcpus, SkipBuffer(v)
    PROVE  /\ IndInv' /\ Working /\ Working'
           /\ UNCHANGED <<before, ready, last, ring, chain, answer, lastUsed>>
<1>1. /\ pc[v] = "io" /\ skip < chain[head].skipped /\ skip' = skip + 1
      /\ UNCHANGED <<mtx, pc, raised, head, seg, status, before, last, ready, irqStatus, spi,
                     disk, ring, chain, answer, owned, lastUsed, irqpc>>
  BY DEF SkipBuffer, devVars, guestVars
<1>2. Working /\ Working'
  BY <1>1 DEF Working
<1>3. skip \in Nat /\ chain[head] \in Requests
  BY DEF IndInv, TypeOK
<1>4. chain[head].skipped \in Nat
  BY <1>3, RequestFacts
<1>5. skip + 1 \in Nat /\ skip + 1 <= chain[head].skipped
  BY <1>1, <1>3, <1>4
<1>6. TypeOK'
  BY <1>1, <1>5 DEF IndInv, TypeOK
<1>7. LockInv' /\ ReadyInv' /\ SignalInv'
  BY <1>1 DEF IndInv, LockInv, ReadyInv, SignalInv
<1>8. RequestInv'
  BY <1>1, <1>2, <1>5 DEF IndInv, RequestInv
<1>9. FreshInv'
  BY <1>1, <1>2 DEF IndInv, FreshInv, Unserveds
<1> QED BY <1>1, <1>2, <1>6, <1>7, <1>8, <1>9 DEF IndInv

\* Handing the chain back.
LEMMA FinishInd ==
    ASSUME IndInv, NEW v \in Vcpus, FinishRequest(v)
    PROVE  /\ IndInv' /\ Working /\ ~Working' /\ UNCHANGED <<disk, ready, chain, lastUsed>>
           /\ Unserveds # <<>> /\ head = Head(Unserveds)
           /\ Unserveds' = Tail(Unserveds) /\ Answereds' = Append(Answereds, head)
           /\ answer'[head].status = status /\ answer'[head].data = answer[head].data
           /\ \A g \in Heads : g # head => answer'[g] = answer[g]
           /\ Work(chain[head], chain[head].n, answer[head].data, status, disk, before)
<1>1. /\ pc[v] = "io" /\ seg = chain[head].n /\ skip = chain[head].skipped /\ Goto(v, "scan")
      /\ answer' = [answer EXCEPT ![head].status = status]
      /\ ring' = PushUsed(ring, head) /\ last' = Bump(last) /\ raised' = TRUE
      /\ head' = 0 /\ seg' = 0 /\ skip' = 0 /\ status' = "OK" /\ before' = disk
      /\ UNCHANGED <<mtx, ready, irqStatus, spi, disk, chain, owned, lastUsed, irqpc>>
  BY DEF FinishRequest
<1>2. mtx = v /\ ready /\ Working /\ \A w \in Vcpus : w # v => pc[w] \in {"run", "kick"}
  BY <1>1, HolderFacts
<1>3. /\ pc' \in [Vcpus -> {"run", "kick", "scan", "io", "end"}]
      /\ pc'[v] = "scan" /\ \A w \in Vcpus : w # v => pc'[w] = pc[w]
  BY <1>1, GotoFacts
<1>4. ~Working'
  <2>1. \A w \in Vcpus : pc'[w] # "io"
    BY <1>2, <1>3
  <2> QED BY <2>1 DEF Working
<1>5. /\ last # ring.availIdx /\ head = NextHead(last, ring) /\ head \in Heads
      /\ Work(chain[head], chain[head].n, answer[head].data, status, disk, before)
  BY <1>1, <1>2, WorkingFacts DEF IndInv, RequestInv
<1>6. /\ Unserveds # <<>> /\ head = Head(Unserveds)
      /\ Accounted(Bump(last), PushUsed(ring, head), lastUsed, owned)
      /\ Unserved(Bump(last), PushUsed(ring, head)) = Tail(Unserveds)
      /\ Uncollected(lastUsed, PushUsed(ring, head)) = Append(Answereds, head)
  BY <1>2, <1>5, ReadyFacts, AccountedServe DEF Unserveds, Answereds
<1>7. Unserveds' = Tail(Unserveds) /\ Answereds' = Append(Answereds, head)
  BY <1>1, <1>6 DEF Unserveds, Answereds
<1>8. /\ answer \in [Heads -> AnswerSet] /\ status \in {"OK", "IOERR", "UNSUPP"}
      /\ disk \in [Blocks -> Contents] /\ 0 \in Heads
  BY IndexFacts DEF IndInv, TypeOK, AnswerSet, Data, Heads, Slots
<1>9. /\ answer' \in [Heads -> AnswerSet]
      /\ answer'[head].status = status /\ answer'[head].data = answer[head].data
      /\ \A g \in Heads : g # head => answer'[g] = answer[g]
  BY <1>1, <1>5, <1>8 DEF AnswerSet
<1>10. TypeOK'
  <2>1. ring' \in Rings /\ last' \in Indices
    BY <1>1, <1>6 DEF Accounted
  <2> QED BY <1>1, <1>3, <1>8, <1>9, <2>1 DEF IndInv, TypeOK, AnswerSet, Data
<1>11. LockInv'
  BY <1>1, <1>2, <1>3, BlkAssumption DEF LockInv
<1>12. ReadyInv'
  BY <1>1, <1>2, <1>6 DEF ReadyInv
<1>13. SignalInv'
  BY <1>1 DEF SignalInv
<1>14. RequestInv'
  BY <1>4 DEF RequestInv
<1>15. FreshInv'
  <2>1. /\ Unserveds \in Seq(Heads) /\ Len(Unserveds) \in Nat
        /\ Len(Unserveds') = Len(Unserveds) - 1
        /\ \A i \in 1..(Len(Unserveds) - 1) : Unserveds'[i] = Unserveds[i + 1]
    BY <1>2, <1>6, <1>7, ReadyFacts, TailAt
  <2> SUFFICES ASSUME NEW i \in 1..Len(Unserveds') PROVE answer'[Unserveds'[i]] = NoAnswer
    BY DEF FreshInv
  <2>2. i + 1 \in 1..Len(Unserveds) /\ i + 1 # 1 /\ Unserveds'[i] = Unserveds[i + 1]
    BY <2>1
  <2>3. answer[Unserveds[i + 1]] = NoAnswer
    BY <1>2, <2>2 DEF IndInv, FreshInv
  <2>4. Unserveds[i + 1] \in Heads /\ Unserveds[i + 1] # head
    BY <1>2, <2>2, ReadyFacts, WorkingFacts
  <2> QED BY <1>9, <2>2, <2>3, <2>4
<1> QED BY <1>1, <1>2, <1>4, <1>5, <1>6, <1>7, <1>9, <1>10, <1>11, <1>12, <1>13, <1>14, <1>15 DEF IndInv

\* Every step.
LEMMA NextInd == ASSUME IndInv, [Next]_vars PROVE IndInv'
<1>1. CASE UNCHANGED vars
  <2>1. Working' = Working /\ Unserveds' = Unserveds
    BY <1>1 DEF vars, devVars, guestVars, locals, Working, Unserveds
  <2>2. TypeOK' /\ LockInv'
    BY <1>1 DEF vars, devVars, guestVars, locals, IndInv, TypeOK, LockInv
  <2>3. ReadyInv' /\ SignalInv'
    BY <1>1 DEF vars, devVars, guestVars, locals, IndInv, ReadyInv, SignalInv
  <2>4. RequestInv' /\ FreshInv'
    BY <1>1, <2>1 DEF vars, devVars, guestVars, locals, IndInv, RequestInv, FreshInv
  <2> QED BY <2>2, <2>3, <2>4 DEF IndInv
<1>2. CASE Next
  BY <1>2, SetupInd, HandlerInd, CollectInd, PostInd, ResetInd, LoopInd, TakeInd,
     TransferInd, SkipInd, FinishInd DEF Next, ProcessRq
<1> QED BY <1>1, <1>2

\* The invariant holds throughout.
LEMMA Invariance == Spec => []IndInv
<1>1. IndInv /\ [Next]_vars => IndInv'
  BY NextInd
<1> QED BY <1>1, InitInd, PTL DEF Spec

\* Every variable of the device and of its driver stays in its type, whatever
\* the number of vCPUs, the size of the ring and the requests.
THEOREM Typing == Spec => []TypeOK
<1>1. IndInv => TypeOK
  BY DEF IndInv
<1> QED BY <1>1, Invariance, PTL

\* No interrupt is lost between process_rq's one raise for a batch and a
\* handler that acknowledges before it collects.
THEOREM Signalling == Spec => []UsedIsSignalled
<1>1. IndInv => UsedIsSignalled
  BY FreeFacts DEF IndInv, SignalInv, UsedIsSignalled
<1> QED BY <1>1, Invariance, PTL

-----------------------------------------------------------------------------
(***************************************************************************)
(* The device implements the block service.                                *)
(***************************************************************************)
\* What the service knows of a chain, by its request and by its answer.
Asked(c) == [h \in Heads |-> [tag |-> h, req |-> c[h]]]
Given(a) == [h \in Heads |-> [tag |-> h, status |-> a[h].status, data |-> a[h].data]]

\* The service's state, in these terms.
LEMMA MappingFacts ==
    ASSUME ready => Unserveds \in Seq(Heads) /\ Answereds \in Seq(Heads)
    PROVE  /\ Pending = IF ready THEN Carry(Unserveds, Asked(chain)) ELSE <<>>
           /\ Answers = IF ready THEN Carry(Answereds, Given(answer)) ELSE <<>>
           /\ Medium = IF Working THEN before ELSE disk
<1>1. ready => Pending = Carry(Unserveds, Asked(chain))
  <2> SUFFICES ASSUME ready PROVE Pending = Carry(Unserveds, Asked(chain))
    OBVIOUS
  <2>1. DOMAIN Unserveds = 1..Len(Unserveds) /\ \A i \in 1..Len(Unserveds) : Unserveds[i] \in Heads
    OBVIOUS
  <2> QED BY <2>1 DEF Pending, Carry, Asked
<1>2. ready => Answers = Carry(Answereds, Given(answer))
  <2> SUFFICES ASSUME ready PROVE Answers = Carry(Answereds, Given(answer))
    OBVIOUS
  <2>1. DOMAIN Answereds = 1..Len(Answereds) /\ \A i \in 1..Len(Answereds) : Answereds[i] \in Heads
    OBVIOUS
  <2> QED BY <2>1 DEF Answers, Carry, Given
<1> QED BY <1>1, <1>2 DEF Pending, Answers, Medium, Working

\* The same after a step.
LEMMA MappingNext ==
    ASSUME ready' => Unserveds' \in Seq(Heads) /\ Answereds' \in Seq(Heads)
    PROVE  /\ Pending' = IF ready' THEN Carry(Unserveds', Asked(chain')) ELSE <<>>
           /\ Answers' = IF ready' THEN Carry(Answereds', Given(answer')) ELSE <<>>
           /\ Medium' = IF Working' THEN before' ELSE disk'
<1>1. ready' => Pending' = Carry(Unserveds', Asked(chain'))
  <2> SUFFICES ASSUME ready' PROVE Pending' = Carry(Unserveds', Asked(chain'))
    OBVIOUS
  <2>1. DOMAIN Unserveds' = 1..Len(Unserveds') /\ \A i \in 1..Len(Unserveds') : Unserveds'[i] \in Heads
    OBVIOUS
  <2> QED BY <2>1 DEF Pending, Carry, Asked
<1>2. ready' => Answers' = Carry(Answereds', Given(answer'))
  <2> SUFFICES ASSUME ready' PROVE Answers' = Carry(Answereds', Given(answer'))
    OBVIOUS
  <2>1. DOMAIN Answereds' = 1..Len(Answereds') /\ \A i \in 1..Len(Answereds') : Answereds'[i] \in Heads
    OBVIOUS
  <2> QED BY <2>1 DEF Answers, Carry, Given
<1> QED BY <1>1, <1>2 DEF Pending, Answers, Medium, Working

\* The initial states are the service's.
LEMMA InitRefines == Init => Service!Init
<1> SUFFICES ASSUME Init PROVE Service!Init
  OBVIOUS
<1>1. ~ready /\ ~Working /\ disk \in [Blocks -> Values]
  BY DEF Init, Working
<1>2. Pending = <<>> /\ Answers = <<>> /\ Medium = disk
  BY <1>1, MappingFacts
<1>3. Blocks = Service!Blocks
  BY DEF Blocks, Service!Blocks
<1> QED BY <1>1, <1>2, <1>3 DEF Service!Init

\* A step that changes neither queue nor what is said of the chains in it is
\* none of the service's.
LEMMA QueuesSame ==
    ASSUME IndInv, Unserveds' = Unserveds, Answereds' = Answereds, ready' = ready,
           ready => \A i \in 1..Len(Unserveds) : chain'[Unserveds[i]] = chain[Unserveds[i]],
           ready => \A i \in 1..Len(Answereds) : answer'[Answereds[i]] = answer[Answereds[i]]
    PROVE  Pending' = Pending /\ Answers' = Answers
<1>1. CASE ready
  <2> DEFINE u == Unserveds
             c == Answereds
             a == Asked(chain)
             b == Asked(chain')
             f == Given(answer)
             g == Given(answer')
  <2>1. u \in Seq(Heads) /\ c \in Seq(Heads)
    BY <1>1, ReadyFacts
  <2>2. \A i \in 1..Len(u) : b[u[i]] = a[u[i]]
    BY <1>1, ReadyFacts DEF Asked
  <2>3. \A i \in 1..Len(c) : g[c[i]] = f[c[i]]
    BY <1>1, ReadyFacts DEF Given
  <2>4. Pending' = Carry(u, b) /\ Answers' = Carry(c, g)
    BY <1>1, <2>1, MappingNext
  <2>5. Pending = Carry(u, a) /\ Answers = Carry(c, f)
    BY <1>1, <2>1, MappingFacts
  <2> HIDE DEF u, c, a, b, f, g
  <2>6. Carry(u, b) = Carry(u, a) /\ Carry(c, g) = Carry(c, f)
    BY <2>1, <2>2, <2>3, CarrySame
  <2> QED BY <2>4, <2>5, <2>6
<1>2. CASE ~ready
  BY <1>2 DEF Pending, Answers
<1> QED BY <1>1, <1>2

\* Posting is submitting.
LEMMA PostRefines ==
    ASSUME IndInv, NEW v \in Vcpus, NEW h \in Heads, NEW r \in Requests, Post(v, h, r)
    PROVE  Service!Submit(h, r)
<1> DEFINE u == Unserveds
           c == Answereds
           w == Append(u, h)
           a == Asked(chain)
           b == Asked(chain')
           f == Given(answer)
           g == Given(answer')
<1>1. /\ ready /\ ready' /\ h \in owned
      /\ chain' = [chain EXCEPT ![h] = r] /\ answer' = [answer EXCEPT ![h] = NoAnswer]
      /\ before' = before /\ disk' = disk
      /\ (Working' <=> Working) /\ Unserveds' = w /\ Answereds' = c
  BY PostInd DEF Post, locals, devVars
<1>2. /\ u \in Seq(Heads) /\ c \in Seq(Heads) /\ w \in Seq(Heads)
      /\ \A i \in 1..Len(u) : u[i] \in Heads /\ u[i] # h
      /\ \A i \in 1..Len(c) : c[i] \in Heads /\ c[i] # h
  BY <1>1, ReadyFacts
<1>3. chain \in [Heads -> Requests] /\ answer \in [Heads -> AnswerSet]
  BY DEF IndInv, TypeOK, AnswerSet, Data
<1>4. \A i \in 1..Len(u) : b[u[i]] = a[u[i]]
  BY <1>1, <1>2, <1>3 DEF Asked
<1>5. \A i \in 1..Len(c) : g[c[i]] = f[c[i]]
  BY <1>1, <1>2, <1>3 DEF Given
<1>6. b[h] = [tag |-> h, req |-> r]
  BY <1>1, <1>3 DEF Asked
<1>7. Pending' = Carry(w, b) /\ Answers' = Carry(c, g) /\ Medium' = IF Working' THEN before' ELSE disk'
  BY <1>1, <1>2, MappingNext
<1>8. Pending = Carry(u, a) /\ Answers = Carry(c, f) /\ Medium = IF Working THEN before ELSE disk
  BY <1>1, <1>2, MappingFacts
<1>9. Medium' = Medium
  BY <1>1, <1>7, <1>8
<1> HIDE DEF u, c, a, b, f, g
<1>10. Carry(w, b) = Append(Carry(u, b), b[h])
  BY <1>2, CarryAppend
<1>11. Carry(u, b) = Carry(u, a) /\ Carry(c, g) = Carry(c, f)
  <2>1. Carry(u, b) = Carry(u, a)
    BY <1>2, <1>4, CarrySame, Zenon
  <2> QED BY <1>2, <1>5, <2>1, CarrySame, Zenon
<1> QED BY <1>6, <1>7, <1>8, <1>9, <1>10, <1>11 DEF Service!Submit

\* Collecting an answer is the driver's collecting.
LEMMA CollectRefines == ASSUME IndInv, Collect PROVE Service!Collect
<1> DEFINE u == Unserveds
           c == Answereds
           d == Tail(c)
           a == Asked(chain)
           b == Asked(chain')
           f == Given(answer)
           g == Given(answer')
<1>1. /\ ready /\ ready' /\ before' = before /\ disk' = disk
      /\ (Working' <=> Working) /\ Unserveds' = u /\ Answereds' = d /\ c # <<>>
      /\ \A i \in 1..Len(u) : chain'[u[i]] = chain[u[i]]
      /\ \A i \in 1..Len(c) : i # 1 => answer'[c[i]] = answer[c[i]]
  BY CollectInd DEF Collect, locals, devVars, IndInv, ReadyInv
<1>2. /\ u \in Seq(Heads) /\ c \in Seq(Heads)
      /\ \A i \in 1..Len(u) : u[i] \in Heads
      /\ \A i \in 1..Len(c) : c[i] \in Heads
  BY <1>1, ReadyFacts
<1>3. /\ d \in Seq(Heads) /\ Len(d) = Len(c) - 1 /\ Len(c) \in Nat
      /\ \A i \in 1..(Len(c) - 1) : d[i] = c[i + 1]
  BY <1>1, <1>2, TailAt
<1>4. \A i \in 1..Len(u) : b[u[i]] = a[u[i]]
  BY <1>1, <1>2 DEF Asked
<1>5. ASSUME NEW i \in 1..Len(d) PROVE g[d[i]] = f[d[i]]
  <2>1. i + 1 \in 1..Len(c) /\ i + 1 # 1 /\ d[i] = c[i + 1]
    BY <1>3
  <2>2. c[i + 1] \in Heads /\ answer'[c[i + 1]] = answer[c[i + 1]]
    BY <1>1, <1>2, <2>1
  <2> QED BY <2>1, <2>2 DEF Given
<1>6. Pending' = Carry(u, b) /\ Answers' = Carry(d, g) /\ Medium' = IF Working' THEN before' ELSE disk'
  BY <1>1, <1>2, <1>3, MappingNext
<1>7. Pending = Carry(u, a) /\ Answers = Carry(c, f) /\ Medium = IF Working THEN before ELSE disk
  BY <1>1, <1>2, MappingFacts
<1>8. Medium' = Medium
  BY <1>1, <1>6, <1>7
<1> HIDE DEF u, c, a, b, f, g
<1>9. Carry(c, f) # <<>> /\ Carry(d, f) = Tail(Carry(c, f))
  BY <1>1, <1>2, CarryTail
<1> HIDE DEF d
<1>10. Carry(u, b) = Carry(u, a) /\ Carry(d, g) = Carry(d, f)
  BY <1>2, <1>3, <1>4, <1>5, CarrySame
<1> QED BY <1>6, <1>7, <1>8, <1>9, <1>10 DEF Service!Collect

\* Handing a chain back is serving its request: what its transfers added up to
\* is one of the three outcomes the service allows.
LEMMA FinishRefines ==
    ASSUME IndInv, NEW v \in Vcpus, FinishRequest(v)
    PROVE  Service!ServeOk \/ Service!ServeError \/ Service!ServeUnsupported
<1> DEFINE u == Unserveds
           c == Answereds
           w == Tail(u)
           d == Append(c, head)
           a == Asked(chain)
           f == Given(answer)
           g == Given(answer')
           r == chain[head]
           x == answer[head].data
<1>1. /\ Working /\ ~Working' /\ ready /\ ready' /\ disk' = disk /\ chain' = chain
      /\ u # <<>> /\ head = Head(u) /\ head \in Heads
      /\ Unserveds' = w /\ Answereds' = d
      /\ answer'[head].status = status /\ answer'[head].data = x
      /\ \A h \in Heads : h # head => answer'[h] = answer[h]
      /\ Work(r, r.n, x, status, disk, before)
  BY FinishInd, WorkingFacts
<1>2. /\ u \in Seq(Heads) /\ c \in Seq(Heads)
      /\ \A i \in 1..Len(c) : c[i] \in Heads /\ c[i] # head
  BY <1>1, ReadyFacts, WorkingFacts
<1>3. w \in Seq(Heads) /\ d \in Seq(Heads)
  BY <1>1, <1>2
<1>4. \A i \in 1..Len(c) : g[c[i]] = f[c[i]]
  BY <1>1, <1>2 DEF Given
<1>5. g[head] = [tag |-> head, status |-> status, data |-> x]
  BY <1>1 DEF Given
<1>6. a[head] = [tag |-> head, req |-> r]
  BY <1>1 DEF Asked
<1>7. Pending' = Carry(w, a) /\ Answers' = Carry(d, g) /\ Medium' = disk
  BY <1>1, <1>3, MappingNext
<1>8. Pending = Carry(u, a) /\ Answers = Carry(c, f) /\ Medium = before
  BY <1>1, <1>2, MappingFacts
<1>9. r \in Requests /\ r.type \in Types /\ r.type # "BAD" /\ r.n \in Nat
  BY <1>1, RequestFacts DEF IndInv, TypeOK, RequestInv
<1>10. before \in [Blocks -> Contents] /\ disk \in [Blocks -> Contents]
  BY DEF IndInv, TypeOK
<1> HIDE DEF u, c, a, f, g, r, x
<1>11. /\ Pending # <<>> /\ Head(Pending) = [tag |-> head, req |-> r]
       /\ Pending' = Tail(Pending)
  <2>1. Carry(u, a) # <<>> /\ Head(Carry(u, a)) = a[Head(u)] /\ Carry(w, a) = Tail(Carry(u, a))
    BY <1>1, <1>2, CarryTail
  <2> QED BY <1>1, <1>6, <1>7, <1>8, <2>1
<1>12. Answers' = Append(Answers, [tag |-> head, status |-> status, data |-> x])
  <2>1. Carry(d, g) = Append(Carry(c, g), g[head])
    BY <1>1, <1>2, CarryAppend
  <2>2. Carry(c, g) = Carry(c, f)
    BY <1>2, <1>4, CarrySame
  <2> QED BY <1>5, <1>7, <1>8, <2>1, <2>2
<1>13. Head(Pending).req = r /\ Head(Pending).tag = head
  BY <1>11
<1>14. Service!Answer(status, x)
  BY <1>11, <1>12, <1>13 DEF Service!Answer
<1>15. Blocks = Service!Blocks /\ Touched(r, r.n) = Service!Range(r)
  BY DEF Blocks, Service!Blocks, Touched, Service!Range
<1>a. PICK short \in SUBSET (Touched(r, r.n) \cap Short) :
        \E failed \in SUBSET (Touched(r, r.n) \ short) : Outcome(r, r.n, failed, short, x, status, disk, before)
  BY <1>1 DEF Work
<1>16. PICK failed \in SUBSET (Touched(r, r.n) \ short) :
        /\ short \in SUBSET (Touched(r, r.n) \cap Short)
        /\ Outcome(r, r.n, failed, short, x, status, disk, before)
  BY <1>a
<1>17. failed # {} => r.n > 0
  BY <1>9, <1>16 DEF Touched
<1>18. /\ short \in SUBSET (Service!Range(r) \cap Short)
       /\ failed \in SUBSET (Service!Range(r) \ short)
  BY <1>15, <1>16
<1>19. CASE r.type \in {"IN", "OUT"}
  <2>1. status = IF failed = {} THEN "OK" ELSE "IOERR"
    BY <1>16, <1>19 DEF Outcome
  <2>2. Service!Transfer(r, failed, short, status)
    <3>1. CASE r.type = "IN"
      <4>1. /\ x = [i \in 1..r.n |-> IF r.start + i - 1 \in failed \cup short
                                      THEN "stale" ELSE before[r.start + i - 1]]
            /\ disk = before
        BY <1>16, <3>1 DEF Outcome
      <4> QED BY <1>7, <1>8, <1>14, <3>1, <4>1 DEF Service!Transfer
    <3>2. CASE r.type = "OUT"
      <4>1. /\ disk = [b \in Blocks |-> IF b \in short THEN "torn"
                                         ELSE IF b \in Touched(r, r.n) \ failed THEN r.val ELSE before[b]]
            /\ x = <<>>
        BY <1>16, <3>2 DEF Outcome
      <4>2. disk = [b \in Service!Blocks |-> IF b \in short THEN "torn"
                       ELSE IF b \in Service!Range(r) \ failed THEN r.val ELSE before[b]]
        BY <1>15, <4>1
      <4>3. Medium' = [b \in Service!Blocks |-> IF b \in short THEN "torn"
                       ELSE IF b \in Service!Range(r) \ failed THEN r.val ELSE Medium[b]]
        BY <1>7, <1>8, <4>2
      <4>4. Service!Answer(status, <<>>)
        BY <1>14, <4>1
      <4> QED BY <3>2, <4>3, <4>4 DEF Service!Transfer
    <3> QED BY <1>19, <3>1, <3>2
  <2>3. CASE failed = {}
    <3>1. Service!Transfer(r, {}, short, "OK")
      BY <2>1, <2>2, <2>3
    <3> QED BY <1>11, <1>13, <1>18, <1>19, <3>1, Zenon DEF Service!ServeOk
  <2>4. CASE failed # {}
    <3>1. Service!Transfer(r, failed, short, "IOERR") /\ r.n > 0
      BY <1>17, <2>1, <2>2, <2>4
    <3> QED BY <1>11, <1>13, <1>18, <1>19, <2>4, <3>1, Zenon DEF Service!ServeError
  <2> QED BY <2>3, <2>4
<1>20. CASE r.type = "OTHER"
  <2>1. disk = before /\ x = <<>> /\ (status = IF r.n = 0 THEN "OK" ELSE "UNSUPP")
    BY <1>16, <1>20 DEF Outcome
  <2>2. CASE r.n = 0
    <3>1. Service!Transfer(r, {}, {}, "OK")
      BY <1>7, <1>8, <1>14, <1>20, <2>1, <2>2 DEF Service!Transfer
    <3> QED BY <1>11, <1>13, <2>2, <3>1, Zenon DEF Service!ServeOk
  <2>3. CASE r.n # 0
    BY <1>7, <1>8, <1>9, <1>11, <1>13, <1>14, <1>20, <2>1, <2>3 DEF Service!ServeUnsupported
  <2> QED BY <2>2, <2>3
<1>21. CASE r.type \in {"FLUSH", "GET_ID"}
  <2>1. disk = before /\ x = <<>> /\ status = "OK"
    BY <1>16, <1>21 DEF Outcome
  <2>2. Service!Transfer(r, {}, {}, "OK")
    BY <1>7, <1>8, <1>14, <1>21, <2>1 DEF Service!Transfer
  <2>3. r.type # "OTHER"
    BY <1>21
  <2> QED BY <1>11, <1>13, <2>2, <2>3, Zenon DEF Service!ServeOk
<1> QED BY <1>9, <1>19, <1>20, <1>21 DEF Types

\* Every step of the device and its driver is one of the service or none.
LEMMA StepRefines == ASSUME IndInv, [Next]_vars PROVE [Service!Next]_(Service!vars)
<1>1. CASE UNCHANGED vars
  <2>1. UNCHANGED <<ready, Unserveds, Answereds, chain, answer, Working, before, disk>>
    BY <1>1 DEF vars, devVars, guestVars, locals, Unserveds, Answereds, Working
  <2>2. Pending' = Pending /\ Answers' = Answers
    BY <2>1, QueuesSame
  <2>3. Medium' = Medium
    BY <2>1 DEF Medium, Working
  <2> QED BY <2>2, <2>3 DEF Service!vars
<1>2. CASE Setup
  <2>1. /\ ~ready /\ ready' /\ ring' = NewRing /\ lastUsed' = 0 /\ last' = 0
        /\ UNCHANGED <<pc, before, disk>>
    BY <1>2 DEF Setup, IndInv, ReadyInv, locals
  <2>2. Unserveds' = <<>> /\ Answereds' = <<>>
    BY <2>1, NewRingFacts DEF Unserveds, Answereds
  <2>3. <<>> \in Seq(Heads)
    OBVIOUS
  <2>4. Pending' = Carry(<<>>, Asked(chain')) /\ Answers' = Carry(<<>>, Given(answer'))
    BY <2>1, <2>2, <2>3, MappingNext
  <2>5. Pending' = <<>> /\ Answers' = <<>>
    BY <2>4 DEF Carry
  <2>6. Pending = <<>> /\ Answers = <<>>
    BY <2>1 DEF Pending, Answers
  <2>7. Medium' = Medium
    BY <2>1 DEF Medium
  <2> QED BY <2>5, <2>6, <2>7 DEF Service!vars
<1>3. CASE IrqTake \/ CollectEnd \/ ReadIrqStatus \/ WriteIrqAck
  <2>1. /\ UNCHANGED <<ready, chain, answer, before, disk, pc>>
        /\ Unserveds' = Unserveds /\ Answereds' = Answereds
    BY <1>3, HandlerInd DEF IrqTake, CollectEnd, ReadIrqStatus, WriteIrqAck, locals, devVars
  <2>2. Pending' = Pending /\ Answers' = Answers
    BY <2>1, QueuesSame
  <2>3. Medium' = Medium
    BY <2>1 DEF Medium
  <2> QED BY <2>2, <2>3 DEF Service!vars
<1>4. CASE Collect
  BY <1>4, CollectRefines DEF Service!Next
<1>5. ASSUME NEW v \in Vcpus, NEW h \in Heads, NEW r \in Requests, Post(v, h, r)
      PROVE  Service!Next
  BY <1>5, PostRefines DEF Service!Next
<1>6. CASE Reset
  <2>1. ~ready' /\ pc' = pc /\ disk' = disk /\ before' = before
    BY <1>6 DEF Reset, locals
  <2>2. Pending' = <<>> /\ Answers' = <<>> /\ Medium' = Medium
    BY <2>1 DEF Pending, Answers, Medium
  <2> QED BY <2>2 DEF Service!Next, Service!Reset
<1>7. ASSUME NEW v \in Vcpus, Notify(v) \/ BadRequest(v) \/ EndRequests(v)
      PROVE  UNCHANGED Service!vars
  <2>1. ~Working /\ ~Working' /\ UNCHANGED <<disk, ready, last, ring, chain, answer, lastUsed>>
    BY <1>7, LoopInd
  <2>2. Unserveds' = Unserveds /\ Answereds' = Answereds
    BY <2>1 DEF Unserveds, Answereds
  <2>3. Pending' = Pending /\ Answers' = Answers
    BY <2>1, <2>2, QueuesSame
  <2>4. Medium' = Medium
    BY <2>1 DEF Medium, Working
  <2> QED BY <2>3, <2>4 DEF Service!vars
<1>8. ASSUME NEW v \in Vcpus, TakeRequest(v) PROVE UNCHANGED Service!vars
  <2>1. /\ ~Working /\ Working' /\ before' = disk
        /\ UNCHANGED <<ready, last, ring, chain, answer, lastUsed>>
    BY <1>8, TakeInd
  <2>2. Unserveds' = Unserveds /\ Answereds' = Answereds
    BY <2>1 DEF Unserveds, Answereds
  <2>3. Pending' = Pending /\ Answers' = Answers
    BY <2>1, <2>2, QueuesSame
  <2>4. Medium' = Medium
    BY <2>1 DEF Medium, Working
  <2> QED BY <2>3, <2>4 DEF Service!vars
<1>9. ASSUME NEW v \in Vcpus, Read(v) \/ Write(v) \/ Unsupported(v) PROVE UNCHANGED Service!vars
  <2>1. /\ Working /\ Working' /\ UNCHANGED <<before, ready, last, ring, chain, lastUsed>>
        /\ \A g \in Heads : g # head => answer'[g] = answer[g]
    BY <1>9, TransferInd
  <2>2. Unserveds' = Unserveds /\ Answereds' = Answereds
    BY <2>1 DEF Unserveds, Answereds
  <2>3. \A i \in 1..Len(Answereds) : Answereds[i] \in Heads /\ Answereds[i] # head
    BY <2>1, ReadyFacts, WorkingFacts
  <2>4. \A i \in 1..Len(Answereds) : answer'[Answereds[i]] = answer[Answereds[i]]
    BY <2>1, <2>3
  <2>5. Pending' = Pending /\ Answers' = Answers
    BY <2>1, <2>2, <2>4, QueuesSame
  <2>6. Medium' = Medium
    BY <2>1 DEF Medium, Working
  <2> QED BY <2>5, <2>6 DEF Service!vars
<1>10. ASSUME NEW v \in Vcpus, SkipBuffer(v) PROVE UNCHANGED Service!vars
  <2>1. Working /\ Working' /\ UNCHANGED <<before, ready, last, ring, chain, answer, lastUsed>>
    BY <1>10, SkipInd
  <2>2. Unserveds' = Unserveds /\ Answereds' = Answereds
    BY <2>1 DEF Unserveds, Answereds
  <2>3. Pending' = Pending /\ Answers' = Answers
    BY <2>1, <2>2, QueuesSame
  <2>4. Medium' = Medium
    BY <2>1 DEF Medium, Working
  <2> QED BY <2>3, <2>4 DEF Service!vars
<1>11. ASSUME NEW v \in Vcpus, FinishRequest(v) PROVE Service!Next
  BY <1>11, FinishRefines DEF Service!Next
<1> QED BY <1>1, <1>2, <1>3, <1>4, <1>5, <1>6, <1>7, <1>8, <1>9, <1>10, <1>11 DEF Next, ProcessRq

\* The device implements the block service: every request is served once, in
\* order, against the effect of all earlier ones, and IOERR and UNSUPP are
\* reported exactly when the host refused a transfer or the type is unknown; of a
\* transfer that was only incomplete, and of a buffer passed over, the status
\* process_rq writes says nothing, and the service leaves both open under OK.
THEOREM Refinement == Spec => ImplementsService
<1>1. IndInv /\ [Next]_vars => [Service!Next]_(Service!vars)
  BY StepRefines
<1> QED BY <1>1, InitRefines, Invariance, PTL DEF Spec, ImplementsService, Service!Spec
=============================================================================
