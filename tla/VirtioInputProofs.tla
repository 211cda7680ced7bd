-------------------------- MODULE VirtioInputProofs --------------------------
(***************************************************************************)
(* Proofs about VirtioInput, for any number of host threads, any ring size *)
(* and index width, and any number of events, status messages and resets.  *)
(***************************************************************************)
EXTENDS VirtioInput, VirtqueueProofs, WellFoundedInduction

(***************************************************************************)
(* The inductive invariant.                                                *)
(***************************************************************************)
Offered(q)  == Unserved(last[q], ring[q])
Returned(q) == Uncollected(lastUsed[q], ring[q])
Handed      == Carry(Returned(0), buf)      \* the events in Returned(0)

HostLabels == {"idle", "flush"}
AskLabels  == {"select", "subsel", "read"}
DrvLabels  == AskLabels \cup {"fill", "idle", "kick events", "kick status", "flush", "drain"}
IrqLabels  == {"idle", "read", "ack", "collect", "kick events", "flush", "status"}

\* Where threads are, and that mtx_ is held by the one inside a flush or a
\* drain; injected is the local of that one.
LockInv ==
    /\ \A t \in Hosts : pc[t] \in HostLabels
    /\ pc["drv"] \in DrvLabels /\ pc["irq"] \in IrqLabels
    /\ \A t \in Threads : pc[t] \in {"flush", "drain"} <=> mtx = t
    /\ injected => mtx # "free"

\* The driver asks before it sets the queues up, and its interrupt handler
\* finds nothing to do before.
ReadyInv ==
    /\ ready <=> pc["drv"] \notin AskLabels
    /\ mtx # "free" \/ irqStatus = 1 \/ pc["irq"] \notin {"idle", "read"} => ready
    /\ ~ready => /\ got = <<>>
                 /\ \A q \in {0, 1} : last[q] = 0 /\ lastUsed[q] = 0 /\ ring[q] = NewRing /\ todo[q] = Heads
    /\ \A q \in {0, 1} : Accounted(last[q], ring[q], lastUsed[q], todo[q])

\* A buffer the driver has not collected is about to be signalled by the holder
\* of mtx_, has been signalled, or is about to be collected.
Covered(q) ==
    \/ injected
    \/ irqStatus = 1 /\ (spi \/ pc["irq"] \in {"read", "ack"})
    \/ pc["irq"] = "collect"
    \/ q = 1 /\ pc["irq"] \in {"kick events", "flush", "status"}
SignalInv == \A q \in {0, 1} : lastUsed[q] # ring[q].usedIdx => Covered(q)

\* The window shows what the driver asked for, and the driver knows the answers
\* to the queries it has made.
Configs == [select : {Unset, IdName, EvBits, AbsInfo}, subsel : {0, 1, 3},
            shows : SUBSET {"NAME", "SYN", "KEY", "BTN", "ABS", "RANGE X", "RANGE Y"}]
Answer(i) == UpdateConfig(Queries[i].select, Queries[i].subsel)
ProbeInv ==
    /\ config \in Configs
    /\ pc["drv"] \in {"subsel", "read"} =>
           probe < Len(Queries) /\ config.select = Queries[probe + 1].select
    /\ pc["drv"] = "read" => config.shows = Answer(probe + 1)
    /\ \A i \in 1..probe : Answer(i) \subseteq known
    /\ ready => probe = Len(Queries)

\* The events of p are the last Len(p) of the s sent.
LastSent(p, s) == Len(p) <= s /\ \A i \in 1..Len(p) : p[i].n = (s - Len(p)) + i

\* The guest has taken the events g and has to take those of c: they are among
\* the first k sent, in order, and the newest of these are there.
Passed(g, c, k, s) ==
    /\ \A i, j \in 1..Len(g) : i < j => g[i] < g[j]
    /\ \A i, j \in 1..Len(c) : i < j => c[i].n < c[j].n
    /\ \A i \in 1..Len(g), j \in 1..Len(c) : g[i] < c[j].n
    /\ \A i \in 1..Len(g) : g[i] \in 1..k
    /\ \A j \in 1..Len(c) : c[j].n \in 1..k
    /\ \A n \in 1..k : n > s - Cap => \/ \E i \in 1..Len(g) : g[i] = n
                                      \/ \E j \in 1..Len(c) : c[j].n = n

\* The events are of the classes the device announces.
OfKind(c) == \A j \in 1..Len(c) : c[j].class \in
                 IF kind = "Keyboard" THEN {"KEY", "SYN"} ELSE {"X", "Y", "BTN", "SYN"}

EventInv ==
    /\ sent <= events
    /\ LastSent(pending, sent) /\ OfKind(pending) /\ OfKind(Handed)
    /\ Passed(got, Handed, sent - Len(pending), sent)

IndInv == TypeOK /\ LockInv /\ ReadyInv /\ SignalInv /\ ProbeInv /\ EventInv

-----------------------------------------------------------------------------
(***************************************************************************)
(* The events on their way.                                                *)
(***************************************************************************)
\* At first none has been passed on; later that is so when the newest fill the
\* queue.
LEMMA PassedNone ==
    ASSUME NEW k \in Nat, NEW s \in Nat, k = 0 \/ k <= s - Cap PROVE Passed(<<>>, <<>>, k, s)
<1>1. Len(<<>>) = 0 /\ \A i \in 1..0 : FALSE
  OBVIOUS
<1>2. Cap \in Nat
  BY IndexFacts DEF Cap
<1>3. \A n \in 1..k : ~(n > s - Cap)
  BY <1>2
<1> QED BY <1>1, <1>3 DEF Passed

\* More is sent: either nothing is dropped, or the newest fill the queue.
LEMMA PassedSend ==
    ASSUME NEW g, NEW c, NEW k \in Nat, NEW s \in Nat, NEW k2 \in Nat, NEW s2 \in Nat,
           Passed(g, c, k, s), s <= s2, k <= k2, k2 = k \/ k2 <= s2 - Cap
    PROVE  Passed(g, c, k2, s2)
<1>1. Cap \in Nat
  BY IndexFacts DEF Cap
<1>2. 1..k \subseteq 1..k2
  OBVIOUS
<1>3. \A n \in 1..k2 : n > s2 - Cap => n \in 1..k /\ n > s - Cap
  BY <1>1
<1> QED BY <1>2, <1>3 DEF Passed

\* The next event goes into a buffer.
LEMMA PassedFlush ==
    ASSUME NEW g, NEW c \in Seq(Events), NEW k \in Nat, NEW s \in Nat, Passed(g, c, k, s),
           NEW e \in Events, e.n = k + 1
    PROVE  Passed(g, Append(c, e), k + 1, s)
<1> DEFINE d == Append(c, e)
           m == Len(c)
<1>1. /\ Len(d) = m + 1 /\ m \in Nat
      /\ \A i \in 1..(m + 1) : d[i] = IF i = m + 1 THEN e ELSE c[i]
  BY AppendAt
<1> HIDE DEF d
<1>2. ASSUME NEW i \in 1..Len(d) PROVE (i \in 1..m /\ d[i] = c[i]) \/ (i = m + 1 /\ d[i] = e)
  <2>1. i \in 1..(m + 1) /\ (i \in 1..m \/ i = m + 1) /\ (i \in 1..m => i # m + 1)
    BY <1>1
  <2> QED BY <1>1, <2>1
<1>3. \A i \in 1..m : i \in 1..Len(d) /\ d[i] = c[i]
  BY <1>1
<1>4. m + 1 \in 1..Len(d) /\ d[m + 1].n = k + 1
  BY <1>1
<1>5. k + 1 \in 1..(k + 1) /\ \A i \in 1..k : i \in 1..(k + 1) /\ i < k + 1
  OBVIOUS
<1>6. ASSUME NEW i \in 1..Len(d), NEW j \in 1..Len(d), i < j PROVE d[i].n < d[j].n
  <2>1. i \in 1..m /\ d[i] = c[i]
    BY <1>1, <1>2, <1>6
  <2>2. CASE j \in 1..m /\ d[j] = c[j]
    BY <1>6, <2>1, <2>2 DEF Passed
  <2>3. CASE j = m + 1 /\ d[j] = e
    BY <1>5, <2>1, <2>3 DEF Passed
  <2> QED BY <1>2, <2>2, <2>3
<1>7. ASSUME NEW i \in 1..Len(g), NEW j \in 1..Len(d) PROVE g[i] < d[j].n
  <2>1. g[i] \in 1..k /\ \A l \in 1..m : g[i] < c[l].n
    BY DEF Passed
  <2> QED BY <1>2, <1>5, <2>1
<1>8. \A i \in 1..Len(g) : g[i] \in 1..(k + 1)
  BY <1>5 DEF Passed
<1>9. \A j \in 1..Len(d) : d[j].n \in 1..(k + 1)
  BY <1>2, <1>5 DEF Passed
<1>10. ASSUME NEW n \in 1..(k + 1), n > s - Cap
       PROVE  (\E i \in 1..Len(g) : g[i] = n) \/ \E j \in 1..Len(d) : d[j].n = n
  <2>1. CASE n = k + 1
    BY <1>4, <2>1
  <2>2. CASE n # k + 1
    <3>1. n \in 1..k
      BY <2>2
    <3>2. (\E i \in 1..Len(g) : g[i] = n) \/ \E j \in 1..m : c[j].n = n
      BY <1>10, <3>1 DEF Passed
    <3> QED BY <1>3, <3>2
  <2> QED BY <2>1, <2>2
<1>11. Passed(g, d, k + 1, s)
  BY <1>6, <1>7, <1>8, <1>9, <1>10 DEF Passed
<1> QED BY <1>11 DEF d

\* The guest takes the oldest event.
LEMMA PassedCollect ==
    ASSUME NEW g \in Seq(Nat), NEW c \in Seq(Events), c # <<>>, NEW k \in Nat, NEW s \in Nat,
           Passed(g, c, k, s)
    PROVE  Passed(Append(g, Head(c).n), Tail(c), k, s)
<1> DEFINE e == Head(c).n
           a == Append(g, e)
           d == Tail(c)
           m == Len(g)
           l == Len(c)
<1>1. /\ Len(d) = l - 1 /\ l \in Nat \ {0} /\ Head(c) = c[1] /\ Head(c) \in Events
      /\ \A i \in 1..(l - 1) : d[i] = c[i + 1]
  BY TailAt
<1>2. e \in Nat /\ e = c[1].n /\ 1 \in 1..l
  BY <1>1, InputAssumption DEF Events
<1> HIDE DEF e, d
<1>3. /\ Len(a) = m + 1 /\ m \in Nat
      /\ \A i \in 1..(m + 1) : a[i] = IF i = m + 1 THEN e ELSE g[i]
  BY <1>2, AppendAt
<1> HIDE DEF a
<1>4. ASSUME NEW i \in 1..Len(a) PROVE (i \in 1..m /\ a[i] = g[i]) \/ (i = m + 1 /\ a[i] = e)
  <2>1. i \in 1..(m + 1) /\ (i \in 1..m \/ i = m + 1) /\ (i \in 1..m => i # m + 1)
    BY <1>3
  <2> QED BY <1>3, <2>1
<1>5. \A i \in 1..m : i \in 1..Len(a) /\ a[i] = g[i]
  BY <1>3
<1>6. m + 1 \in 1..Len(a) /\ a[m + 1] = e
  BY <1>3
<1>7. \A j \in 1..Len(d) : j + 1 \in 1..l /\ d[j] = c[j + 1] /\ 1 < j + 1
  BY <1>1
<1>8. \A j \in 1..l : j = 1 \/ (j - 1 \in 1..Len(d) /\ d[j - 1] = c[j])
  <2> SUFFICES ASSUME NEW j \in 1..l, j # 1 PROVE j - 1 \in 1..Len(d) /\ d[j - 1] = c[j]
    OBVIOUS
  <2>1. j - 1 \in 1..(l - 1) /\ (j - 1) + 1 = j
    BY <1>1
  <2> QED BY <1>1, <2>1
<1>9. e \in 1..k /\ (\A i \in 1..m : g[i] < e) /\ \A j \in 1..Len(d) : e < d[j].n
  BY <1>2, <1>7 DEF Passed
<1>10. ASSUME NEW i \in 1..Len(a), NEW j \in 1..Len(a), i < j PROVE a[i] < a[j]
  <2>1. i \in 1..m /\ a[i] = g[i]
    BY <1>3, <1>4, <1>10
  <2>2. CASE j \in 1..m /\ a[j] = g[j]
    BY <1>10, <2>1, <2>2 DEF Passed
  <2>3. CASE j = m + 1 /\ a[j] = e
    BY <1>9, <2>1, <2>3
  <2> QED BY <1>4, <2>2, <2>3
<1>11. ASSUME NEW i \in 1..Len(d), NEW j \in 1..Len(d), i < j PROVE d[i].n < d[j].n
  <2>1. i + 1 \in 1..l /\ d[i] = c[i + 1] /\ j + 1 \in 1..l /\ d[j] = c[j + 1] /\ i + 1 < j + 1
    BY <1>1, <1>7, <1>11
  <2> QED BY <2>1 DEF Passed
<1>12. ASSUME NEW i \in 1..Len(a), NEW j \in 1..Len(d) PROVE a[i] < d[j].n
  <2>1. j + 1 \in 1..l /\ d[j] = c[j + 1]
    BY <1>7
  <2>2. \A x \in 1..m : g[x] < d[j].n
    BY <2>1 DEF Passed
  <2> QED BY <1>4, <1>9, <2>2
<1>13. \A i \in 1..Len(a) : a[i] \in 1..k
  BY <1>4, <1>9 DEF Passed
<1>14. \A j \in 1..Len(d) : d[j].n \in 1..k
  BY <1>7 DEF Passed
<1>15. ASSUME NEW n \in 1..k, n > s - Cap
       PROVE  (\E i \in 1..Len(a) : a[i] = n) \/ \E j \in 1..Len(d) : d[j].n = n
  <2>1. (\E i \in 1..m : g[i] = n) \/ \E j \in 1..l : c[j].n = n
    BY <1>15 DEF Passed
  <2>2. ASSUME NEW j \in 1..l, c[j].n = n PROVE n = e \/ \E i \in 1..Len(d) : d[i].n = n
    BY <1>2, <1>8, <2>2
  <2> QED BY <1>5, <1>6, <2>1, <2>2
<1>16. Passed(a, d, k, s)
  BY <1>10, <1>11, <1>12, <1>13, <1>14, <1>15 DEF Passed
<1> QED BY <1>16 DEF a, d, e

\* What push_event_locked keeps of a queue are the last events sent.
LEMMA NewestFacts ==
    ASSUME NEW x \in Seq(Events), NEW s \in Nat, LastSent(x, s), OfKind(x), NEW q, q = Newest(x)
    PROVE  /\ q \in Seq(Events) /\ Len(q) <= Cap /\ LastSent(q, s) /\ OfKind(q)
           /\ Len(q) <= Len(x) /\ (Len(q) = Len(x) \/ Len(q) = Cap)
<1>1. Cap \in Nat /\ Len(x) \in Nat
  BY IndexFacts DEF Cap
<1>2. CASE Len(x) <= Cap
  <2>1. q = x
    BY <1>1, <1>2 DEF Newest
  <2> QED BY <1>1, <1>2, <2>1
<1>3. CASE Len(x) > Cap
  <2> DEFINE d == Len(x) - Cap
  <2>1. q = SubSeq(x, d + 1, Len(x)) /\ d \in Nat
    BY <1>1, <1>3 DEF Newest
  <2>2. /\ q \in Seq(Events) /\ Len(q) = Cap
        /\ \A i \in 1..Cap : q[i] = x[d + i]
    <3>1. d + 1 \in 1..(Len(x) + 1) /\ d + 1 <= Len(x) + 1 /\ Len(x) \in 0..Len(x)
          /\ Len(x) - (d + 1) + 1 = Cap
      BY <1>1, <1>3
    <3> QED BY <1>1, <1>3, <2>1, <3>1
  <2> HIDE DEF d
  <2>3. \A i \in 1..Cap : d + i \in 1..Len(x)
    BY <1>1, <1>3 DEF d
  <2>4. LastSent(q, s)
    <3>1. Len(q) <= s
      BY <1>1, <1>3, <2>2 DEF LastSent
    <3>2. ASSUME NEW i \in 1..Cap PROVE q[i].n = (s - Cap) + i
      <4>1. x[d + i].n = (s - Len(x)) + (d + i)
        BY <2>3 DEF LastSent
      <4> QED BY <1>1, <2>2, <4>1 DEF d
    <3> QED BY <2>2, <3>1, <3>2 DEF LastSent
  <2>5. OfKind(q)
    BY <2>2, <2>3 DEF OfKind
  <2> QED BY <1>1, <1>3, <2>2, <2>4, <2>5
<1> QED BY <1>1, <1>2, <1>3

\* The events of a report.
ReportEvents(s) == [i \in 1..Len(Report(kind)) |-> [n |-> s + i, class |-> Report(kind)[i]]]

\* They follow those already queued.
LEMMA ReportFacts ==
    ASSUME NEW p \in Seq(Events), NEW s \in Nat, LastSent(p, s), OfKind(p), kind \in Kinds,
           s + Len(Report(kind)) <= MaxEvents, NEW x, x = p \o ReportEvents(s)
    PROVE  /\ Len(Report(kind)) \in Nat /\ x \in Seq(Events) /\ Len(x) = Len(p) + Len(Report(kind))
           /\ LastSent(x, s + Len(Report(kind))) /\ OfKind(x)
<1> DEFINE C == IF kind = "Keyboard" THEN {"KEY", "SYN"} ELSE {"X", "Y", "BTN", "SYN"}
           r == Report(kind)
           l == Len(r)
           e == ReportEvents(s)
           m == Len(p)
<1>1. l \in Nat /\ \A i \in 1..l : r[i] \in Classes /\ r[i] \in C
  <2>1. CASE kind = "Keyboard"
    BY <2>1 DEF Report, Classes
  <2>2. CASE kind = "Tablet"
    BY <2>2 DEF Report, Classes
  <2> QED BY <2>1, <2>2 DEF Kinds
<1>2. e = [i \in 1..l |-> [n |-> s + i, class |-> r[i]]] /\ s + l <= MaxEvents
  BY DEF ReportEvents
<1>3. (\A j \in 1..m : p[j].class \in C) /\ x = p \o e
  BY DEF OfKind
<1> HIDE DEF r, l, e, C
<1>4. \A i \in 1..l : e[i] \in Events /\ e[i].n = s + i /\ e[i].class = r[i]
  <2> SUFFICES ASSUME NEW i \in 1..l
               PROVE  e[i] \in Events /\ e[i].n = s + i /\ e[i].class = r[i]
    OBVIOUS
  <2>1. e[i] = [n |-> s + i, class |-> r[i]]
    BY <1>2
  <2>2. s + i \in 1..MaxEvents /\ r[i] \in Classes
    BY <1>1, <1>2, InputAssumption
  <2> QED BY <2>1, <2>2 DEF Events
<1>5. e \in Seq(Events) /\ Len(e) = l
  <2>1. e \in [1..l -> Events]
    BY <1>2, <1>4
  <2> QED BY <1>1, <2>1, IsASeq, LenProperties
<1>6. /\ x \in Seq(Events) /\ Len(x) = m + l /\ m \in Nat
      /\ \A i \in 1..(m + l) : x[i] = IF i <= m THEN p[i] ELSE e[i - m]
  <2>1. /\ p \o e \in Seq(Events) /\ Len(p \o e) = Len(p) + Len(e)
        /\ \A i \in 1..(Len(p) + Len(e)) : (p \o e)[i] = IF i <= Len(p) THEN p[i] ELSE e[i - Len(p)]
    BY <1>5, ConcatProperties, Zenon
  <2>2. Len(p) \in Nat
    OBVIOUS
  <2> QED BY <1>3, <1>5, <2>1, <2>2, Zenon
<1>7. \A i \in 1..(m + l) : i \in 1..m \/ (i - m \in 1..l /\ ~(i <= m))
  BY <1>1, <1>6
<1>8. \A i \in 1..m : i <= m
  OBVIOUS
<1>9. ASSUME NEW i \in 1..(m + l) PROVE x[i].n = ((s + l) - (m + l)) + i
  <2>1. CASE i \in 1..m
    <3>1. x[i] = p[i] /\ p[i].n = (s - m) + i
      BY <1>6, <1>8, <2>1 DEF LastSent
    <3> QED BY <1>1, <1>6, <3>1
  <2>2. CASE i - m \in 1..l /\ ~(i <= m)
    <3>1. x[i] = e[i - m] /\ e[i - m].n = s + (i - m)
      BY <1>4, <1>6, <2>2
    <3> QED BY <1>1, <1>6, <3>1
  <2> QED BY <1>7, <2>1, <2>2
<1>10. ASSUME NEW i \in 1..(m + l) PROVE x[i].class \in C
  BY <1>1, <1>3, <1>4, <1>6, <1>7, <1>8
<1>11. LastSent(x, s + l)
  <2>1. m + l <= s + l
    BY <1>1, <1>6 DEF LastSent
  <2> QED BY <1>6, <1>9, <2>1 DEF LastSent
<1>12. OfKind(x)
  BY <1>6, <1>10 DEF OfKind, C
<1> QED BY <1>1, <1>6, <1>11, <1>12 DEF l, r

-----------------------------------------------------------------------------
(***************************************************************************)
(* Facts of one state.                                                     *)
(***************************************************************************)
Labels == {"idle", "select", "subsel", "read", "fill", "kick events", "kick status", "flush", "drain",
           "ack", "collect", "status"}

\* Threads have different names, and none is "free".
LEMMA ThreadFacts ==
    /\ "drv" \in Threads /\ "irq" \in Threads /\ Hosts \subseteq Threads
    /\ "drv" \notin Hosts /\ "irq" \notin Hosts
    /\ \A t \in Threads : t # "free" /\ (t \in Hosts \/ t = "drv" \/ t = "irq")
  BY InputAssumption DEF Threads

\* Every buffer and every status chain is in one place.
LEMMA QueueState ==
    ASSUME IndInv, NEW q \in {0, 1}
    PROVE  /\ Accounted(last[q], ring[q], lastUsed[q], todo[q])
           /\ Offered(q) \in Seq(Heads) /\ Returned(q) \in Seq(Heads)
           /\ Apart(Offered(q), Returned(q), todo[q])
<1>1. Accounted(last[q], ring[q], lastUsed[q], todo[q])
  BY DEF IndInv, ReadyInv
<1> QED BY <1>1 DEF Accounted, Partition, Offered, Returned

\* The buffers the driver has to collect hold events.
LEMMA HandedFacts ==
    ASSUME IndInv
    PROVE  /\ Handed \in Seq(Events) /\ Len(Handed) = Len(Returned(0))
           /\ \A j \in 1..Len(Returned(0)) : Handed[j] = buf[Returned(0)[j]]
<1>1. Returned(0) \in Seq(Heads) /\ buf \in [Heads -> Events \cup {Blank}]
  BY QueueState DEF IndInv, TypeOK
<1>2. /\ Len(Handed) = Len(Returned(0)) /\ Len(Handed) \in Nat
      /\ \A j \in 1..Len(Handed) : Handed[j] = buf[Returned(0)[j]] /\ Returned(0)[j] \in Heads
  BY <1>1, CarryFacts DEF Handed
<1>3. ASSUME NEW j \in 1..Len(Handed) PROVE Handed[j] \in Events
  <2>1. Handed[j] \in Events \cup {Blank}
    BY <1>1, <1>2
  <2>2. Handed[j].n # 0
    BY DEF IndInv, EventInv, Passed
  <2>3. Blank.n = 0
    BY DEF Blank
  <2> QED BY <2>1, <2>2, <2>3
<1>4. Handed \in Seq(Events)
  <2>1. DOMAIN Handed = 1..Len(Handed) /\ \E S : Handed \in Seq(S)
    BY <1>1, CarryFacts DEF Handed
  <2>2. Handed = [j \in 1..Len(Handed) |-> Handed[j]]
    BY <2>1
  <2>3. Handed \in [1..Len(Handed) -> Events]
    BY <1>3, <2>2
  <2> QED BY <1>2, <2>3, IsASeq
<1> QED BY <1>2, <1>4

\* The thread inside a flush or a drain holds mtx_, alone; the queues are ready.
LEMMA HolderFacts ==
    ASSUME IndInv, NEW t \in Threads, pc[t] \in {"flush", "drain"}
    PROVE  /\ mtx = t /\ mtx # "free" /\ ready
           /\ \A u \in Threads : u # t => pc[u] \notin {"flush", "drain"}
<1>1. mtx = t /\ t # "free"
  BY ThreadFacts DEF IndInv, LockInv
<1> QED BY <1>1 DEF IndInv, LockInv, ReadyInv

\* Nobody is inside one when mtx_ is free.
LEMMA FreeFacts ==
    ASSUME IndInv, mtx = "free"
    PROVE  injected = FALSE /\ \A t \in Threads : pc[t] \notin {"flush", "drain"}
  BY ThreadFacts DEF IndInv, LockInv, TypeOK

\* Moving a thread.
LEMMA GotoFacts ==
    ASSUME IndInv, NEW t \in Threads, NEW l \in Labels, Goto(t, l)
    PROVE  pc' \in [Threads -> Labels] /\ pc'[t] = l /\ \A u \in Threads : u # t => pc'[u] = pc[u]
<1>1. pc \in [Threads -> Labels] /\ pc' = [pc EXCEPT ![t] = l]
  BY DEF IndInv, TypeOK, Goto, Labels
<1> QED BY <1>1

\* Steps that leave the events where they are.
LEMMA EventKept ==
    ASSUME IndInv, UNCHANGED <<kind, got, Returned(0), buf, pending, sent, events>> PROVE EventInv'
<1>1. Handed' = Handed
  BY DEF Handed
<1> QED BY <1>1 DEF IndInv, EventInv, OfKind

\* In particular those that leave the rings alone.
LEMMA EventSame ==
    ASSUME IndInv, UNCHANGED <<kind, got, lastUsed, ring, buf, pending, sent, events>> PROVE EventInv'
<1>1. Returned(0)' = Returned(0)
  BY DEF Returned
<1> QED BY <1>1, EventKept

\* Steps that leave the window and the driver's queries alone.
LEMMA ProbeSame ==
    ASSUME IndInv, UNCHANGED <<kind, config, probe, known>>, ready' => ready,
           pc'["drv"] \in {"subsel", "read"} => pc'["drv"] = pc["drv"]
    PROVE  ProbeInv'
<1>1. \A i : Answer(i)' = Answer(i)
  BY DEF Answer, UpdateConfig
<1> QED BY <1>1 DEF IndInv, ProbeInv

\* The driver's queries.
LEMMA QueryFacts ==
    /\ Len(Queries) = 5
    /\ Queries[2].select = EvBits /\ Queries[2].subsel = EvKey
    /\ Queries[3].select = EvBits /\ Queries[3].subsel = EvAbs
    /\ Queries[4].select = AbsInfo /\ Queries[4].subsel = 0
    /\ Queries[5].select = AbsInfo /\ Queries[5].subsel = 1
    /\ \A i \in 1..5 : Queries[i].select \in {IdName, EvBits, AbsInfo} /\ Queries[i].subsel \in {0, 1, 3}
<1>1. 1..5 = {1, 2, 3, 4, 5}
  OBVIOUS
<1> QED BY <1>1 DEF Queries, EvKey, EvAbs

\* Once the queues are ready the guest accepts every event of the device.
LEMMA Accepted ==
    ASSUME IndInv, ready, NEW e,
           e \in IF kind = "Keyboard" THEN {"KEY", "SYN"} ELSE {"X", "Y", "BTN", "SYN"}
    PROVE  Needs(e) \subseteq known
<1>1. kind \in Kinds /\ Answer(2) \subseteq known /\ Answer(3) \subseteq known
      /\ Answer(4) \subseteq known /\ Answer(5) \subseteq known
  <2>1. probe = 5
    BY QueryFacts DEF IndInv, ProbeInv
  <2>2. 2 \in 1..5 /\ 3 \in 1..5 /\ 4 \in 1..5 /\ 5 \in 1..5
    OBVIOUS
  <2> QED BY <2>1, <2>2 DEF IndInv, ProbeInv, TypeOK
<1>2. CASE kind = "Keyboard"
  <2>1. Answer(2) = {"KEY", "BTN"}
    BY <1>2, QueryFacts DEF Answer, UpdateConfig, IdName, EvBits, EvSyn, EvKey
  <2> QED BY <1>1, <1>2, <2>1 DEF Needs
<1>3. CASE kind = "Tablet"
  <2>1. Answer(2) = {"BTN"}
    BY <1>3, QueryFacts DEF Answer, UpdateConfig, IdName, EvBits, EvSyn, EvKey, EvAbs, AbsInfo
  <2>2. Answer(3) = {"ABS"}
    BY <1>3, QueryFacts DEF Answer, UpdateConfig, IdName, EvBits, EvSyn, EvKey, EvAbs
  <2>3. Answer(4) = {"RANGE X"}
    BY <1>3, QueryFacts DEF Answer, UpdateConfig, IdName, EvBits, AbsInfo
  <2>4. Answer(5) = {"RANGE Y"}
    BY <1>3, QueryFacts DEF Answer, UpdateConfig, IdName, EvBits, AbsInfo
  <2> QED BY <1>1, <1>3, <2>1, <2>2, <2>3, <2>4 DEF Needs
<1> QED BY <1>1, <1>2, <1>3 DEF Kinds

-----------------------------------------------------------------------------
(***************************************************************************)
(* Each step keeps the invariant.                                          *)
(***************************************************************************)
\* Initially.
LEMMA InitInd == Init => IndInv
<1> SUFFICES ASSUME Init PROVE IndInv
  OBVIOUS
<1>1. /\ NewRing \in Rings /\ 0 \in Indices /\ Uncollected(0, NewRing) = <<>> /\ NewRing.usedIdx = 0
      /\ 0 \in 0..MaxEvents /\ 0 \in 0..MaxStatus /\ 0 \in 0..MaxReset /\ Cap \in Nat
  BY NewRingFacts, InputAssumption, IndexFacts DEF Cap, NewRing
<1>2. \A S : <<>> \in Seq(S) /\ Len(<<>>) = 0
  OBVIOUS
<1>3. \A q \in {0, 1} : last[q] = 0 /\ lastUsed[q] = 0 /\ ring[q] = NewRing /\ todo[q] = Heads
  BY DEF Init, Both
<1>4. TypeOK
  <2>1. /\ last \in [{0, 1} -> Indices] /\ ring \in [{0, 1} -> Rings] /\ lastUsed \in [{0, 1} -> Indices]
        /\ todo \in [{0, 1} -> SUBSET Heads] /\ buf \in [Heads -> Events \cup {Blank}]
    BY <1>1 DEF Init, Both
  <2>2. pc \in [Threads -> Labels]
    BY DEF Init, Labels
  <2>3. pending \in Seq(Events) /\ Len(pending) <= Cap /\ got \in Seq(1..MaxEvents) /\ probe \in 0..Len(Queries)
    BY <1>1, <1>2, QueryFacts DEF Init
  <2>4. config.select = Unset /\ config.subsel = 0
    BY DEF Init
  <2> QED BY <1>1, <2>1, <2>2, <2>3, <2>4 DEF Init, TypeOK, Labels
<1>5. LockInv
  BY ThreadFacts DEF Init, LockInv, HostLabels, DrvLabels, AskLabels, IrqLabels
<1>6. ReadyInv
  BY <1>3, ThreadFacts, AccountedNew DEF Init, ReadyInv, AskLabels
<1>7. SignalInv
  BY <1>1, <1>3 DEF SignalInv
<1>8. ProbeInv
  <2>1. config \in Configs
    BY DEF Init, Configs
  <2> QED BY <2>1, ThreadFacts DEF Init, ProbeInv
<1>9. EventInv
  <2>1. Handed = <<>>
    <3>1. Returned(0) = <<>>
      BY <1>1, <1>3 DEF Returned
    <3> QED BY <1>2, <3>1, CarryFacts DEF Handed
  <2>2. LastSent(<<>>, 0) /\ OfKind(<<>>)
    BY <1>2 DEF LastSent, OfKind
  <2>3. Passed(<<>>, <<>>, 0, 0)
    BY PassedNone
  <2>4. sent - Len(pending) = 0 /\ sent <= events
    <3>1. sent = 0 /\ events = 0 /\ Len(pending) = 0
      BY DEF Init
    <3> QED BY <3>1
  <2> QED BY <2>1, <2>2, <2>3, <2>4 DEF Init, EventInv
<1> QED BY <1>4, <1>5, <1>6, <1>7, <1>8, <1>9 DEF IndInv

\* The handler's steps that touch neither the rings nor the buffers: before it
\* clears irq_status_ it has set out to collect.
LEMMA HandlerInd ==
    ASSUME IndInv, IrqTake \/ ReadIrqStatus \/ WriteIrqAck \/ CollectedEvents PROVE IndInv'
<1>1. UNCHANGED <<kind, mtx, pending, injected, last, ready, config, ring, buf, lastUsed, todo, probe,
                  known, got, sent, events, stats, resets>>
  BY DEF IrqTake, ReadIrqStatus, WriteIrqAck, CollectedEvents, devVars, guestVars, countVars
<1>2. \/ /\ IrqTake /\ pc["irq"] = "idle" /\ Goto("irq", "read") /\ spi' = FALSE /\ irqStatus' = irqStatus /\ spi
      \/ /\ ReadIrqStatus /\ pc["irq"] = "read" /\ irqStatus = 1 /\ Goto("irq", "ack")
         /\ UNCHANGED <<spi, irqStatus>>
      \/ /\ ReadIrqStatus /\ pc["irq"] = "read" /\ irqStatus # 1 /\ Goto("irq", "idle")
         /\ UNCHANGED <<spi, irqStatus>>
      \/ /\ WriteIrqAck /\ pc["irq"] = "ack" /\ Goto("irq", "collect") /\ irqStatus' = 0 /\ spi' = spi
      \/ /\ CollectedEvents /\ pc["irq"] = "collect" /\ lastUsed[0] = ring[0].usedIdx
         /\ Goto("irq", "kick events") /\ UNCHANGED <<spi, irqStatus>>
  BY DEF IrqTake, ReadIrqStatus, WriteIrqAck, CollectedEvents, devVars
<1>3. /\ pc' \in [Threads -> Labels]
      /\ \A u \in Threads : u # "irq" => pc'[u] = pc[u]
      /\ \A l \in Labels : Goto("irq", l) => pc'["irq"] = l
  <2>1. "irq" \in Threads
    BY ThreadFacts
  <2>2. \A l \in Labels : Goto("irq", l) =>
            /\ pc' \in [Threads -> Labels] /\ pc'["irq"] = l
            /\ \A u \in Threads : u # "irq" => pc'[u] = pc[u]
    BY <2>1, GotoFacts
  <2>3. \E l \in Labels : Goto("irq", l)
    BY <1>2 DEF Labels
  <2> QED BY <2>2, <2>3
<1>4. \/ pc["irq"] = "idle" /\ pc'["irq"] = "read" /\ spi' = FALSE /\ irqStatus' = irqStatus
      \/ pc["irq"] = "read" /\ irqStatus = 1 /\ pc'["irq"] = "ack" /\ UNCHANGED <<spi, irqStatus>>
      \/ pc["irq"] = "read" /\ irqStatus # 1 /\ pc'["irq"] = "idle" /\ UNCHANGED <<spi, irqStatus>>
      \/ pc["irq"] = "ack" /\ pc'["irq"] = "collect" /\ irqStatus' = 0 /\ spi' = spi
      \/ /\ pc["irq"] = "collect" /\ lastUsed[0] = ring[0].usedIdx
         /\ pc'["irq"] = "kick events" /\ UNCHANGED <<spi, irqStatus>>
  BY <1>2, <1>3 DEF Labels
<1>5. TypeOK'
  BY <1>1, <1>3, <1>4 DEF IndInv, TypeOK, Labels
<1>6. LockInv'
  BY <1>1, <1>3, <1>4, ThreadFacts DEF IndInv, LockInv, IrqLabels
<1>7. ReadyInv'
  BY <1>1, <1>3, <1>4, ThreadFacts DEF IndInv, ReadyInv
<1>8. SignalInv'
  BY <1>1, <1>4 DEF IndInv, SignalInv, Covered
<1>9. ProbeInv' /\ EventInv'
  BY <1>1, <1>3, ThreadFacts, ProbeSame, EventSame
<1> QED BY <1>5, <1>6, <1>7, <1>8, <1>9 DEF IndInv

\* What the window can show.
LEMMA ShowsType ==
    \A a, b : UpdateConfig(a, b) \in SUBSET {"NAME", "SYN", "KEY", "BTN", "ABS", "RANGE X", "RANGE Y"}
<1> SUFFICES ASSUME NEW a, NEW b
             PROVE  UpdateConfig(a, b) \subseteq {"NAME", "SYN", "KEY", "BTN", "ABS", "RANGE X", "RANGE Y"}
  OBVIOUS
<1> DEFINE K == IF kind = "Keyboard" THEN {"KEY", "BTN"} ELSE {"BTN"}
<1>1. K \subseteq {"KEY", "BTN"}
  OBVIOUS
<1>2. UpdateConfig(a, b) \in {{"NAME"}, {"SYN"}, K, {"ABS"}, {"RANGE X"}, {"RANGE Y"}, {}}
  <2> HIDE DEF K
  <2> QED BY DEF UpdateConfig, K
<1> QED BY <1>1, <1>2

\* A query: the window follows what was selected.
LEMMA ProbeInd == ASSUME IndInv, Probe PROVE IndInv'
<1> DEFINE i == probe + 1
<1>1. /\ UNCHANGED <<kind, mtx, pending, injected, last, ready, irqStatus, spi, ring, buf, lastUsed, todo,
                     got, sent, events, stats, resets>>
      /\ mtx = "free" /\ pc["drv"] \in AskLabels
  BY DEF Probe, WriteSelect, WriteSubsel, ReadConfig, devVars, guestVars, countVars, AskLabels
<1>2. config \in Configs /\ probe \in 0..5 /\ (\A l \in 1..probe : Answer(l) \subseteq known)
  BY QueryFacts DEF IndInv, ProbeInv, TypeOK
<1>3. ~ready
  BY <1>1 DEF IndInv, ReadyInv
<1>4. \A l : Answer(l)' = Answer(l)
  BY <1>1 DEF Answer, UpdateConfig
<1>5. /\ ProbeInv' /\ probe' \in 0..5 /\ \E l \in AskLabels : Goto("drv", l)
  <2>1. CASE WriteSelect
    <3> DEFINE s == Queries[i].select
               v == UpdateConfig(s, config.subsel)
    <3>1. /\ probe < 5 /\ i \in 1..5 /\ config' = [config EXCEPT !.select = s, !.shows = v]
          /\ Goto("drv", "subsel") /\ UNCHANGED <<probe, known>>
      BY <1>2, <2>1, QueryFacts DEF WriteSelect, guestVars
    <3>2. s \in {Unset, IdName, EvBits, AbsInfo} /\ v \in SUBSET {"NAME", "SYN", "KEY", "BTN", "ABS", "RANGE X", "RANGE Y"}
      BY <3>1, QueryFacts, ShowsType
    <3>3. pc'["drv"] = "subsel"
      BY <3>1, ThreadFacts, GotoFacts DEF Labels
    <3> HIDE DEF s, v
    <3>4. config' \in Configs /\ config'.select = s
      BY <1>2, <3>1, <3>2 DEF Configs
    <3> QED BY <1>1, <1>2, <1>3, <1>4, <3>1, <3>3, <3>4, QueryFacts DEF ProbeInv, AskLabels, s
  <2>2. CASE WriteSubsel
    <3> DEFINE s == Queries[i].subsel
               v == UpdateConfig(config.select, s)
    <3>1. /\ probe < 5 /\ i \in 1..5 /\ config.select = Queries[i].select
      BY <1>2, <2>2, QueryFacts DEF WriteSubsel, IndInv, ProbeInv
    <3>2. /\ config' = [config EXCEPT !.subsel = s, !.shows = v]
          /\ Goto("drv", "read") /\ UNCHANGED <<probe, known>>
      BY <2>2 DEF WriteSubsel, guestVars
    <3>3. s \in {0, 1, 3} /\ v \in SUBSET {"NAME", "SYN", "KEY", "BTN", "ABS", "RANGE X", "RANGE Y"}
      BY <3>1, QueryFacts, ShowsType
    <3>4. pc'["drv"] = "read"
      BY <3>2, ThreadFacts, GotoFacts DEF Labels
    <3>5. v = Answer(i)
      BY <3>1 DEF Answer
    <3> HIDE DEF s, v
    <3>6. config' \in Configs /\ config'.select = config.select /\ config'.shows = v
      BY <1>2, <3>2, <3>3 DEF Configs
    <3> QED BY <1>1, <1>2, <1>3, <1>4, <3>1, <3>2, <3>4, <3>5, <3>6, QueryFacts DEF ProbeInv, AskLabels
  <2>3. CASE ReadConfig
    <3>1. /\ probe < 5 /\ config.shows = Answer(i) /\ Goto("drv", "select")
          /\ config' = config /\ known' = known \cup config.shows /\ probe' = i
      BY <1>2, <2>3, QueryFacts DEF ReadConfig, devVars, IndInv, ProbeInv
    <3>2. pc'["drv"] = "select"
      BY <3>1, ThreadFacts, GotoFacts DEF Labels
    <3>3. i \in 0..5 /\ \A l \in 1..i : l \in 1..probe \/ l = i
      BY <1>2, <3>1
    <3>4. \A l \in 1..i : Answer(l) \subseteq known'
      BY <1>2, <3>1, <3>3
    <3> QED BY <1>1, <1>2, <1>3, <1>4, <3>1, <3>2, <3>3, <3>4 DEF ProbeInv, AskLabels
  <2> QED BY <2>1, <2>2, <2>3 DEF Probe
<1>6. /\ pc' \in [Threads -> Labels] /\ pc'["drv"] \in AskLabels
      /\ \A u \in Threads : u # "drv" => pc'[u] = pc[u]
  <2>1. "drv" \in Threads /\ AskLabels \subseteq Labels
    BY ThreadFacts DEF AskLabels, Labels
  <2> QED BY <1>5, <2>1, GotoFacts
<1>7. TypeOK'
  BY <1>1, <1>5, <1>6, QueryFacts DEF IndInv, TypeOK, Labels, ProbeInv, Configs
<1>8. LockInv'
  BY <1>1, <1>6, ThreadFacts DEF IndInv, LockInv, DrvLabels, AskLabels
<1>9. ReadyInv'
  BY <1>1, <1>6, ThreadFacts DEF IndInv, ReadyInv
<1>10. SignalInv'
  BY <1>1, <1>6, ThreadFacts DEF IndInv, SignalInv, Covered
<1>11. EventInv'
  BY <1>1, EventSame
<1> QED BY <1>5, <1>7, <1>8, <1>9, <1>10, <1>11 DEF IndInv

\* Setting the queues up, after the last query.
LEMMA SetupInd == ASSUME IndInv, Setup PROVE IndInv'
<1>1. /\ mtx = "free" /\ probe = Len(Queries) /\ pc["irq"] = "idle" /\ ready' = TRUE /\ Goto("drv", "fill")
      /\ pc["drv"] = "select"
      /\ UNCHANGED <<kind, mtx, pending, injected, last, irqStatus, spi, config, ring, buf, lastUsed, todo,
                     probe, known, got, sent, events, stats, resets>>
  BY DEF Setup, guestVars, countVars
<1>2. pc' \in [Threads -> Labels] /\ pc'["drv"] = "fill" /\ \A u \in Threads : u # "drv" => pc'[u] = pc[u]
  BY <1>1, ThreadFacts, GotoFacts DEF Labels
<1>3. TypeOK'
  BY <1>1, <1>2 DEF IndInv, TypeOK, Labels
<1>4. LockInv'
  BY <1>1, <1>2, ThreadFacts DEF IndInv, LockInv, DrvLabels, AskLabels
<1>5. ReadyInv'
  BY <1>1, <1>2, ThreadFacts DEF IndInv, ReadyInv, AskLabels
<1>6. SignalInv'
  BY <1>1, <1>2, ThreadFacts DEF IndInv, SignalInv, Covered
<1>7. ProbeInv'
  <2>1. \A l : Answer(l)' = Answer(l)
    BY <1>1 DEF Answer, UpdateConfig
  <2> QED BY <1>1, <1>2, <2>1 DEF IndInv, ProbeInv
<1>8. EventInv'
  BY <1>1, EventSame
<1> QED BY <1>3, <1>4, <1>5, <1>6, <1>7, <1>8 DEF IndInv

\* A reset, while no handler runs, starts everything anew.
LEMMA ResetInd == ASSUME IndInv, Reset PROVE IndInv'
<1>1. /\ mtx = "free" /\ pc["irq"] = "idle" /\ resets < MaxReset /\ resets' = resets + 1
      /\ last' = Both(0) /\ ready' = FALSE /\ irqStatus' = 0 /\ pending' = <<>> /\ sent' = 0
      /\ ring' = Both(NewRing) /\ buf' = [h \in Heads |-> Blank]
      /\ lastUsed' = Both(0) /\ todo' = Both(Heads) /\ probe' = 0 /\ known' = {} /\ got' = <<>>
      /\ Goto("drv", "select") /\ UNCHANGED <<kind, mtx, injected, spi, config, events, stats>>
  BY DEF Reset, NewDriver
<1>2. pc' \in [Threads -> Labels] /\ pc'["drv"] = "select" /\ \A u \in Threads : u # "drv" => pc'[u] = pc[u]
  BY <1>1, ThreadFacts, GotoFacts DEF Labels
<1>3. NewRing \in Rings /\ 0 \in Indices /\ Uncollected(0, NewRing) = <<>> /\ NewRing.usedIdx = 0
  BY NewRingFacts DEF NewRing
<1>4. \A q \in {0, 1} : last'[q] = 0 /\ lastUsed'[q] = 0 /\ ring'[q] = NewRing /\ todo'[q] = Heads
  BY <1>1 DEF Both
<1>5. TypeOK'
  <2>1. /\ last' \in [{0, 1} -> Indices] /\ ring' \in [{0, 1} -> Rings] /\ lastUsed' \in [{0, 1} -> Indices]
        /\ todo' \in [{0, 1} -> SUBSET Heads] /\ buf' \in [Heads -> Events \cup {Blank}]
    BY <1>1, <1>3 DEF Both
  <2>2. \A S : <<>> \in Seq(S)
    OBVIOUS
  <2>3. pending' \in Seq(Events) /\ got' \in Seq(1..MaxEvents) /\ Len(pending') <= Cap
    <3>1. Len(pending') = 0 /\ Cap \in Nat
      BY <1>1, IndexFacts DEF Cap
    <3> QED BY <1>1, <2>2, <3>1
  <2>4. probe' \in 0..Len(Queries) /\ sent' \in 0..MaxEvents /\ resets' \in 0..MaxReset
    <3>1. resets \in 0..MaxReset
      BY DEF IndInv, TypeOK
    <3> QED BY <1>1, <3>1, QueryFacts, InputAssumption
  <2> QED BY <1>1, <1>2, <2>1, <2>3, <2>4 DEF IndInv, TypeOK, Labels
<1>6. LockInv'
  BY <1>1, <1>2, ThreadFacts DEF IndInv, LockInv, DrvLabels, AskLabels
<1>7. ReadyInv'
  BY <1>1, <1>2, <1>4, ThreadFacts, AccountedNew DEF IndInv, ReadyInv, AskLabels
<1>8. SignalInv'
  BY <1>3, <1>4 DEF SignalInv
<1>9. ProbeInv'
  BY <1>1, <1>2 DEF IndInv, ProbeInv
<1>10. EventInv'
  <2>1. Handed' = <<>>
    <3>1. Returned(0)' = <<>> /\ <<>> \in Seq(Heads)
      BY <1>3, <1>4 DEF Returned
    <3> QED BY <3>1, CarryFacts DEF Handed
  <2>2. LastSent(<<>>, 0) /\ OfKind(<<>>)'
    BY DEF LastSent, OfKind
  <2>3. Passed(<<>>, <<>>, 0, 0)
    BY PassedNone
  <2>4. sent' - Len(pending') = 0 /\ sent' <= events'
    <3>1. events \in 0..MaxEvents
      BY DEF IndInv, TypeOK
    <3>2. sent' = 0 /\ Len(pending') = 0 /\ events' \in Nat
      BY <1>1, <3>1, InputAssumption
    <3> QED BY <3>2
  <2> QED BY <1>1, <2>1, <2>2, <2>3, <2>4 DEF EventInv
<1> QED BY <1>5, <1>6, <1>7, <1>8, <1>9, <1>10 DEF IndInv

\* QueueNotify takes mtx_ when the queues are ready.
LEMMA NotifyInd == ASSUME IndInv, NEW t \in Threads, Notify(t) PROVE IndInv'
<1>1. /\ pc[t] \in {"kick events", "kick status"} /\ mtx = "free"
      /\ UNCHANGED <<kind, pending, injected, last, ready, irqStatus, spi, config, ring, buf, lastUsed, todo,
                     probe, known, got, sent, events, stats, resets>>
  BY DEF Notify, devVars, guestVars, countVars
<1>2. t \in {"drv", "irq"} /\ ready /\ (t = "irq" => pc[t] = "kick events")
  BY <1>1, ThreadFacts DEF IndInv, LockInv, ReadyInv, HostLabels, IrqLabels, AskLabels
<1>3. mtx' = t /\ \E l \in {"flush", "drain"} : Goto(t, l) /\ (t = "irq" => l = "flush")
  BY <1>1, <1>2 DEF Notify
<1>4. /\ pc' \in [Threads -> Labels] /\ pc'[t] \in {"flush", "drain"} /\ (t = "irq" => pc'[t] = "flush")
      /\ \A u \in Threads : u # t => pc'[u] = pc[u]
  BY <1>3, GotoFacts DEF Labels
<1>5. TypeOK'
  BY <1>1, <1>3, <1>4 DEF IndInv, TypeOK, Labels
<1>6. LockInv'
  <2>1. \A u \in Threads : pc[u] \notin {"flush", "drain"} /\ u # "free"
    BY <1>1, FreeFacts, ThreadFacts
  <2>2. \A u \in Threads : pc'[u] \in {"flush", "drain"} <=> mtx' = u
    BY <1>3, <1>4, <2>1
  <2> QED BY <1>1, <1>2, <1>3, <1>4, <2>1, <2>2, ThreadFacts DEF IndInv, LockInv, DrvLabels, IrqLabels
<1>7. ReadyInv'
  BY <1>1, <1>2, <1>4, ThreadFacts DEF IndInv, ReadyInv, AskLabels
<1>8. SignalInv'
  BY <1>1, <1>2, <1>4, ThreadFacts DEF IndInv, SignalInv, Covered
<1>9. ProbeInv' /\ EventInv'
  BY <1>1, <1>2, <1>4, ThreadFacts, ProbeSame, EventSame
<1> QED BY <1>5, <1>6, <1>7, <1>8, <1>9 DEF IndInv

\* The end of a flush or a drain raises the interrupt for what was handed back
\* and releases mtx_.
LEMMA EndInd == ASSUME IndInv, NEW t \in Threads, FlushEnd(t) \/ DrainEnd(t) PROVE IndInv'
<1>1. /\ pc[t] \in {"flush", "drain"} /\ injected' = FALSE /\ mtx' = "free" /\ Return(t)
      /\ UNCHANGED <<kind, pending, last, ready, config, ring, buf, lastUsed, todo, probe, known, got, sent,
                     events, stats, resets>>
  BY DEF FlushEnd, DrainEnd, guestVars, countVars
<1>2. (injected /\ irqStatus' = 1 /\ spi' = TRUE) \/ (~injected /\ UNCHANGED <<irqStatus, spi>>)
  BY DEF FlushEnd, DrainEnd
<1>3. /\ mtx = t /\ ready /\ \A u \in Threads : u # t => pc[u] \notin {"flush", "drain"}
  BY <1>1, HolderFacts
<1>4. t = "irq" => pc[t] = "flush"
  BY <1>1 DEF IndInv, LockInv, IrqLabels
<1>5. /\ pc' \in [Threads -> Labels] /\ (pc'[t] = IF t = "irq" THEN "status" ELSE "idle")
      /\ \A u \in Threads : u # t => pc'[u] = pc[u]
  <2> DEFINE l == IF t = "irq" THEN "status" ELSE "idle"
  <2>1. l \in Labels /\ Goto(t, l)
    BY <1>1 DEF Labels, Return
  <2> HIDE DEF l
  <2>2. pc' \in [Threads -> Labels] /\ pc'[t] = l /\ \A u \in Threads : u # t => pc'[u] = pc[u]
    BY <2>1, GotoFacts
  <2> QED BY <2>2 DEF l
<1>6. pc'[t] \in {"idle", "status"} /\ (t \in Hosts \/ t = "drv" => pc'[t] = "idle") /\ (t = "irq" => pc'[t] = "status")
  BY <1>5, ThreadFacts
<1>7. TypeOK'
  BY <1>1, <1>2, <1>5 DEF IndInv, TypeOK, Labels
<1>8. LockInv'
  <2>1. \A u \in Threads : pc'[u] \notin {"flush", "drain"} /\ u # "free"
    BY <1>3, <1>5, <1>6, ThreadFacts
  <2>2. /\ \A u \in Hosts : pc'[u] \in HostLabels
        /\ pc'["drv"] \in DrvLabels /\ pc'["irq"] \in IrqLabels
    BY <1>5, <1>6, ThreadFacts DEF IndInv, LockInv, HostLabels, DrvLabels, IrqLabels
  <2> QED BY <1>1, <2>1, <2>2 DEF LockInv
<1>9. ReadyInv'
  <2>1. pc'["drv"] \notin AskLabels
    BY <1>1, <1>3, <1>5, <1>6, ThreadFacts DEF IndInv, ReadyInv, AskLabels
  <2> QED BY <1>1, <1>3, <2>1 DEF IndInv, ReadyInv
<1>10. SignalInv'
  <2>1. t # "irq" => pc'["irq"] = pc["irq"]
    BY <1>5, ThreadFacts
  <2>2. CASE injected /\ irqStatus' = 1 /\ spi' = TRUE
    BY <2>2 DEF SignalInv, Covered
  <2>3. CASE ~injected /\ UNCHANGED <<irqStatus, spi>>
    <3> SUFFICES ASSUME NEW q \in {0, 1}, Covered(q) PROVE Covered(q)'
      BY <1>1 DEF IndInv, SignalInv
    <3> QED BY <1>4, <1>6, <2>1, <2>3 DEF Covered
  <2> QED BY <1>2, <2>2, <2>3
<1>11. ProbeInv' /\ EventInv'
  <2>1. pc'["drv"] \in {"subsel", "read"} => pc'["drv"] = pc["drv"]
    BY <1>5, <1>6, ThreadFacts
  <2> QED BY <1>1, <1>3, <2>1, ProbeSame, EventSame
<1> QED BY <1>7, <1>8, <1>9, <1>10, <1>11 DEF IndInv

\* Writing one queue's entry.
LEMMA Written ==
    ASSUME NEW S, NEW f \in [{0, 1} -> S], NEW q \in {0, 1}, NEW v \in S, NEW g, g = [f EXCEPT ![q] = v]
    PROVE  g \in [{0, 1} -> S] /\ g[q] = v /\ \A p \in {0, 1} : p # q => g[p] = f[p]
  OBVIOUS

\* What handing a chain back does to a ring.
LEMMA HandsBack ==
    ASSUME NEW l, NEW r, NEW u, NEW o, Accounted(l, r, u, o), l # r.availIdx, NEW h, h = NextHead(l, r)
    PROVE  /\ h \in Heads /\ Unserved(l, r) # <<>> /\ h = Head(Unserved(l, r))
           /\ Accounted(Bump(l), PushUsed(r, h), u, o)
           /\ Uncollected(u, PushUsed(r, h)) = Append(Uncollected(u, r), h)
<1> DEFINE k == NextHead(l, r)
<1>1. /\ k \in Heads /\ Unserved(l, r) # <<>> /\ k = Head(Unserved(l, r))
      /\ Accounted(Bump(l), PushUsed(r, k), u, o)
      /\ Uncollected(u, PushUsed(r, k)) = Append(Uncollected(u, r), k)
  BY AccountedServe
<1>2. k = h
  OBVIOUS
<1> HIDE DEF k
<1> QED BY <1>1, <1>2

\* The device hands back the oldest chain of queue q.
LEMMA Served ==
    ASSUME IndInv, NEW q \in {0, 1}, last[q] # ring[q].availIdx, NEW h, h = NextHead(last[q], ring[q]),
           ring' = [ring EXCEPT ![q] = PushUsed(ring[q], h)],
           last' = [last EXCEPT ![q] = Bump(last[q])], UNCHANGED <<lastUsed, todo>>
    PROVE  /\ h \in Heads /\ Offered(q) # <<>> /\ h = Head(Offered(q))
           /\ ring' \in [{0, 1} -> Rings] /\ last' \in [{0, 1} -> Indices]
           /\ \A p \in {0, 1} : Accounted(last'[p], ring'[p], lastUsed'[p], todo'[p])
           /\ Returned(q)' = Append(Returned(q), h)
           /\ \A p \in {0, 1} : p # q => ring'[p] = ring[p] /\ last'[p] = last[p]
<1>1. last \in [{0, 1} -> Indices] /\ ring \in [{0, 1} -> Rings]
  BY DEF IndInv, TypeOK
<1> DEFINE l == last[q]
           r == ring[q]
           u == lastUsed[q]
           o == todo[q]
<1>2. Accounted(l, r, u, o) /\ l # r.availIdx /\ h = NextHead(l, r)
  BY DEF IndInv, ReadyInv
<1>3. /\ h \in Heads /\ Unserved(l, r) # <<>> /\ h = Head(Unserved(l, r))
      /\ Accounted(Bump(l), PushUsed(r, h), u, o)
      /\ Uncollected(u, PushUsed(r, h)) = Append(Uncollected(u, r), h)
  <2> HIDE DEF l, r, u, o
  <2> QED BY <1>2, HandsBack
<1>4. PushUsed(r, h) \in Rings /\ Bump(l) \in Indices
  BY <1>3 DEF Accounted
<1>5. /\ ring' \in [{0, 1} -> Rings] /\ ring'[q] = PushUsed(r, h) /\ \A p \in {0, 1} : p # q => ring'[p] = ring[p]
  BY <1>1, <1>4, Written
<1>6. /\ last' \in [{0, 1} -> Indices] /\ last'[q] = Bump(l) /\ \A p \in {0, 1} : p # q => last'[p] = last[p]
  BY <1>1, <1>4, Written
<1>7. \A p \in {0, 1} : Accounted(last'[p], ring'[p], lastUsed'[p], todo'[p])
  BY <1>3, <1>5, <1>6 DEF IndInv, ReadyInv
<1>8. Returned(q)' = Append(Returned(q), h)
  BY <1>3, <1>5 DEF Returned
<1>9. Offered(q) # <<>> /\ h = Head(Offered(q))
  BY <1>3 DEF Offered
<1> QED BY <1>3, <1>5, <1>6, <1>7, <1>8, <1>9

\* The status queue: the chain goes back, and the interrupt is still to come.
LEMMA DrainStatusInd == ASSUME IndInv, NEW t \in Threads, DrainStatus(t) PROVE IndInv'
<1> DEFINE h == NextHead(last[1], ring[1])
<1>1. /\ pc[t] = "drain" /\ last[1] # ring[1].availIdx /\ injected' = TRUE
      /\ ring' = [ring EXCEPT ![1] = PushUsed(ring[1], h)] /\ last' = [last EXCEPT ![1] = Bump(last[1])]
      /\ UNCHANGED <<kind, mtx, pc, pending, ready, irqStatus, spi, config, buf, lastUsed, todo, probe, known,
                     got, sent, events, stats, resets>>
  BY DEF DrainStatus, countVars
<1>2. mtx = t /\ mtx # "free" /\ ready
  BY <1>1, HolderFacts
<1>3. /\ ring' \in [{0, 1} -> Rings] /\ last' \in [{0, 1} -> Indices]
      /\ \A p \in {0, 1} : Accounted(last'[p], ring'[p], lastUsed'[p], todo'[p])
      /\ ring'[0] = ring[0]
  <2> HIDE DEF h
  <2>1. h = NextHead(last[1], ring[1]) /\ 1 \in {0, 1} /\ 0 \in {0, 1} /\ 0 # 1
    BY DEF h
  <2> QED BY <1>1, <2>1, Served
<1>4. TypeOK'
  BY <1>1, <1>3 DEF IndInv, TypeOK
<1>5. LockInv'
  BY <1>1, <1>2 DEF IndInv, LockInv
<1>6. ReadyInv'
  BY <1>1, <1>2, <1>3 DEF IndInv, ReadyInv
<1>7. SignalInv'
  BY <1>1 DEF SignalInv, Covered
<1>8. ProbeInv'
  BY <1>1, ProbeSame
<1>9. EventInv'
  <2>1. Returned(0)' = Returned(0)
    BY <1>1, <1>3 DEF Returned
  <2> QED BY <1>1, <2>1, EventKept
<1> QED BY <1>4, <1>5, <1>6, <1>7, <1>8, <1>9 DEF IndInv

\* The oldest event is in the queue, numbered after those passed on.
LEMMA OldestFacts ==
    ASSUME IndInv, pending # <<>>
    PROVE  /\ Head(pending) \in Events /\ Head(pending).n = (sent - Len(pending)) + 1
           /\ Tail(pending) \in Seq(Events) /\ Len(Tail(pending)) = Len(pending) - 1
           /\ Len(Tail(pending)) <= Cap
           /\ sent - Len(pending) \in Nat /\ sent - Len(Tail(pending)) = (sent - Len(pending)) + 1
           /\ LastSent(Tail(pending), sent) /\ OfKind(Tail(pending))
           /\ Head(pending).class \in IF kind = "Keyboard" THEN {"KEY", "SYN"} ELSE {"X", "Y", "BTN", "SYN"}
<1> DEFINE p == pending
           d == Tail(p)
           m == Len(p)
           C == IF kind = "Keyboard" THEN {"KEY", "SYN"} ELSE {"X", "Y", "BTN", "SYN"}
<1>1. /\ p \in Seq(Events) /\ m <= Cap /\ m <= sent /\ \A i \in 1..m : p[i].n = (sent - m) + i /\ p[i].class \in C
  BY DEF IndInv, TypeOK, EventInv, LastSent, OfKind
<1>2. sent \in Nat /\ Cap \in Nat
  <2>1. sent \in 0..MaxEvents
    BY DEF IndInv, TypeOK
  <2> QED BY <2>1, InputAssumption, IndexFacts DEF Cap
<1>3. /\ d \in Seq(Events) /\ Len(d) = m - 1 /\ m \in Nat \ {0} /\ Head(p) = p[1] /\ Head(p) \in Events
      /\ \A i \in 1..(m - 1) : d[i] = p[i + 1]
  BY <1>1, TailAt
<1> HIDE DEF d, C
<1>4. Head(p).n = (sent - m) + 1 /\ Head(p).class \in C
  <2>1. 1 \in 1..m
    BY <1>3
  <2> QED BY <1>1, <1>3, <2>1
<1> HIDE DEF p, m
<1>5. \A i \in 1..Len(d) : i + 1 \in 1..m /\ d[i] = p[i + 1]
  BY <1>3
<1>6. LastSent(d, sent)
  <2>1. ASSUME NEW i \in 1..Len(d) PROVE d[i].n = (sent - Len(d)) + i
    <3>1. d[i].n = (sent - m) + (i + 1)
      BY <1>1, <1>5
    <3> QED BY <1>2, <1>3, <3>1
  <2>2. Len(d) <= sent
    BY <1>1, <1>2, <1>3
  <2> QED BY <2>1, <2>2 DEF LastSent
<1>7. OfKind(d)
  BY <1>1, <1>5 DEF OfKind, C
<1>8. Len(d) <= Cap /\ sent - m \in Nat /\ sent - Len(d) = (sent - m) + 1
  BY <1>1, <1>2, <1>3
<1> QED BY <1>3, <1>4, <1>6, <1>7, <1>8 DEF d, p, m, C

\* An event goes into the oldest buffer, which is not one that still has to be
\* collected.
LEMMA FlushEventInd == ASSUME IndInv, NEW t \in Threads, FlushEvent(t) PROVE IndInv'
<1> DEFINE h == NextHead(last[0], ring[0])
           e == Head(pending)
<1>1. /\ pc[t] = "flush" /\ pending # <<>> /\ last[0] # ring[0].availIdx
      /\ buf' = [buf EXCEPT ![h] = e] /\ pending' = Tail(pending) /\ injected' = TRUE
      /\ ring' = [ring EXCEPT ![0] = PushUsed(ring[0], h)] /\ last' = [last EXCEPT ![0] = Bump(last[0])]
      /\ UNCHANGED <<kind, mtx, pc, ready, irqStatus, spi, config, lastUsed, todo, probe, known, got, sent,
                     events, stats, resets>>
  BY DEF FlushEvent, Flushable, countVars
<1>2. mtx = t /\ mtx # "free" /\ ready
  BY <1>1, HolderFacts
<1>3. /\ h \in Heads /\ Offered(0) # <<>> /\ h = Head(Offered(0))
      /\ ring' \in [{0, 1} -> Rings] /\ last' \in [{0, 1} -> Indices]
      /\ \A p \in {0, 1} : Accounted(last'[p], ring'[p], lastUsed'[p], todo'[p])
      /\ Returned(0)' = Append(Returned(0), h)
  <2>1. h = NextHead(last[0], ring[0]) /\ 0 \in {0, 1}
    OBVIOUS
  <2> HIDE DEF h
  <2> QED BY <1>1, <2>1, Served
<1>4. /\ e \in Events /\ e.n = (sent - Len(pending)) + 1
      /\ pending' \in Seq(Events) /\ Len(pending') <= Cap
      /\ sent - Len(pending) \in Nat /\ sent - Len(pending') = (sent - Len(pending)) + 1
      /\ LastSent(pending', sent) /\ OfKind(pending')
      /\ e.class \in IF kind = "Keyboard" THEN {"KEY", "SYN"} ELSE {"X", "Y", "BTN", "SYN"}
  BY <1>1, OldestFacts
<1> HIDE DEF h, e
<1>5. buf' \in [Heads -> Events \cup {Blank}] /\ buf'[h] = e /\ \A g \in Heads : g # h => buf'[g] = buf[g]
  BY <1>1, <1>3, <1>4 DEF IndInv, TypeOK
<1>6. TypeOK'
  BY <1>1, <1>3, <1>4, <1>5 DEF IndInv, TypeOK
<1>7. LockInv'
  BY <1>1, <1>2 DEF IndInv, LockInv
<1>8. ReadyInv'
  BY <1>1, <1>2, <1>3 DEF IndInv, ReadyInv
<1>9. SignalInv'
  BY <1>1 DEF SignalInv, Covered
<1>10. ProbeInv'
  BY <1>1, ProbeSame
<1>11. Handed' = Append(Handed, e)
  <2> DEFINE c == Returned(0)
  <2>1. c \in Seq(Heads) /\ \A j \in 1..Len(c) : c[j] \in Heads /\ c[j] # h
    <3>1. Offered(0) \in Seq(Heads) /\ c \in Seq(Heads) /\ Apart(Offered(0), c, todo[0])
      BY QueueState
    <3>2. 1 \in 1..Len(Offered(0)) /\ h = Offered(0)[1]
      BY <1>3, <3>1
    <3> QED BY <3>1, <3>2 DEF Apart
  <2>2. \A j \in 1..Len(c) : buf[c[j]] = buf'[c[j]]
    BY <1>5, <2>1
  <2>3. Carry(c, buf) = Carry(c, buf')
    <3> HIDE DEF c
    <3> QED BY <2>1, <2>2, CarrySame
  <2>4. Carry(Append(c, h), buf') = Append(Carry(c, buf'), buf'[h])
    <3> HIDE DEF c
    <3> QED BY <1>3, <2>1, CarryAppend
  <2> QED BY <1>3, <1>5, <2>3, <2>4 DEF Handed
<1>12. Passed(got', Handed', sent' - Len(pending'), sent')
  <2>1. Passed(got, Handed, sent - Len(pending), sent) /\ sent \in Nat
    <3>1. sent \in 0..MaxEvents
      BY DEF IndInv, TypeOK
    <3> QED BY <3>1, InputAssumption DEF IndInv, EventInv
  <2>2. Passed(got, Append(Handed, e), (sent - Len(pending)) + 1, sent)
    <3> DEFINE k == sent - Len(pending)
    <3>1. k \in Nat /\ e.n = k + 1 /\ Passed(got, Handed, k, sent) /\ Handed \in Seq(Events)
      BY <1>4, <2>1, HandedFacts
    <3> HIDE DEF k
    <3>2. Passed(got, Append(Handed, e), k + 1, sent)
      BY <1>4, <2>1, <3>1, PassedFlush
    <3> QED BY <3>2 DEF k
  <2> QED BY <1>1, <1>4, <1>11, <2>2
<1>13. OfKind(Handed)'
  <2> DEFINE C == IF kind = "Keyboard" THEN {"KEY", "SYN"} ELSE {"X", "Y", "BTN", "SYN"}
             c == Handed
             d == Handed'
  <2>1. /\ c \in Seq(Events) /\ e \in Events /\ e.class \in C /\ d = Append(c, e)
        /\ \A j \in 1..Len(c) : c[j].class \in C
    BY <1>4, <1>11, HandedFacts DEF IndInv, EventInv, OfKind
  <2> HIDE DEF C, c, d
  <2>2. Len(d) = Len(c) + 1 /\ Len(c) \in Nat /\ \A j \in 1..(Len(c) + 1) : d[j] = IF j = Len(c) + 1 THEN e ELSE c[j]
    BY <2>1, AppendAt
  <2>3. \A j \in 1..Len(d) : d[j].class \in C
    BY <2>1, <2>2
  <2> QED BY <1>1, <2>3 DEF OfKind, C, d
<1>14. EventInv'
  <2>1. OfKind(pending)'
    BY <1>1, <1>4 DEF OfKind
  <2> QED BY <1>1, <1>4, <1>12, <1>13, <2>1 DEF IndInv, EventInv
<1> QED BY <1>6, <1>7, <1>8, <1>9, <1>10, <1>14 DEF IndInv

\* A report is queued; what no longer fits is older than the newest.
LEMMA SendInd == ASSUME IndInv, NEW t \in Hosts, Send(t) PROVE IndInv'
<1> DEFINE l == Len(Report(kind))
           x == pending \o ReportEvents(sent)
<1>1. /\ pc[t] = "idle" /\ mtx = "free" /\ events + l <= MaxEvents /\ events' = events + l
      /\ pending' = Newest(x) /\ sent' = sent + l
      /\ IF ready THEN mtx' = t /\ Goto(t, "flush") ELSE UNCHANGED <<mtx, pc>>
      /\ UNCHANGED <<kind, injected, last, ready, irqStatus, spi, config, ring, buf, lastUsed, todo, probe,
                     known, got, stats, resets>>
  BY DEF Send, ReportEvents, guestVars
<1>2. /\ pending \in Seq(Events) /\ sent \in Nat /\ events \in Nat /\ sent <= events /\ kind \in Kinds
      /\ LastSent(pending, sent) /\ OfKind(pending) /\ Len(pending) \in Nat /\ Len(pending) <= sent
  <2>1. sent \in 0..MaxEvents /\ events \in 0..MaxEvents
    BY DEF IndInv, TypeOK
  <2>2. /\ pending \in Seq(Events) /\ sent <= events /\ kind \in Kinds
        /\ LastSent(pending, sent) /\ OfKind(pending)
    BY DEF IndInv, TypeOK, EventInv
  <2>3. Len(pending) \in Nat /\ Len(pending) <= sent
    BY <2>2 DEF LastSent
  <2> QED BY <2>1, <2>2, <2>3, InputAssumption
<1>3. l \in Nat /\ sent + l <= MaxEvents
  <2>1. l \in Nat
    BY <1>2 DEF Report, Kinds
  <2> HIDE DEF l
  <2> QED BY <1>1, <1>2, <2>1, InputAssumption
<1>4. x \in Seq(Events) /\ Len(x) = Len(pending) + l /\ LastSent(x, sent + l) /\ OfKind(x)
  BY <1>2, <1>3, ReportFacts
<1> HIDE DEF l, x
<1>5. /\ pending' \in Seq(Events) /\ Len(pending') <= Cap /\ LastSent(pending', sent') /\ OfKind(pending')
      /\ Len(pending') <= Len(pending) + l /\ (Len(pending') = Len(pending) + l \/ Len(pending') = Cap)
  <2>1. sent + l \in Nat
    BY <1>2, <1>3
  <2> QED BY <1>1, <1>4, <2>1, NewestFacts
<1>6. /\ t \in Threads /\ t # "drv" /\ t # "irq" /\ pc' \in [Threads -> Labels]
      /\ \A u \in Threads : u # t => pc'[u] = pc[u]
      /\ (ready /\ mtx' = t /\ pc'[t] = "flush") \/ (~ready /\ mtx' = mtx /\ pc'[t] = pc[t])
  <2>1. t \in Threads /\ t # "drv" /\ t # "irq"
    BY ThreadFacts
  <2>2. CASE ready
    BY <1>1, <2>1, <2>2, GotoFacts DEF Labels
  <2>3. CASE ~ready
    BY <1>1, <2>1, <2>3 DEF IndInv, TypeOK, Labels
  <2> QED BY <2>1, <2>2, <2>3
<1>7. TypeOK'
  <2>1. sent' \in 0..MaxEvents /\ events' \in 0..MaxEvents
    BY <1>1, <1>2, <1>3
  <2>2. mtx' \in Threads \cup {"free"}
    BY <1>1, <1>6
  <2> QED BY <1>1, <1>5, <1>6, <2>1, <2>2 DEF IndInv, TypeOK, Labels
<1>8. LockInv'
  <2>1. injected = FALSE /\ \A u \in Threads : pc[u] \notin {"flush", "drain"} /\ u # "free"
    BY <1>1, FreeFacts, ThreadFacts
  <2>2. \A u \in Threads : pc'[u] \in {"flush", "drain"} <=> mtx' = u
    BY <1>1, <1>6, <2>1
  <2>3. (\A u \in Hosts : pc'[u] \in HostLabels) /\ pc'["drv"] \in DrvLabels /\ pc'["irq"] \in IrqLabels
    BY <1>1, <1>6, ThreadFacts DEF IndInv, LockInv, HostLabels
  <2> QED BY <1>1, <2>1, <2>2, <2>3 DEF LockInv
<1>9. ReadyInv'
  BY <1>1, <1>6, ThreadFacts DEF IndInv, ReadyInv
<1>10. SignalInv'
  BY <1>1, <1>6, ThreadFacts DEF IndInv, SignalInv, Covered
<1>11. ProbeInv'
  BY <1>1, <1>6, ThreadFacts, ProbeSame
<1>12. EventInv'
  <2>1. Handed' = Handed /\ sent' <= events'
    BY <1>1, <1>2, <1>3 DEF Handed, Returned
  <2>2. OfKind(pending)' /\ OfKind(Handed)'
    BY <1>1, <1>5, <2>1 DEF IndInv, EventInv, OfKind
  <2>3. Passed(got, Handed, sent' - Len(pending'), sent')
    <3> DEFINE k == sent - Len(pending)
               j == sent' - Len(pending')
    <3>1. Passed(got, Handed, k, sent)
      BY DEF IndInv, EventInv
    <3>2. /\ k \in Nat /\ j \in Nat /\ sent' \in Nat /\ sent <= sent' /\ k <= j
          /\ j = k \/ j <= sent' - Cap
      <4>1. Len(pending') \in Nat /\ Len(pending') <= sent' /\ Cap \in Nat
        BY <1>5, IndexFacts DEF LastSent, Cap
      <4> QED BY <1>1, <1>2, <1>3, <1>5, <4>1
    <3> HIDE DEF k, j
    <3>3. Passed(got, Handed, j, sent')
      BY <1>2, <3>1, <3>2, PassedSend
    <3> QED BY <3>3 DEF j
  <2> QED BY <1>1, <1>5, <2>1, <2>2, <2>3 DEF EventInv
<1> QED BY <1>7, <1>8, <1>9, <1>10, <1>11, <1>12 DEF IndInv

\* The driver posts a chain of queue q that it has.
LEMMA Posted ==
    ASSUME IndInv, NEW q \in {0, 1}, NEW h \in todo[q],
           ring' = [ring EXCEPT ![q] = Offer(ring[q], h)],
           todo' = [todo EXCEPT ![q] = todo[q] \ {h}], UNCHANGED <<last, lastUsed>>
    PROVE  /\ ring' \in [{0, 1} -> Rings] /\ todo' \in [{0, 1} -> SUBSET Heads]
           /\ \A p \in {0, 1} : /\ Accounted(last'[p], ring'[p], lastUsed'[p], todo'[p])
                                /\ Returned(p)' = Returned(p) /\ ring'[p].usedIdx = ring[p].usedIdx
<1>1. todo \in [{0, 1} -> SUBSET Heads] /\ ring \in [{0, 1} -> Rings]
  BY DEF IndInv, TypeOK
<1> DEFINE l == last[q]
           r == ring[q]
           u == lastUsed[q]
           o == todo[q]
<1>2. Accounted(l, r, u, o) /\ h \in o
  BY DEF IndInv, ReadyInv
<1>3. /\ Accounted(l, Offer(r, h), u, o \ {h}) /\ Uncollected(u, Offer(r, h)) = Uncollected(u, r)
      /\ Offer(r, h).usedIdx = r.usedIdx
  <2> HIDE DEF l, r, u, o
  <2> QED BY <1>2, AccountedOffer
<1>4. Offer(r, h) \in Rings /\ o \ {h} \in SUBSET Heads
  BY <1>1, <1>3 DEF Accounted
<1>5. /\ ring' \in [{0, 1} -> Rings] /\ ring'[q] = Offer(r, h) /\ \A p \in {0, 1} : p # q => ring'[p] = ring[p]
  BY <1>1, <1>4, Written
<1>6. /\ todo' \in [{0, 1} -> SUBSET Heads] /\ todo'[q] = o \ {h} /\ \A p \in {0, 1} : p # q => todo'[p] = todo[p]
  BY <1>1, <1>4, Written
<1>7. \A p \in {0, 1} : Accounted(last'[p], ring'[p], lastUsed'[p], todo'[p])
  BY <1>3, <1>5, <1>6 DEF IndInv, ReadyInv
<1>8. \A p \in {0, 1} : Returned(p)' = Returned(p) /\ ring'[p].usedIdx = ring[p].usedIdx
  BY <1>3, <1>5 DEF Returned
<1> QED BY <1>5, <1>6, <1>7, <1>8

\* A set of chains has a first one.
LEMMA LeastFree == ASSUME NEW o \in SUBSET Nat, o # {} PROVE \E h \in o : \A g \in o : h <= g
<1>1. PICK h \in o : \A g \in o : ~(<<g, h>> \in OpToRel(<, Nat))
  BY NatLessThanWellFounded, WFMin
<1>2. \A g \in o : ~(g < h)
  BY <1>1 DEF OpToRel
<1> QED BY <1>2

\* The first of the driver's chains.
LEMMA FirstTodo ==
    ASSUME IndInv, NEW q \in {0, 1}, todo[q] # {}
    PROVE  (CHOOSE h \in todo[q] : \A g \in todo[q] : h <= g) \in todo[q]
<1>1. todo[q] \in SUBSET Heads /\ Heads \subseteq Nat
  <2>1. todo \in [{0, 1} -> SUBSET Heads]
    BY DEF IndInv, TypeOK
  <2>2. Heads \subseteq Nat
    BY IndexFacts DEF Heads
  <2> QED BY <2>1, <2>2
<1>2. \E h \in todo[q] : \A g \in todo[q] : h <= g
  BY <1>1, LeastFree
<1> QED BY <1>2

\* Posting an event buffer or a status message.
LEMMA PostInd == ASSUME IndInv, Fill \/ PostStatus PROVE IndInv'
<1>1. /\ UNCHANGED <<kind, mtx, pending, injected, last, ready, irqStatus, spi, config, buf, lastUsed, probe,
                     known, got, sent, events, resets>>
      /\ pc["drv"] \in {"fill", "idle"} /\ stats' \in 0..MaxStatus
  <2>1. stats \in 0..MaxStatus
    BY DEF IndInv, TypeOK
  <2>2. /\ UNCHANGED <<kind, mtx, pending, injected, last, ready, irqStatus, spi, config, buf, lastUsed, probe,
                       known, got, sent, events, resets>>
        /\ pc["drv"] \in {"fill", "idle"} /\ (stats' = stats \/ (stats < MaxStatus /\ stats' = stats + 1))
    BY DEF Fill, PostStatus, devVars, countVars
  <2> QED BY <2>1, <2>2, InputAssumption
<1>2. /\ pc' \in [Threads -> Labels] /\ pc'["drv"] \in {"fill", "kick events", "kick status"}
      /\ \A u \in Threads : u # "drv" => pc'[u] = pc[u]
  <2>1. pc' = pc \/ Goto("drv", "kick events") \/ Goto("drv", "kick status")
    BY DEF Fill, PostStatus
  <2>2. pc' = pc => pc["drv"] = "fill"
    <3>1. CASE Fill
      BY <3>1 DEF Fill
    <3>2. CASE PostStatus
      <4>1. pc'["drv"] = "kick status" /\ pc["drv"] = "idle"
        BY <3>2, ThreadFacts, GotoFacts DEF PostStatus, Labels
      <4> QED BY <4>1
    <3> QED BY <3>1, <3>2
  <2>3. CASE pc' = pc
    BY <2>2, <2>3 DEF IndInv, TypeOK, Labels
  <2>4. CASE Goto("drv", "kick events") \/ Goto("drv", "kick status")
    BY <2>4, ThreadFacts, GotoFacts DEF Labels
  <2> QED BY <2>1, <2>3, <2>4
<1>3. /\ ring' \in [{0, 1} -> Rings] /\ todo' \in [{0, 1} -> SUBSET Heads]
      /\ \A p \in {0, 1} : /\ Accounted(last'[p], ring'[p], lastUsed'[p], todo'[p])
                           /\ Returned(p)' = Returned(p) /\ ring'[p].usedIdx = ring[p].usedIdx
  <2> DEFINE G == /\ ring' \in [{0, 1} -> Rings] /\ todo' \in [{0, 1} -> SUBSET Heads]
                  /\ \A p \in {0, 1} : /\ Accounted(last'[p], ring'[p], lastUsed'[p], todo'[p])
                                       /\ Returned(p)' = Returned(p) /\ ring'[p].usedIdx = ring[p].usedIdx
  <2>1. CASE UNCHANGED <<ring, todo>>
    BY <1>1, <2>1 DEF IndInv, TypeOK, ReadyInv, Returned
  <2>2. ASSUME NEW q \in {0, 1}, NEW h, todo[q] # {}, h = (CHOOSE c \in todo[q] : \A g \in todo[q] : c <= g),
               ring' = [ring EXCEPT ![q] = Offer(ring[q], h)], todo' = [todo EXCEPT ![q] = todo[q] \ {h}]
        PROVE  G
    <3>1. h \in todo[q]
      BY <2>2, FirstTodo
    <3> QED BY <1>1, <2>2, <3>1, Posted
  <2>3. CASE Fill
    BY <2>1, <2>2, <2>3 DEF Fill
  <2>4. CASE PostStatus
    BY <2>2, <2>4 DEF PostStatus
  <2> QED BY <2>3, <2>4
<1>4. ready
  BY <1>1 DEF IndInv, ReadyInv, AskLabels
<1>5. TypeOK'
  BY <1>1, <1>2, <1>3 DEF IndInv, TypeOK, Labels
<1>6. LockInv'
  BY <1>1, <1>2, ThreadFacts DEF IndInv, LockInv, DrvLabels
<1>7. ReadyInv'
  BY <1>1, <1>2, <1>3, <1>4, ThreadFacts DEF IndInv, ReadyInv, AskLabels
<1>8. SignalInv'
  BY <1>1, <1>2, <1>3, ThreadFacts DEF IndInv, SignalInv, Covered
<1>9. ProbeInv' /\ EventInv'
  <2>1. Returned(0)' = Returned(0)
    BY <1>3
  <2> QED BY <1>1, <1>2, <2>1, ProbeSame, EventKept
<1> QED BY <1>5, <1>6, <1>7, <1>8, <1>9 DEF IndInv

\* The chain the driver takes is the oldest it has to collect.
LEMMA OldestReturned ==
    ASSUME NEW l, NEW r, NEW u, NEW o, Accounted(l, r, u, o), u # r.usedIdx
    PROVE  Uncollected(u, r)[1] = r.used[u % QSize]
<1>1. r \in Rings /\ u \in Indices
  BY DEF Accounted
<1>2. Uncollected(u, r) # <<>> /\ Head(Uncollected(u, r)) = r.used[u % QSize] /\ Uncollected(u, r) \in Seq(Heads)
  BY <1>1, CollectTakesHead, QueueFacts
<1> QED BY <1>2

\* What collecting an event and posting its buffer again does to a ring.
LEMMA TakenBack ==
    ASSUME NEW l, NEW r, NEW u, NEW o, Accounted(l, r, u, o), u # r.usedIdx,
           NEW h, h = r.used[u % QSize]
    PROVE  /\ h \in Heads /\ Uncollected(u, r) # <<>>
           /\ Accounted(l, r, Bump(u), o \cup {h}) /\ Accounted(l, Offer(r, h), Bump(u), o)
           /\ Uncollected(Bump(u), r) = Tail(Uncollected(u, r))
           /\ Uncollected(Bump(u), Offer(r, h)) = Tail(Uncollected(u, r))
<1> DEFINE k == r.used[u % QSize]
           c == Uncollected(u, r)
           v == Bump(u)
           p == o \cup {h}
<1>1. /\ k \in Heads /\ k \notin o /\ c # <<>> /\ k = Head(c)
      /\ Accounted(l, r, v, o \cup {k}) /\ Uncollected(v, r) = Tail(c)
  BY AccountedCollect
<1>2. k = h
  OBVIOUS
<1> HIDE DEF k
<1>3. h \in Heads /\ h \notin o /\ h = Head(c) /\ Accounted(l, r, v, p) /\ h \in p
  BY <1>1, <1>2
<1>4. p \ {h} = o
  BY <1>3
<1> HIDE DEF v, p
<1>5. Accounted(l, Offer(r, h), v, p \ {h}) /\ Uncollected(v, Offer(r, h)) = Uncollected(v, r)
  BY <1>3, AccountedOffer
<1>6. Accounted(l, Offer(r, h), v, o)
  BY <1>4, <1>5
<1>7. Uncollected(v, Offer(r, h)) = Tail(c)
  BY <1>1, <1>5
<1> QED BY <1>1, <1>3, <1>6, <1>7 DEF v, p

\* The guest takes an event, which it accepts, and posts the buffer again.
LEMMA CollectEventInd == ASSUME IndInv, CollectEvent PROVE IndInv'
<1> DEFINE h == ring[0].used[lastUsed[0] % QSize]
<1>1. /\ pc["irq"] = "collect" /\ lastUsed[0] # ring[0].usedIdx
      /\ (got' = IF Needs(buf[h].class) \subseteq known THEN Append(got, buf[h].n) ELSE got)
      /\ buf' = [buf EXCEPT ![h] = Blank] /\ ring' = [ring EXCEPT ![0] = Offer(ring[0], h)]
      /\ lastUsed' = [lastUsed EXCEPT ![0] = Bump(lastUsed[0])]
      /\ UNCHANGED <<kind, mtx, pc, pending, injected, last, ready, irqStatus, spi, config, todo, probe, known,
                     sent, events, stats, resets>>
  BY DEF CollectEvent, devVars, countVars
<1>2. ready
  BY <1>1 DEF IndInv, ReadyInv
<1>3. /\ h \in Heads /\ Returned(0) # <<>> /\ h = Returned(0)[1]
      /\ Accounted(last[0], Offer(ring[0], h), Bump(lastUsed[0]), todo[0])
      /\ Uncollected(Bump(lastUsed[0]), Offer(ring[0], h)) = Tail(Returned(0))
  <2> DEFINE l == last[0]
             r == ring[0]
             u == lastUsed[0]
             o == todo[0]
  <2>1. Accounted(l, r, u, o) /\ u # r.usedIdx /\ h = r.used[u % QSize]
    BY <1>1, QueueState
  <2> HIDE DEF l, r, u, o, h
  <2>2. /\ h \in Heads /\ Uncollected(u, r) # <<>> /\ h = Uncollected(u, r)[1]
        /\ Accounted(l, Offer(r, h), Bump(u), o)
        /\ Uncollected(Bump(u), Offer(r, h)) = Tail(Uncollected(u, r))
    <3>1. h \in Heads /\ Uncollected(u, r) # <<>>
      BY <2>1, TakenBack
    <3>4. h = Uncollected(u, r)[1]
      <4>1. Uncollected(u, r)[1] = r.used[u % QSize]
        BY <2>1, OldestReturned
      <4> QED BY <2>1, <4>1
    <3>2. Accounted(l, Offer(r, h), Bump(u), o)
      BY <2>1, TakenBack
    <3>3. Uncollected(Bump(u), Offer(r, h)) = Tail(Uncollected(u, r))
      BY <2>1, TakenBack
    <3> QED BY <3>1, <3>2, <3>3, <3>4
  <2> QED BY <2>2 DEF Returned, l, r, u, o
<1> HIDE DEF h
<1>4. /\ ring' \in [{0, 1} -> Rings] /\ ring'[0] = Offer(ring[0], h) /\ ring'[1] = ring[1]
      /\ lastUsed' \in [{0, 1} -> Indices] /\ lastUsed'[0] = Bump(lastUsed[0]) /\ lastUsed'[1] = lastUsed[1]
  <2>1. /\ ring \in [{0, 1} -> Rings] /\ lastUsed \in [{0, 1} -> Indices]
        /\ Offer(ring[0], h) \in Rings /\ Bump(lastUsed[0]) \in Indices
    BY <1>3 DEF IndInv, TypeOK, Accounted
  <2> QED BY <1>1, <2>1, Written
<1>5. \A p \in {0, 1} : Accounted(last'[p], ring'[p], lastUsed'[p], todo'[p])
  BY <1>1, <1>3, <1>4 DEF IndInv, ReadyInv
<1>6. /\ buf' \in [Heads -> Events \cup {Blank}] /\ \A g \in Heads : g # h => buf'[g] = buf[g]
  BY <1>1, <1>3 DEF IndInv, TypeOK
<1>7. Returned(0)' = Tail(Returned(0))
  BY <1>3, <1>4 DEF Returned
<1>8. Handed # <<>> /\ Head(Handed) = buf[h] /\ Handed' = Tail(Handed)
  <2> DEFINE c == Returned(0)
             d == Tail(c)
  <2>1. c \in Seq(Heads) /\ c # <<>> /\ Apart(Offered(0), c, todo[0])
    BY <1>3, QueueState
  <2>2. /\ d \in Seq(Heads) /\ Len(d) = Len(c) - 1 /\ Len(c) \in Nat \ {0} /\ h = c[1] /\ h = Head(c)
        /\ \A i \in 1..(Len(c) - 1) : d[i] = c[i + 1]
    BY <1>3, <2>1, TailAt
  <2>3. Carry(c, buf) # <<>> /\ Head(Carry(c, buf)) = buf[Head(c)] /\ Carry(d, buf) = Tail(Carry(c, buf))
    <3> HIDE DEF c
    <3> QED BY <2>1, CarryTail
  <2>4. \A i \in 1..Len(d) : buf[d[i]] = buf'[d[i]]
    <3> SUFFICES ASSUME NEW i \in 1..Len(d) PROVE d[i] \in Heads /\ d[i] # h
      BY <1>6
    <3>1. i + 1 \in 1..Len(c) /\ 1 \in 1..Len(c) /\ i + 1 # 1 /\ d[i] = c[i + 1]
      BY <2>2
    <3>2. c[i + 1] # c[1] /\ c[i + 1] \in Heads
      BY <2>1, <3>1 DEF Apart
    <3> QED BY <2>2, <3>1, <3>2
  <2>5. Carry(d, buf) = Carry(d, buf')
    <3> HIDE DEF d
    <3> QED BY <2>2, <2>4, CarrySame
  <2>6. Handed' = Carry(d, buf')
    BY <1>7 DEF Handed
  <2> QED BY <2>2, <2>3, <2>5, <2>6 DEF Handed
<1>9. /\ Handed \in Seq(Events) /\ 1 \in 1..Len(Handed) /\ Handed[1] = buf[h]
      /\ buf[h].n \in 1..MaxEvents /\ got \in Seq(1..MaxEvents)
  <2>1. Handed \in Seq(Events) /\ Head(Handed) \in Events
    BY <1>8, HandedFacts
  <2>2. 1 \in 1..Len(Handed) /\ Handed[1] = Head(Handed)
    BY <1>8, <2>1
  <2>3. Head(Handed).n \in 1..MaxEvents
    BY <2>1 DEF Events
  <2>4. got \in Seq(1..MaxEvents)
    BY DEF IndInv, TypeOK
  <2> QED BY <1>8, <2>1, <2>2, <2>3, <2>4
<1>10. got' = Append(got, Head(Handed).n)
  <2>1. buf[h].class \in IF kind = "Keyboard" THEN {"KEY", "SYN"} ELSE {"X", "Y", "BTN", "SYN"}
    BY <1>9 DEF IndInv, EventInv, OfKind
  <2>2. Needs(buf[h].class) \subseteq known
    BY <1>2, <2>1, Accepted
  <2>3. got' = Append(got, buf[h].n)
    BY <1>1, <2>2
  <2> QED BY <1>8, <2>3
<1>11. got' \in Seq(1..MaxEvents)
  BY <1>8, <1>9, <1>10
<1>12. TypeOK'
  BY <1>1, <1>4, <1>6, <1>11 DEF IndInv, TypeOK
<1>13. LockInv'
  BY <1>1 DEF IndInv, LockInv
<1>14. ReadyInv'
  BY <1>1, <1>2, <1>5 DEF IndInv, ReadyInv
<1>15. SignalInv'
  BY <1>1 DEF SignalInv, Covered
<1>16. ProbeInv'
  BY <1>1, ProbeSame
<1>17. EventInv'
  <2>1. Passed(got', Handed', sent - Len(pending), sent)
    <3> DEFINE k == sent - Len(pending)
    <3>1. k \in Nat /\ sent \in Nat /\ got \in Seq(Nat)
      <4>1. sent \in 0..MaxEvents /\ pending \in Seq(Events) /\ Len(pending) <= sent
        BY DEF IndInv, TypeOK, EventInv, LastSent
      <4> QED BY <1>9, <4>1, InputAssumption
    <3>2. Passed(got, Handed, k, sent)
      BY DEF IndInv, EventInv
    <3> HIDE DEF k
    <3>3. Passed(Append(got, Head(Handed).n), Tail(Handed), k, sent)
      BY <1>8, <1>9, <3>1, <3>2, PassedCollect
    <3> QED BY <1>8, <1>10, <3>3 DEF k
  <2>2. OfKind(Handed)'
    <3> DEFINE C == IF kind = "Keyboard" THEN {"KEY", "SYN"} ELSE {"X", "Y", "BTN", "SYN"}
               c == Handed
               d == Handed'
    <3>1. c \in Seq(Events) /\ c # <<>> /\ d = Tail(c) /\ \A j \in 1..Len(c) : c[j].class \in C
      BY <1>8, <1>9 DEF IndInv, EventInv, OfKind
    <3> HIDE DEF C, c, d
    <3>2. Len(d) = Len(c) - 1 /\ Len(c) \in Nat \ {0} /\ \A j \in 1..(Len(c) - 1) : d[j] = c[j + 1]
      BY <3>1, TailAt
    <3>3. \A j \in 1..Len(d) : j + 1 \in 1..Len(c) /\ d[j] = c[j + 1]
      BY <3>2
    <3>4. \A j \in 1..Len(d) : d[j].class \in C
      BY <3>1, <3>3
    <3> QED BY <1>1, <3>4 DEF OfKind, C, d
  <2>3. OfKind(pending)'
    BY <1>1 DEF IndInv, EventInv, OfKind
  <2> QED BY <1>1, <2>1, <2>2, <2>3 DEF IndInv, EventInv
<1> QED BY <1>12, <1>13, <1>14, <1>15, <1>16, <1>17 DEF IndInv

\* The guest takes a status chain back, or has none left to take.
LEMMA CollectStatusInd == ASSUME IndInv, CollectStatus PROVE IndInv'
<1> DEFINE h == ring[1].used[lastUsed[1] % QSize]
<1>1. /\ pc["irq"] = "status"
      /\ UNCHANGED <<kind, mtx, pending, injected, last, ready, irqStatus, spi, config, ring, buf, probe, known,
                     got, sent, events, stats, resets>>
  BY DEF CollectStatus, devVars, countVars
<1>2. ready
  BY <1>1 DEF IndInv, ReadyInv
<1>3. CASE lastUsed[1] = ring[1].usedIdx
  <2>1. Goto("irq", "idle") /\ UNCHANGED <<lastUsed, todo>>
    BY <1>3 DEF CollectStatus
  <2>2. pc' \in [Threads -> Labels] /\ pc'["irq"] = "idle" /\ \A u \in Threads : u # "irq" => pc'[u] = pc[u]
    BY <2>1, ThreadFacts, GotoFacts DEF Labels
  <2>3. TypeOK'
    BY <1>1, <2>1, <2>2 DEF IndInv, TypeOK, Labels
  <2>4. LockInv'
    BY <1>1, <2>2, ThreadFacts DEF IndInv, LockInv, IrqLabels
  <2>5. ReadyInv'
    BY <1>1, <1>2, <2>1, <2>2, ThreadFacts DEF IndInv, ReadyInv
  <2>6. SignalInv'
    BY <1>1, <1>3, <2>1, <2>2 DEF IndInv, SignalInv, Covered
  <2>7. ProbeInv' /\ EventInv'
    BY <1>1, <2>1, <2>2, ThreadFacts, ProbeSame, EventSame
  <2> QED BY <2>3, <2>4, <2>5, <2>6, <2>7 DEF IndInv
<1>4. CASE lastUsed[1] # ring[1].usedIdx
  <2>1. /\ todo' = [todo EXCEPT ![1] = todo[1] \cup {h}]
        /\ lastUsed' = [lastUsed EXCEPT ![1] = Bump(lastUsed[1])] /\ pc' = pc
    BY <1>4 DEF CollectStatus
  <2>2. h \in Heads /\ Accounted(last[1], ring[1], Bump(lastUsed[1]), todo[1] \cup {h})
    <3> DEFINE l == last[1]
               r == ring[1]
               u == lastUsed[1]
               o == todo[1]
    <3>1. Accounted(l, r, u, o) /\ u # r.usedIdx /\ h = r.used[u % QSize]
      BY <1>4, QueueState
    <3> HIDE DEF l, r, u, o, h
    <3>2. h \in Heads /\ Accounted(l, r, Bump(u), o \cup {h})
      BY <3>1, TakenBack
    <3> QED BY <3>2 DEF l, r, u, o
  <2> HIDE DEF h
  <2>3. /\ todo' \in [{0, 1} -> SUBSET Heads] /\ todo'[1] = todo[1] \cup {h} /\ todo'[0] = todo[0]
        /\ lastUsed' \in [{0, 1} -> Indices] /\ lastUsed'[1] = Bump(lastUsed[1]) /\ lastUsed'[0] = lastUsed[0]
    <3>1. /\ todo \in [{0, 1} -> SUBSET Heads] /\ lastUsed \in [{0, 1} -> Indices]
          /\ todo[1] \cup {h} \in SUBSET Heads /\ Bump(lastUsed[1]) \in Indices
      BY <2>2 DEF IndInv, TypeOK, Accounted
    <3> QED BY <2>1, <3>1, Written
  <2>4. \A p \in {0, 1} : Accounted(last'[p], ring'[p], lastUsed'[p], todo'[p])
    BY <1>1, <2>2, <2>3 DEF IndInv, ReadyInv
  <2>5. TypeOK'
    BY <1>1, <2>1, <2>3 DEF IndInv, TypeOK
  <2>6. LockInv'
    BY <1>1, <2>1 DEF IndInv, LockInv
  <2>7. ReadyInv'
    BY <1>1, <1>2, <2>1, <2>4 DEF IndInv, ReadyInv
  <2>8. SignalInv'
    BY <1>1, <2>1, <2>3 DEF IndInv, SignalInv, Covered
  <2>9. ProbeInv' /\ EventInv'
    <3>1. Returned(0)' = Returned(0)
      BY <1>1, <2>3 DEF Returned
    <3> QED BY <1>1, <2>1, <3>1, ProbeSame, EventKept
  <2> QED BY <2>5, <2>6, <2>7, <2>8, <2>9 DEF IndInv
<1> QED BY <1>3, <1>4

\* Every step keeps the invariant.
LEMMA NextInd == IndInv /\ [Next]_vars => IndInv'
<1> SUFFICES ASSUME IndInv, [Next]_vars PROVE IndInv'
  OBVIOUS
<1>1. ASSUME NEW t \in Hosts, Send(t) PROVE IndInv'
  BY <1>1, SendInd
<1>2. ASSUME NEW t \in Threads, Call(t) PROVE IndInv'
  <2>1. CASE FlushEvent(t)
    BY <2>1, FlushEventInd
  <2>2. CASE FlushEnd(t) \/ DrainEnd(t)
    BY <2>2, EndInd
  <2>3. CASE DrainStatus(t)
    BY <2>3, DrainStatusInd
  <2>4. CASE Notify(t)
    BY <2>4, NotifyInd
  <2> QED BY <1>2, <2>1, <2>2, <2>3, <2>4 DEF Call
<1>3. CASE Probe
  BY <1>3, ProbeInd
<1>4. CASE Setup
  BY <1>4, SetupInd
<1>5. CASE Fill \/ PostStatus
  BY <1>5, PostInd
<1>6. CASE Reset
  BY <1>6, ResetInd
<1>7. CASE Handler
  <2>1. CASE IrqTake \/ ReadIrqStatus \/ WriteIrqAck \/ CollectedEvents
    BY <2>1, HandlerInd
  <2>2. CASE CollectEvent
    BY <2>2, CollectEventInd
  <2>3. CASE CollectStatus
    BY <2>3, CollectStatusInd
  <2> QED BY <1>7, <2>1, <2>2, <2>3 DEF Handler
<1>8. CASE UNCHANGED vars
  <2>1. UNCHANGED <<kind, mtx, pc, pending, injected, last, ready, irqStatus, spi, config, ring, buf, lastUsed,
                    todo, probe, known, got, sent, events, stats, resets>>
    BY <1>8 DEF vars, devVars, guestVars, countVars
  <2>2. TypeOK' /\ LockInv'
    BY <2>1 DEF IndInv, TypeOK, LockInv
  <2>3. ReadyInv' /\ SignalInv'
    BY <2>1 DEF IndInv, ReadyInv, SignalInv, Covered
  <2>4. ProbeInv' /\ EventInv'
    BY <2>1, ProbeSame, EventSame
  <2> QED BY <2>2, <2>3, <2>4 DEF IndInv
<1> QED BY <1>1, <1>2, <1>3, <1>4, <1>5, <1>6, <1>7, <1>8 DEF Next

\* The invariant holds in every reachable state.
THEOREM IndInvHolds == Spec => []IndInv
  BY InitInd, NextInd, PTL DEF Spec

-----------------------------------------------------------------------------
(***************************************************************************)
(* The properties.                                                         *)
(***************************************************************************)
\* The numbers of all events that were not dropped, position by position.
LEMMA KeptAt ==
    ASSUME NEW g \in Seq(Nat), NEW b \in Seq(Nat), NEW p \in Seq(Nat), NEW x, x = (g \o b) \o p
    PROVE  /\ x \in Seq(Nat) /\ Len(x) = Len(g) + Len(b) + Len(p)
           /\ \A i \in 1..Len(g) : x[i] = g[i]
           /\ \A i \in 1..Len(b) : x[Len(g) + i] = b[i]
           /\ \A i \in 1..Len(p) : x[Len(g) + Len(b) + i] = p[i]
<1> DEFINE y == g \o b
           m == Len(g)
           l == Len(b)
           k == Len(p)
<1>1. /\ y \in Seq(Nat) /\ Len(y) = m + l /\ m \in Nat /\ l \in Nat /\ k \in Nat
      /\ \A i \in 1..(m + l) : y[i] = IF i <= m THEN g[i] ELSE b[i - m]
  BY ConcatProperties
<1> HIDE DEF y
<1>2. x = y \o p
  BY DEF y
<1>3. /\ x \in Seq(Nat) /\ Len(x) = Len(y) + k
      /\ \A i \in 1..(Len(y) + k) : x[i] = IF i <= Len(y) THEN y[i] ELSE p[i - Len(y)]
  <2>1. /\ y \o p \in Seq(Nat) /\ Len(y \o p) = Len(y) + Len(p)
        /\ \A i \in 1..(Len(y) + Len(p)) : (y \o p)[i] = IF i <= Len(y) THEN y[i] ELSE p[i - Len(y)]
    <3>1. y \in Seq(Nat)
      BY <1>1
    <3> QED BY <3>1, ConcatProperties, Zenon
  <2> QED BY <1>2, <2>1, Zenon
<1>4. ASSUME NEW i \in 1..m PROVE x[i] = g[i]
  <2>1. i \in 1..(m + l) /\ i <= m /\ i \in 1..(Len(y) + k) /\ i <= Len(y)
    BY <1>1
  <2> QED BY <1>1, <1>3, <2>1
<1>5. ASSUME NEW i \in 1..l PROVE x[m + i] = b[i]
  <2>1. m + i \in 1..(m + l) /\ ~(m + i <= m) /\ (m + i) - m = i
        /\ m + i \in 1..(Len(y) + k) /\ m + i <= Len(y)
    BY <1>1
  <2> QED BY <1>1, <1>3, <2>1
<1>6. ASSUME NEW i \in 1..k PROVE x[(m + l) + i] = p[i]
  <2>1. (m + l) + i \in 1..(Len(y) + k) /\ ~((m + l) + i <= Len(y)) /\ ((m + l) + i) - Len(y) = i
    BY <1>1
  <2> QED BY <1>3, <2>1
<1>7. Len(x) = m + l + k
  BY <1>1, <1>3
<1> QED BY <1>3, <1>4, <1>5, <1>6, <1>7

\* The events of the buffers are those in Handed, by number.
LEMMA InBuffersAt ==
    ASSUME IndInv
    PROVE  /\ InBuffers \in Seq(Nat) /\ Len(InBuffers) = Len(Handed)
           /\ \A i \in 1..Len(Handed) : InBuffers[i] = Handed[i].n
<1> DEFINE c == Returned(0)
           b == [i \in DOMAIN c |-> buf[c[i]].n]
<1>1. /\ Handed \in Seq(Events) /\ Len(Handed) = Len(c) /\ c \in Seq(Heads)
      /\ \A j \in 1..Len(c) : Handed[j] = buf[c[j]]
  BY HandedFacts, QueueState
<1>2. Len(c) \in Nat /\ DOMAIN c = 1..Len(c)
  BY <1>1
<1>3. \A i \in 1..Len(c) : Handed[i] \in Events /\ Handed[i].n \in Nat
  <2>1. \A i \in 1..Len(c) : Handed[i] \in Events
    BY <1>1
  <2>2. \A e \in Events : e.n \in Nat
    BY InputAssumption DEF Events
  <2> QED BY <2>1, <2>2
<1>4. b = [i \in 1..Len(c) |-> buf[c[i]].n]
  BY <1>2
<1>5. InBuffers = b
  <2>1. CASE ready
    BY <2>1 DEF InBuffers, Returned
  <2>2. CASE ~ready
    <3>1. lastUsed[0] = 0 /\ ring[0] = NewRing
      BY <2>2 DEF IndInv, ReadyInv
    <3>2. c = <<>>
      BY <3>1, NewRingFacts DEF Returned
    <3>3. b = <<>>
      BY <3>2
    <3> QED BY <2>2, <3>3 DEF InBuffers
  <2> QED BY <2>1, <2>2
<1> HIDE DEF c
<1>6. b \in [1..Len(c) -> Nat] /\ \A i \in 1..Len(c) : b[i] = Handed[i].n
  BY <1>1, <1>3, <1>4
<1> HIDE DEF b
<1>7. b \in Seq(Nat) /\ Len(b) = Len(c)
  BY <1>2, <1>6, IsASeq, LenProperties
<1> QED BY <1>1, <1>5, <1>6, <1>7

\* What the invariant says of the events implies the property.
LEMMA NewestFollows == IndInv => KeepsNewest
<1> SUFFICES ASSUME IndInv PROVE KeepsNewest
  OBVIOUS
<1> DEFINE g == got
           c == Handed
           b == InBuffers
           p == [i \in DOMAIN pending |-> pending[i].n]
           q == pending
           s == sent
           x == Kept
           m == Len(g)
           l == Len(c)
           d == Len(q)
           k == s - d
<1>1. /\ q \in Seq(Events) /\ s \in 0..MaxEvents /\ g \in Seq(1..MaxEvents) /\ d <= s
      /\ (\A i \in 1..d : q[i].n = k + i) /\ Passed(g, c, k, s)
  BY DEF IndInv, TypeOK, EventInv, LastSent
<1>2. b \in Seq(Nat) /\ Len(b) = l /\ \A i \in 1..l : b[i] = c[i].n
  BY InBuffersAt
<1>3. x = (g \o b) \o p
  BY DEF Kept
<1>4. s \in Nat /\ d \in Nat /\ k \in Nat /\ g \in Seq(Nat) /\ Cap \in Nat /\ s = k + d
  BY <1>1, InputAssumption, IndexFacts DEF Cap
<1>5. p \in Seq(Nat) /\ Len(p) = d /\ \A i \in 1..d : p[i] = k + i
  <2>1. DOMAIN q = 1..d
    BY <1>1
  <2>2. p = [i \in 1..d |-> q[i].n]
    BY <2>1
  <2> HIDE DEF p, q, d, k
  <2>3. p \in [1..d -> Nat] /\ \A i \in 1..d : p[i] = k + i
    <3>1. \A i \in 1..d : q[i].n = k + i /\ k + i \in Nat
      BY <1>1, <1>4
    <3> QED BY <2>2, <3>1
  <2> QED BY <1>4, <2>3, IsASeq, LenProperties
<1>6. KeepsNewest <=> /\ \A i \in 1..(Len(x) - 1) : x[i] < x[i + 1]
                      /\ \A n \in 1..s : n > s - Cap => \E i \in DOMAIN x : x[i] = n
  BY DEF KeepsNewest
<1> HIDE DEF g, c, b, p, q, s, x, d, k
<1>7. /\ x \in Seq(Nat) /\ Len(x) = m + l + d
      /\ \A i \in 1..m : x[i] = g[i]
      /\ \A i \in 1..l : x[m + i] = c[i].n
      /\ \A i \in 1..d : x[m + l + i] = k + i
      /\ m \in Nat /\ l \in Nat
  <2>1. m \in Nat /\ l \in Nat
    BY <1>2, <1>4
  <2>2. /\ x \in Seq(Nat) /\ Len(x) = Len(g) + Len(b) + Len(p)
        /\ \A i \in 1..Len(g) : x[i] = g[i]
        /\ \A i \in 1..Len(b) : x[Len(g) + i] = b[i]
        /\ \A i \in 1..Len(p) : x[Len(g) + Len(b) + i] = p[i]
    <3>1. g \in Seq(Nat) /\ b \in Seq(Nat) /\ p \in Seq(Nat)
      BY <1>2, <1>4, <1>5
    <3>2. \A z : z = (g \o b) \o p =>
              /\ z \in Seq(Nat) /\ Len(z) = Len(g) + Len(b) + Len(p)
              /\ \A i \in 1..Len(g) : z[i] = g[i]
              /\ \A i \in 1..Len(b) : z[Len(g) + i] = b[i]
              /\ \A i \in 1..Len(p) : z[Len(g) + Len(b) + i] = p[i]
      BY <3>1, KeptAt, Zenon
    <3> QED BY <1>3, <3>2, Zenon
  <2> QED BY <1>2, <1>5, <2>1, <2>2
<1> HIDE DEF m, l
<1>8. m \in Nat /\ l \in Nat /\ d \in Nat /\ k \in Nat /\ s = k + d /\ Len(x) = m + l + d
  BY <1>4, <1>7
<1>9. /\ \A i, j \in 1..m : i < j => g[i] < g[j]
      /\ \A i, j \in 1..l : i < j => c[i].n < c[j].n
      /\ \A i \in 1..m, j \in 1..l : g[i] < c[j].n
      /\ \A i \in 1..m : g[i] \in 1..k
      /\ \A j \in 1..l : c[j].n \in 1..k
      /\ \A n \in 1..k : n > s - Cap => (\E i \in 1..m : g[i] = n) \/ \E j \in 1..l : c[j].n = n
  BY <1>1 DEF Passed, m, l
<1>10. ASSUME NEW i \in 1..(Len(x) - 1) PROVE x[i] < x[i + 1]
  <2>1. CASE i < m
    <3>1. i \in 1..m /\ i + 1 \in 1..m /\ i < i + 1
      BY <1>8, <2>1
    <3> QED BY <1>7, <1>9, <3>1
  <2>2. CASE i = m /\ l > 0
    <3>1. i \in 1..m /\ 1 \in 1..l /\ i + 1 = m + 1
      BY <1>8, <2>2
    <3> QED BY <1>7, <1>9, <3>1
  <2>3. CASE i = m /\ l = 0
    <3>1. i \in 1..m /\ 1 \in 1..d /\ i + 1 = m + l + 1
      BY <1>8, <2>3
    <3>2. x[i] \in 1..k /\ x[i + 1] = k + 1
      BY <1>7, <1>9, <3>1
    <3> QED BY <1>4, <3>2
  <2>4. CASE i > m /\ i < m + l
    <3>1. i - m \in 1..l /\ (i - m) + 1 \in 1..l /\ m + (i - m) = i /\ m + ((i - m) + 1) = i + 1 /\ i - m < (i - m) + 1
      BY <1>8, <2>4
    <3>2. x[i] = c[i - m].n /\ x[i + 1] = c[(i - m) + 1].n
      BY <1>7, <3>1
    <3> QED BY <1>9, <3>1, <3>2
  <2>5. CASE i > m /\ i = m + l
    <3>1. l \in 1..l /\ 1 \in 1..d /\ i + 1 = m + l + 1
      BY <1>8, <2>5
    <3>2. x[i] \in 1..k /\ x[i + 1] = k + 1
      BY <1>7, <1>9, <2>5, <3>1
    <3> QED BY <1>4, <3>2
  <2>6. CASE i > m + l
    <3> DEFINE j == i - (m + l)
    <3>1. j \in 1..d /\ j + 1 \in 1..d /\ m + l + j = i /\ m + l + (j + 1) = i + 1
      BY <1>8, <2>6
    <3>2. x[i] = k + j /\ x[i + 1] = k + (j + 1)
      BY <1>7, <3>1
    <3> QED BY <1>4, <3>1, <3>2
  <2> QED BY <1>8, <2>1, <2>2, <2>3, <2>4, <2>5, <2>6
<1>11. ASSUME NEW n \in 1..s, n > s - Cap PROVE \E i \in DOMAIN x : x[i] = n
  <2>1. DOMAIN x = 1..(m + l + d)
    BY <1>7
  <2>2. CASE n <= k
    <3>1. n \in 1..k
      BY <1>8, <2>2
    <3>2. CASE \E i \in 1..m : g[i] = n
      <4>1. PICK i \in 1..m : g[i] = n
        BY <3>2
      <4>2. i \in 1..(m + l + d)
        BY <1>8
      <4> QED BY <1>7, <2>1, <4>1, <4>2
    <3>3. CASE \E j \in 1..l : c[j].n = n
      <4>1. PICK j \in 1..l : c[j].n = n
        BY <3>3
      <4>2. m + j \in 1..(m + l + d)
        BY <1>8
      <4> QED BY <1>7, <2>1, <4>1, <4>2
    <3> QED BY <1>9, <1>11, <3>1, <3>2, <3>3
  <2>3. CASE n > k
    <3>1. n - k \in 1..d /\ k + (n - k) = n /\ m + l + (n - k) \in 1..(m + l + d)
      BY <1>8, <2>3
    <3> QED BY <1>7, <2>1, <3>1
  <2> QED BY <1>8, <2>2, <2>3
<1> QED BY <1>6, <1>10, <1>11

\* The state is of its type: the queue keeps within its bound, no index leaves
\* its range and no event number exceeds what was sent.
THEOREM InputTyped == Spec => []TypeOK
<1>1. IndInv => TypeOK
  BY DEF IndInv
<1> QED BY <1>1, IndInvHolds, PTL

\* Whatever the ring size, the index width and the number of host threads: the
\* guest's input layer sees events in the order they were sent, each once, and
\* the newest 2 * kQueueSize are never lost.
THEOREM NewestKept == Spec => []KeepsNewest
  BY IndInvHolds, NewestFollows, PTL

\* A buffer or status chain handed back is never left without an interrupt,
\* however host threads, notifications and the handler interleave.
THEOREM SignalledAlways == Spec => []UsedIsSignalled
<1>1. IndInv => UsedIsSignalled
  <2> SUFFICES ASSUME IndInv, ready, pc["irq"] = "idle", mtx = "free",
                      NEW q \in {0, 1}, lastUsed[q] # ring[q].usedIdx
               PROVE  spi /\ irqStatus = 1
    BY DEF UsedIsSignalled
  <2>1. injected = FALSE /\ Covered(q)
    BY FreeFacts DEF IndInv, SignalInv
  <2> QED BY <2>1 DEF Covered
<1> QED BY <1>1, IndInvHolds, PTL
=============================================================================
