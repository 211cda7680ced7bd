--------------------------- MODULE VirtqueueProofs ---------------------------
(***************************************************************************)
(* What the index arithmetic of a split virtqueue amounts to, for any ring *)
(* size and any width of the free-running indices: each ring is a queue.   *)
(* Offer and PushUsed append to it and advancing the reader's index takes  *)
(* its head, also where an index wraps, as long as the writer is at most   *)
(* QSize entries ahead.                                                    *)
(***************************************************************************)
EXTENDS Virtqueue, Sequences, FiniteSets, SequenceTheorems, FiniteSetTheorems, TLAPS

\* The range of a remainder.
LEMMA ModRange == ASSUME NEW m \in Nat \ {0}, NEW x \in Nat PROVE x % m \in 0..(m - 1)
  BY SMT

\* A remainder is determined by the quotient it leaves.
LEMMA ModUnique ==
    ASSUME NEW m \in Nat \ {0}, NEW k \in Nat, NEW r \in 0..(m - 1) PROVE (m * k + r) % m = r
  BY SMT

\* Every number has a quotient.
LEMMA ModQuotient ==
    ASSUME NEW m \in Nat \ {0}, NEW x \in Nat PROVE \E k \in Nat : x = m * k + (x % m)
<1>1. x \div m \in Nat /\ x = m * (x \div m) + (x % m)
  BY SMT
<1> QED BY <1>1

\* Adding a multiple of the modulus changes nothing.
LEMMA ModAdd ==
    ASSUME NEW m \in Nat \ {0}, NEW k \in Nat, NEW x \in Nat PROVE (x + m * k) % m = x % m
<1>1. PICK j \in Nat : x = m * j + (x % m)
  BY ModQuotient
<1>2. x % m \in 0..(m - 1) /\ x % m \in Nat
  BY ModRange
<1>3. m * j + m * k = m * (j + k) /\ j + k \in Nat /\ m * j \in Nat /\ m * k \in Nat
  BY SMT
<1>4. x + m * k = m * (j + k) + (x % m)
  BY <1>1, <1>2, <1>3
<1> QED BY <1>2, <1>3, <1>4, ModUnique

\* Indices and slots stay in range, and an index wraps at IdxMod.
LEMMA IndexFacts ==
    /\ QSize \in Nat \ {0} /\ IdxMod \in Nat \ {0} /\ QSize < IdxMod
    /\ \E k \in Nat : IdxMod = QSize * k
    /\ 0 \in Indices /\ 0 \in Slots
    /\ \A i \in Indices : /\ i \in Nat /\ i % QSize \in Slots /\ Bump(i) \in Indices
                          /\ Bump(i) = IF i = IdxMod - 1 THEN 0 ELSE i + 1
<1>1. QSize \in Nat \ {0} /\ IdxMod \in Nat \ {0} /\ QSize < IdxMod
  BY RingAssumption
<1>2. \E k \in Nat : IdxMod = QSize * k
  <2>1. PICK k \in Nat : IdxMod = QSize * k + (IdxMod % QSize)
    BY <1>1, ModQuotient
  <2>2. QSize * k \in Nat
    BY <1>1, SMT
  <2>3. IdxMod % QSize = 0
    BY RingAssumption
  <2> QED BY <2>1, <2>2, <2>3
<1>3. ASSUME NEW i \in Indices
      PROVE  /\ i \in Nat /\ i % QSize \in Slots /\ Bump(i) \in Indices
             /\ Bump(i) = IF i = IdxMod - 1 THEN 0 ELSE i + 1
  <2>1. i \in Nat /\ i < IdxMod
    BY <1>1 DEF Indices
  <2>2. i % QSize \in Slots
    BY <1>1, <2>1, ModRange DEF Slots
  <2>3. CASE i = IdxMod - 1
    <3>1. Bump(i) = IdxMod % IdxMod
      BY <1>1, <2>3 DEF Bump
    <3>2. IdxMod % IdxMod = 0
      BY <1>1, SMT
    <3> QED BY <1>1, <2>1, <2>2, <2>3, <3>1, <3>2 DEF Indices
  <2>4. CASE i # IdxMod - 1
    <3>1. i + 1 \in 0..(IdxMod - 1)
      BY <1>1, <2>1, <2>4
    <3>2. (i + 1) % IdxMod = i + 1
      BY <1>1, <3>1, SMT
    <3> QED BY <2>1, <2>2, <2>4, <3>1, <3>2 DEF Bump, Indices
  <2> QED BY <2>3, <2>4
<1>4. 0 \in Indices /\ 0 \in Slots
  BY <1>1 DEF Indices, Slots
<1> QED BY <1>1, <1>2, <1>3, <1>4

\* The slot of a position, wrapped or not.
Slot(i) == i % QSize

\* It is a slot of the ring.
LEMMA SlotIn == \A i \in Nat : Slot(i) \in Slots
  BY ModRange, IndexFacts DEF Slot, Slots

\* The slot sequence continues across the wrap of an index.
LEMMA SlotWrap ==
    ASSUME NEW a \in Indices, NEW i \in Nat PROVE Slot(Bump(a) + i) = Slot(a + (i + 1))
<1> USE DEF Slot
<1>1. PICK k \in Nat : IdxMod = QSize * k
  BY IndexFacts
<1>2. CASE a = IdxMod - 1
  <2>1. Bump(a) + i = i /\ a + (i + 1) = i + QSize * k
    BY <1>1, <1>2, IndexFacts
  <2>2. (i + QSize * k) % QSize = i % QSize
    BY ModAdd, IndexFacts
  <2> QED BY <2>1, <2>2
<1>3. CASE a # IdxMod - 1
  BY <1>3, IndexFacts
<1> QED BY <1>2, <1>3

\* Fewer than QSize entries apart, two positions have different slots.
LEMMA SlotsDiffer ==
    ASSUME NEW a \in Nat, NEW d \in 1..(QSize - 1) PROVE Slot(a + d) # Slot(a)
<1> USE DEF Slot
<1> SUFFICES ASSUME (a + d) % QSize = a % QSize PROVE FALSE
  OBVIOUS
<1>1. PICK j \in Nat : a = QSize * j + (a % QSize)
  BY ModQuotient, IndexFacts
<1>2. PICK k \in Nat : a + d = QSize * k + (a % QSize)
  <2>1. a + d \in Nat
    BY IndexFacts
  <2>2. \E k \in Nat : a + d = QSize * k + ((a + d) % QSize)
    BY <2>1, ModQuotient, IndexFacts
  <2> QED BY <2>2
<1>3. a % QSize \in Nat /\ QSize \in Nat \ {0}
  BY ModRange, IndexFacts
<1>4. d = QSize * k - QSize * j
  BY <1>1, <1>2, <1>3
<1>5. QSize * k - QSize * j = QSize * (k - j)
  BY <1>3, SMT
<1>6. d = QSize * (k - j) /\ k - j \in Int
  BY <1>4, <1>5
<1>7. CASE k - j <= 0
  BY <1>3, <1>6, <1>7, SMT
<1>8. CASE k - j >= 1
  BY <1>3, <1>6, <1>8, SMT
<1> QED BY <1>6, <1>7, <1>8

\* How far one index is ahead of another.
LEMMA AheadFacts ==
    ASSUME NEW a \in Indices, NEW b \in Indices
    PROVE  /\ Ahead(a, b) \in 0..(IdxMod - 1)
           /\ Ahead(a, b) = IF b >= a THEN b - a ELSE (b + IdxMod) - a
           /\ Ahead(a, b) = 0 <=> a = b
           /\ a # b => Ahead(Bump(a), b) = Ahead(a, b) - 1
           /\ Ahead(a, b) < IdxMod - 1 => Ahead(a, Bump(b)) = Ahead(a, b) + 1
           /\ Slot(b) = Slot(a + Ahead(a, b))
<1>1. ASSUME NEW x \in Indices, NEW y \in Indices
      PROVE  Ahead(x, y) = IF y >= x THEN y - x ELSE (y + IdxMod) - x
  <2>1. x \in Nat /\ y \in Nat /\ x < IdxMod /\ y < IdxMod /\ IdxMod \in Nat \ {0}
    BY IndexFacts DEF Indices
  <2>2. CASE y >= x
    <3>1. y - x \in 0..(IdxMod - 1) /\ (y + IdxMod) - x = IdxMod * 1 + (y - x)
      BY <2>1, <2>2
    <3> QED BY <2>1, <2>2, <3>1, ModUnique DEF Ahead
  <2>3. CASE ~(y >= x)
    <3>1. (y + IdxMod) - x \in 0..(IdxMod - 1) /\ (y + IdxMod) - x = IdxMod * 0 + ((y + IdxMod) - x)
      BY <2>1, <2>3
    <3> QED BY <2>1, <2>3, <3>1, ModUnique DEF Ahead
  <2> QED BY <2>2, <2>3
<1>2. /\ a \in Nat /\ b \in Nat /\ a < IdxMod /\ b < IdxMod /\ IdxMod \in Nat \ {0}
      /\ Bump(a) \in Indices /\ Bump(b) \in Indices
      /\ Bump(a) = IF a = IdxMod - 1 THEN 0 ELSE a + 1
      /\ Bump(b) = IF b = IdxMod - 1 THEN 0 ELSE b + 1
  BY IndexFacts DEF Indices
<1>3. /\ Ahead(a, b) = IF b >= a THEN b - a ELSE (b + IdxMod) - a
      /\ Ahead(Bump(a), b) = IF b >= Bump(a) THEN b - Bump(a) ELSE (b + IdxMod) - Bump(a)
      /\ Ahead(a, Bump(b)) = IF Bump(b) >= a THEN Bump(b) - a ELSE (Bump(b) + IdxMod) - a
  BY <1>1, <1>2
<1>4. Ahead(a, b) \in 0..(IdxMod - 1) /\ (Ahead(a, b) = 0 <=> a = b)
  BY <1>2, <1>3
<1>5. a # b => Ahead(Bump(a), b) = Ahead(a, b) - 1
  BY <1>2, <1>3
<1>6. Ahead(a, b) < IdxMod - 1 => Ahead(a, Bump(b)) = Ahead(a, b) + 1
  BY <1>2, <1>3
<1>7. Slot(b) = Slot(a + Ahead(a, b))
  <2>1. CASE b >= a
    BY <1>2, <1>3, <2>1
  <2>2. CASE ~(b >= a)
    <3>1. PICK k \in Nat : IdxMod = QSize * k
      BY IndexFacts
    <3>2. a + Ahead(a, b) = b + QSize * k
      BY <1>2, <1>3, <2>2, <3>1
    <3>3. (b + QSize * k) % QSize = b % QSize
      BY <1>2, ModAdd, IndexFacts
    <3> QED BY <3>2, <3>3 DEF Slot
  <2> QED BY <2>1, <2>2
<1> QED BY <1>3, <1>4, <1>5, <1>6, <1>7

-----------------------------------------------------------------------------
(***************************************************************************)
(* The rings as queues.                                                    *)
(***************************************************************************)
\* The entries of one ring, and what writing the slot of index b does to them.
Ring1s == [Slots -> Heads]
Put(f, b, h) == [f EXCEPT ![Slot(b)] = h]

\* What one ring holds from index a to index b.
Held(ring, a, b) == [i \in 1..Ahead(a, b) |-> ring[Slot(a + i - 1)]]

\* It is a sequence of heads, and empty when the indices agree.
LEMMA HeldSeq ==
    ASSUME NEW f \in Ring1s, NEW a \in Indices, NEW b \in Indices
    PROVE  /\ Held(f, a, b) \in Seq(Heads) /\ Len(Held(f, a, b)) = Ahead(a, b)
           /\ Held(f, a, b) = <<>> <=> a = b
           /\ \A i \in 1..Ahead(a, b) : Held(f, a, b)[i] = f[Slot(a + i - 1)]
<1>1. Ahead(a, b) \in Nat /\ (Ahead(a, b) = 0 <=> a = b) /\ a \in Nat
  BY AheadFacts, IndexFacts
<1>2. ASSUME NEW i \in 1..Ahead(a, b) PROVE f[Slot(a + i - 1)] \in Heads
  <2>1. a + i - 1 \in Nat
    BY <1>1
  <2>2. Slot(a + i - 1) \in Slots
    BY <2>1, SlotIn
  <2> QED BY <2>2 DEF Ring1s
<1>3. Held(f, a, b) \in [1..Ahead(a, b) -> Heads]
  BY <1>2 DEF Held
<1>4. Held(f, a, b) \in Seq(Heads) /\ Len(Held(f, a, b)) = Ahead(a, b)
  BY <1>1, <1>3, LenProperties, IsASeq
<1>5. Held(f, a, b) = <<>> <=> a = b
  BY <1>1, <1>4, EmptySeq
<1>6. \A i \in 1..Ahead(a, b) : Held(f, a, b)[i] = f[Slot(a + i - 1)]
  BY DEF Held
<1> QED BY <1>4, <1>5, <1>6

\* Writing the slot of b and advancing b appends.
LEMMA HeldAppend ==
    ASSUME NEW f \in Ring1s, NEW a \in Indices, NEW b \in Indices, NEW h \in Heads,
           Ahead(a, b) < QSize
    PROVE  /\ Put(f, b, h) \in Ring1s
           /\ Held(Put(f, b, h), a, Bump(b)) = Append(Held(f, a, b), h)
<1> DEFINE n == Ahead(a, b)
           g == Put(f, b, h)
           s == Held(f, a, b)
           t == Held(g, a, Bump(b))
<1>1. /\ n \in Nat /\ n < QSize /\ Ahead(a, Bump(b)) = n + 1 /\ Bump(b) \in Indices
      /\ Slot(b) = Slot(a + n) /\ Slot(b) \in Slots /\ a \in Nat
      /\ QSize \in Nat
  <2>1. QSize \in Nat \ {0} /\ IdxMod \in Nat \ {0} /\ QSize < IdxMod
    BY IndexFacts
  <2>2. n \in 0..(IdxMod - 1) /\ Slot(b) = Slot(a + n)
    BY AheadFacts
  <2>3. n < IdxMod - 1
    BY <2>1, <2>2
  <2>4. Ahead(a, Bump(b)) = n + 1
    BY <2>3, AheadFacts
  <2> QED BY <2>1, <2>2, <2>4, IndexFacts, SlotIn
<1>2. g \in Ring1s /\ g[Slot(b)] = h
  BY <1>1 DEF Put, Ring1s
<1>3. /\ s \in Seq(Heads) /\ Len(s) = n
      /\ \A i \in 1..n : s[i] = f[Slot(a + i - 1)]
  BY HeldSeq
<1>4. /\ t \in Seq(Heads) /\ Len(t) = n + 1
      /\ \A i \in 1..(n + 1) : t[i] = g[Slot(a + i - 1)]
  <2>1. /\ t \in Seq(Heads) /\ Len(t) = Ahead(a, Bump(b))
        /\ \A i \in 1..Ahead(a, Bump(b)) : t[i] = g[Slot(a + i - 1)]
    <3> DEFINE c == Bump(b)
    <3>1. c \in Indices /\ g \in Ring1s
      BY <1>1, <1>2
    <3> HIDE DEF c
    <3>2. /\ Held(g, a, c) \in Seq(Heads) /\ Len(Held(g, a, c)) = Ahead(a, c)
          /\ \A i \in 1..Ahead(a, c) : Held(g, a, c)[i] = g[Slot(a + i - 1)]
      BY <3>1, HeldSeq
    <3> QED BY <3>2 DEF c
  <2> QED BY <1>1, <2>1
<1>5. t[n + 1] = h
  <2>1. n + 1 \in 1..(n + 1) /\ a + (n + 1) - 1 = a + n
    BY <1>1
  <2> QED BY <1>1, <1>2, <1>4, <2>1
<1>6. ASSUME NEW i \in 1..n PROVE t[i] = s[i]
  <2>1. a + i - 1 \in Nat /\ n - i + 1 \in 1..(QSize - 1) /\ (a + i - 1) + (n - i + 1) = a + n
        /\ i \in 1..(n + 1)
    BY <1>1
  <2>2. Slot(a + n) # Slot(a + i - 1)
    BY <2>1, SlotsDiffer
  <2>3. Slot(a + i - 1) \in Slots
    BY <2>1, SlotIn
  <2>4. g[Slot(a + i - 1)] = f[Slot(a + i - 1)]
    BY <1>1, <2>2, <2>3 DEF Put, Ring1s
  <2> QED BY <1>3, <1>4, <2>1, <2>4
<1> HIDE DEF n, g, s, t
<1>7. /\ Append(s, h) \in Seq(Heads) /\ Len(Append(s, h)) = n + 1
      /\ Append(s, h)[n + 1] = h /\ \A i \in 1..n : Append(s, h)[i] = s[i]
  BY <1>1, <1>3
<1>8. ASSUME NEW i \in 1..(n + 1) PROVE t[i] = Append(s, h)[i]
  <2>1. i \in 1..n \/ i = n + 1
    BY <1>1
  <2> QED BY <1>5, <1>6, <1>7, <2>1
<1>9. t = Append(s, h)
  BY <1>4, <1>7, <1>8, SeqEqual
<1> QED BY <1>2, <1>9 DEF g, s, t

\* Advancing a takes the head.
LEMMA HeldTail ==
    ASSUME NEW f \in Ring1s, NEW a \in Indices, NEW b \in Indices, a # b
    PROVE  /\ Held(f, a, b) # <<>> /\ Head(Held(f, a, b)) = f[Slot(a)]
           /\ Held(f, Bump(a), b) = Tail(Held(f, a, b))
<1> DEFINE n == Ahead(a, b)
           s == Held(f, a, b)
           t == Held(f, Bump(a), b)
<1>1. /\ n \in Nat \ {0} /\ Ahead(Bump(a), b) = n - 1 /\ Bump(a) \in Indices /\ a \in Nat
      /\ Bump(a) \in Nat
  BY AheadFacts, IndexFacts
<1>2. /\ s \in Seq(Heads) /\ Len(s) = n /\ s # <<>>
      /\ \A i \in 1..n : s[i] = f[Slot(a + i - 1)]
  BY HeldSeq
<1>3. /\ t \in Seq(Heads) /\ Len(t) = n - 1
      /\ \A i \in 1..(n - 1) : t[i] = f[Slot(Bump(a) + i - 1)]
  <2>1. /\ t \in Seq(Heads) /\ Len(t) = Ahead(Bump(a), b)
        /\ \A i \in 1..Ahead(Bump(a), b) : t[i] = f[Slot(Bump(a) + i - 1)]
    <3> DEFINE c == Bump(a)
    <3>1. c \in Indices
      BY <1>1
    <3> HIDE DEF c
    <3>2. /\ Held(f, c, b) \in Seq(Heads) /\ Len(Held(f, c, b)) = Ahead(c, b)
          /\ \A i \in 1..Ahead(c, b) : Held(f, c, b)[i] = f[Slot(c + i - 1)]
      BY <3>1, HeldSeq
    <3> QED BY <3>2 DEF c
  <2> QED BY <1>1, <2>1
<1>4. ASSUME NEW i \in 1..(n - 1) PROVE t[i] = s[i + 1]
  <2>1. /\ i - 1 \in Nat /\ Bump(a) + (i - 1) = Bump(a) + i - 1
        /\ a + ((i - 1) + 1) = a + (i + 1) - 1 /\ i + 1 \in 1..n
    BY <1>1
  <2>2. Slot(Bump(a) + (i - 1)) = Slot(a + ((i - 1) + 1))
    BY <2>1, SlotWrap
  <2> QED BY <1>2, <1>3, <2>1, <2>2
<1>5. Head(s) = f[Slot(a)]
  <2>1. 1 \in 1..n /\ a + 1 - 1 = a
    BY <1>1
  <2> QED BY <1>2, <2>1
<1> HIDE DEF n, s, t
<1>6. /\ Tail(s) \in Seq(Heads) /\ Len(Tail(s)) = n - 1
      /\ \A i \in 1..(n - 1) : Tail(s)[i] = s[i + 1]
  BY <1>1, <1>2
<1>7. t = Tail(s)
  BY <1>3, <1>4, <1>6, SeqEqual
<1> QED BY <1>2, <1>5, <1>7 DEF s, t

\* Offer appends the chain to what the device has to serve and leaves the used
\* ring alone: the driver never overwrites a slot that was not served.
THEOREM OfferAppends ==
    ASSUME NEW r \in Rings, NEW last \in Indices, NEW h \in Heads,
           Ahead(last, r.availIdx) < QSize
    PROVE  /\ Offer(r, h) \in Rings
           /\ Unserved(last, Offer(r, h)) = Append(Unserved(last, r), h)
           /\ Offer(r, h).usedIdx = r.usedIdx /\ Offer(r, h).used = r.used
           /\ Offer(r, h).availIdx = Bump(r.availIdx)
<1> DEFINE f == r.avail
           b == r.availIdx
           g == Put(f, b, h)
<1>1. /\ r.avail \in Ring1s /\ r.availIdx \in Indices
      /\ r.used \in Ring1s /\ r.usedIdx \in Indices
  BY DEF Rings, Ring1s
<1>2. /\ g \in Ring1s /\ Bump(b) \in Indices
      /\ Held(g, last, Bump(b)) = Append(Held(f, last, b), h)
  <2>1. f \in Ring1s /\ b \in Indices /\ Ahead(last, b) < QSize
    BY <1>1
  <2> HIDE DEF f, b
  <2> QED BY <2>1, HeldAppend, IndexFacts
<1>3. Offer(r, h) = [[r EXCEPT !.avail = g] EXCEPT !.availIdx = Bump(b)]
  BY DEF Offer, Put, Slot
<1> HIDE DEF g
<1>4. /\ Offer(r, h) \in Rings /\ Offer(r, h).avail = g
      /\ Offer(r, h).usedIdx = r.usedIdx /\ Offer(r, h).used = r.used
      /\ Offer(r, h).availIdx = Bump(r.availIdx)
  BY <1>1, <1>2, <1>3 DEF Rings, Ring1s
<1> QED BY <1>2, <1>4 DEF Unserved, Held, Slot

\* The device serves the oldest chain, and advancing last_avail takes it.
THEOREM ServeTakesHead ==
    ASSUME NEW r \in Rings, NEW last \in Indices, last # r.availIdx
    PROVE  /\ Unserved(last, r) # <<>> /\ Head(Unserved(last, r)) = NextHead(last, r)
           /\ NextHead(last, r) \in Heads
           /\ Unserved(Bump(last), r) = Tail(Unserved(last, r))
<1>1. r.avail \in Ring1s /\ r.availIdx \in Indices
  BY DEF Rings, Ring1s
<1>2. Slot(last) \in Slots
  BY IndexFacts, SlotIn
<1>3. /\ Held(r.avail, last, r.availIdx) # <<>>
      /\ Head(Held(r.avail, last, r.availIdx)) = r.avail[Slot(last)]
      /\ Held(r.avail, Bump(last), r.availIdx) = Tail(Held(r.avail, last, r.availIdx))
  BY <1>1, HeldTail
<1> QED BY <1>1, <1>2, <1>3 DEF Unserved, Held, NextHead, Slot, Ring1s

\* PushUsed appends the chain to what the driver has to collect and leaves the
\* avail ring alone.
THEOREM PushUsedAppends ==
    ASSUME NEW r \in Rings, NEW lastUsed \in Indices, NEW h \in Heads,
           Ahead(lastUsed, r.usedIdx) < QSize
    PROVE  /\ PushUsed(r, h) \in Rings
           /\ Uncollected(lastUsed, PushUsed(r, h)) = Append(Uncollected(lastUsed, r), h)
           /\ PushUsed(r, h).availIdx = r.availIdx /\ PushUsed(r, h).avail = r.avail
           /\ PushUsed(r, h).usedIdx = Bump(r.usedIdx)
<1> DEFINE f == r.used
           b == r.usedIdx
           g == Put(f, b, h)
<1>1. /\ r.avail \in Ring1s /\ r.availIdx \in Indices
      /\ r.used \in Ring1s /\ r.usedIdx \in Indices
  BY DEF Rings, Ring1s
<1>2. /\ g \in Ring1s /\ Bump(b) \in Indices
      /\ Held(g, lastUsed, Bump(b)) = Append(Held(f, lastUsed, b), h)
  <2>1. f \in Ring1s /\ b \in Indices /\ Ahead(lastUsed, b) < QSize
    BY <1>1
  <2> HIDE DEF f, b
  <2> QED BY <2>1, HeldAppend, IndexFacts
<1>3. PushUsed(r, h) = [[r EXCEPT !.used = g] EXCEPT !.usedIdx = Bump(b)]
  BY DEF PushUsed, Put, Slot
<1> HIDE DEF g
<1>4. /\ PushUsed(r, h) \in Rings /\ PushUsed(r, h).used = g
      /\ PushUsed(r, h).availIdx = r.availIdx /\ PushUsed(r, h).avail = r.avail
      /\ PushUsed(r, h).usedIdx = Bump(r.usedIdx)
  BY <1>1, <1>2, <1>3 DEF Rings, Ring1s
<1> QED BY <1>2, <1>4 DEF Uncollected, Held, Slot

\* The driver collects the oldest answer, and advancing its position takes it.
THEOREM CollectTakesHead ==
    ASSUME NEW r \in Rings, NEW lastUsed \in Indices, lastUsed # r.usedIdx
    PROVE  /\ Uncollected(lastUsed, r) # <<>>
           /\ Head(Uncollected(lastUsed, r)) = r.used[lastUsed % QSize]
           /\ r.used[lastUsed % QSize] \in Heads
           /\ Uncollected(Bump(lastUsed), r) = Tail(Uncollected(lastUsed, r))
<1>1. r.used \in Ring1s /\ r.usedIdx \in Indices
  BY DEF Rings, Ring1s
<1>2. Slot(lastUsed) \in Slots
  BY IndexFacts, SlotIn
<1>3. /\ Held(r.used, lastUsed, r.usedIdx) # <<>>
      /\ Head(Held(r.used, lastUsed, r.usedIdx)) = r.used[Slot(lastUsed)]
      /\ Held(r.used, Bump(lastUsed), r.usedIdx) = Tail(Held(r.used, lastUsed, r.usedIdx))
  BY <1>1, HeldTail
<1> QED BY <1>1, <1>2, <1>3 DEF Uncollected, Held, Slot, Ring1s

\* The two queues: their types, their lengths and when they are empty; new
\* rings are empty.
LEMMA QueueFacts ==
    ASSUME NEW r \in Rings, NEW i \in Indices
    PROVE  /\ Unserved(i, r) \in Seq(Heads) /\ Uncollected(i, r) \in Seq(Heads)
           /\ Len(Unserved(i, r)) = Ahead(i, r.availIdx)
           /\ Len(Uncollected(i, r)) = Ahead(i, r.usedIdx)
           /\ Unserved(i, r) = <<>> <=> i = r.availIdx
           /\ Uncollected(i, r) = <<>> <=> i = r.usedIdx
<1>1. /\ r.avail \in Ring1s /\ r.availIdx \in Indices
      /\ r.used \in Ring1s /\ r.usedIdx \in Indices
  BY DEF Rings, Ring1s
<1>2. /\ Held(r.avail, i, r.availIdx) \in Seq(Heads)
      /\ Len(Held(r.avail, i, r.availIdx)) = Ahead(i, r.availIdx)
      /\ Held(r.avail, i, r.availIdx) = <<>> <=> i = r.availIdx
  BY <1>1, HeldSeq
<1>3. /\ Held(r.used, i, r.usedIdx) \in Seq(Heads)
      /\ Len(Held(r.used, i, r.usedIdx)) = Ahead(i, r.usedIdx)
      /\ Held(r.used, i, r.usedIdx) = <<>> <=> i = r.usedIdx
  BY <1>1, HeldSeq
<1> QED BY <1>2, <1>3 DEF Unserved, Uncollected, Held, Slot

\* The rings the driver allocates are empty queues.
LEMMA NewRingFacts ==
    /\ NewRing \in Rings /\ 0 \in Indices
    /\ Unserved(0, NewRing) = <<>> /\ Uncollected(0, NewRing) = <<>>
<1>1. NewRing \in Rings /\ NewRing.availIdx = 0 /\ NewRing.usedIdx = 0 /\ 0 \in Indices
  BY IndexFacts DEF NewRing, Rings, Slots, Heads
<1> QED BY <1>1, QueueFacts

-----------------------------------------------------------------------------
(***************************************************************************)
(* Who has a chain: the device still has to serve those in u, the driver   *)
(* to collect those in c, and those in o are not in use.                   *)
(***************************************************************************)
Apart(u, c, o) ==
    /\ \A i, j \in 1..Len(u) : u[i] = u[j] => i = j
    /\ \A i, j \in 1..Len(c) : c[i] = c[j] => i = j
    /\ \A i \in 1..Len(u), j \in 1..Len(c) : u[i] # c[j]
    /\ \A i \in 1..Len(u) : u[i] \notin o
    /\ \A j \in 1..Len(c) : c[j] \notin o

Somewhere(u, c, o) ==
    \A h \in Heads : \/ h \in o
                     \/ \E i \in 1..Len(u) : u[i] = h
                     \/ \E j \in 1..Len(c) : c[j] = h

Partition(u, c, o) ==
    /\ u \in Seq(Heads) /\ c \in Seq(Heads) /\ o \in SUBSET Heads
    /\ Apart(u, c, o) /\ Somewhere(u, c, o)
    /\ Len(u) + Len(c) + Cardinality(o) = QSize

\* There are QSize chains, and the driver's are some of them.
LEMMA HeadsFinite ==
    /\ IsFiniteSet(Heads) /\ Cardinality(Heads) = QSize
    /\ \A o \in SUBSET Heads : IsFiniteSet(o) /\ Cardinality(o) \in Nat
<1>1. QSize \in Nat \ {0} /\ QSize - 1 \in Int
  BY IndexFacts
<1>2. IsFiniteSet(0..(QSize - 1)) /\ Cardinality(0..(QSize - 1)) = QSize
  BY <1>1, FS_Interval
<1>3. IsFiniteSet(Heads) /\ Cardinality(Heads) = QSize
  BY <1>2 DEF Heads
<1>4. \A o \in SUBSET Heads : IsFiniteSet(o)
  BY <1>3, FS_Subset
<1>5. \A o \in SUBSET Heads : Cardinality(o) \in Nat
  BY <1>4, FS_CardinalityType
<1> QED BY <1>3, <1>4, <1>5

\* At first the driver has every chain.
LEMMA PartitionNew == Partition(<<>>, <<>>, Heads)
<1>1. <<>> \in Seq(Heads) /\ Len(<<>>) = 0 /\ Heads \in SUBSET Heads
  OBVIOUS
<1>2. 0 + 0 + Cardinality(Heads) = QSize
  BY HeadsFinite, IndexFacts
<1>3. Apart(<<>>, <<>>, Heads) /\ Somewhere(<<>>, <<>>, Heads)
  BY <1>1 DEF Apart, Somewhere
<1> QED BY <1>1, <1>2, <1>3 DEF Partition

\* The elements of a sequence with one more at its end.
LEMMA AppendAt ==
    ASSUME NEW S, NEW s \in Seq(S), NEW x \in S
    PROVE  /\ Append(s, x) \in Seq(S) /\ Len(Append(s, x)) = Len(s) + 1 /\ Len(s) \in Nat
           /\ \A i \in 1..(Len(s) + 1) : Append(s, x)[i] = IF i = Len(s) + 1 THEN x ELSE s[i]
  OBVIOUS

\* The same for a sequence without its head.
LEMMA TailAt ==
    ASSUME NEW S, NEW s \in Seq(S), s # <<>>
    PROVE  /\ Tail(s) \in Seq(S) /\ Len(Tail(s)) = Len(s) - 1 /\ Len(s) \in Nat \ {0}
           /\ Head(s) = s[1] /\ Head(s) \in S
           /\ \A i \in 1..(Len(s) - 1) : Tail(s)[i] = s[i + 1]
  OBVIOUS

\* The driver posts a chain it has; there was room in the avail ring.
LEMMA PartitionOffer ==
    ASSUME NEW u, NEW c, NEW o, Partition(u, c, o), NEW h \in o
    PROVE  Len(u) < QSize /\ Partition(Append(u, h), c, o \ {h})
<1> DEFINE v == Append(u, h)
<1>1. /\ u \in Seq(Heads) /\ c \in Seq(Heads) /\ o \in SUBSET Heads /\ h \in Heads
      /\ Len(u) \in Nat /\ Len(c) \in Nat /\ Len(u) + Len(c) + Cardinality(o) = QSize
  BY DEF Partition
<1>2. Cardinality(o) \in Nat /\ Cardinality(o \ {h}) = Cardinality(o) - 1 /\ Cardinality(o \ {h}) \in Nat
  BY <1>1, HeadsFinite, FS_RemoveElement
<1>3. /\ v \in Seq(Heads) /\ Len(v) = Len(u) + 1
      /\ \A i \in 1..(Len(u) + 1) : v[i] = IF i = Len(u) + 1 THEN h ELSE u[i]
  BY <1>1, AppendAt
<1> HIDE DEF v
<1>4. Apart(u, c, o) /\ Somewhere(u, c, o)
  BY DEF Partition
<1>5. Apart(v, c, o \ {h})
  <2>1. \A i, j \in 1..Len(v) : v[i] = v[j] => i = j
    BY <1>1, <1>3, <1>4 DEF Apart
  <2>2. \A i \in 1..Len(v), j \in 1..Len(c) : v[i] # c[j]
    BY <1>1, <1>3, <1>4 DEF Apart
  <2>3. \A i \in 1..Len(v) : v[i] \notin o \ {h}
    BY <1>1, <1>3, <1>4 DEF Apart
  <2> QED BY <1>4, <2>1, <2>2, <2>3 DEF Apart
<1>6. Somewhere(v, c, o \ {h})
  <2>1. v[Len(u) + 1] = h /\ Len(u) + 1 \in 1..Len(v)
    BY <1>1, <1>3
  <2>2. \A i \in 1..Len(u) : i \in 1..Len(v) /\ v[i] = u[i]
    BY <1>1, <1>3
  <2> QED BY <1>4, <2>1, <2>2 DEF Somewhere
<1>7. Len(u) < QSize /\ Len(v) + Len(c) + Cardinality(o \ {h}) = QSize
  BY <1>1, <1>2, <1>3, IndexFacts
<1> QED BY <1>1, <1>3, <1>5, <1>6, <1>7 DEF Partition, v

\* The device hands the oldest chain back; there was room in the used ring.
LEMMA PartitionServe ==
    ASSUME NEW u, NEW c, NEW o, Partition(u, c, o), u # <<>>
    PROVE  Len(c) < QSize /\ Partition(Tail(u), Append(c, Head(u)), o)
<1> DEFINE v == Tail(u)
           h == Head(u)
           d == Append(c, h)
<1>1. /\ u \in Seq(Heads) /\ c \in Seq(Heads) /\ o \in SUBSET Heads
      /\ Len(u) + Len(c) + Cardinality(o) = QSize /\ Cardinality(o) \in Nat
      /\ Apart(u, c, o) /\ Somewhere(u, c, o)
  BY HeadsFinite DEF Partition
<1>2. /\ v \in Seq(Heads) /\ Len(v) = Len(u) - 1 /\ Len(u) \in Nat \ {0}
      /\ h = u[1] /\ h \in Heads /\ \A i \in 1..(Len(u) - 1) : v[i] = u[i + 1]
  BY <1>1, TailAt
<1>3. /\ d \in Seq(Heads) /\ Len(d) = Len(c) + 1 /\ Len(c) \in Nat
      /\ \A i \in 1..(Len(c) + 1) : d[i] = IF i = Len(c) + 1 THEN h ELSE c[i]
  BY <1>1, <1>2, AppendAt
<1> HIDE DEF v, h, d
<1>4. \A i \in 1..Len(v) : i + 1 \in 1..Len(u) /\ v[i] = u[i + 1]
  BY <1>2
<1>5. 1 \in 1..Len(u)
  BY <1>2
<1>6. Apart(v, d, o)
  <2>1. ASSUME NEW i \in 1..Len(v), NEW j \in 1..Len(v), v[i] = v[j] PROVE i = j
    <3>1. i + 1 = j + 1
      BY <1>1, <1>4, <2>1 DEF Apart
    <3> QED BY <1>2, <3>1
  <2>2. ASSUME NEW i \in 1..Len(d), NEW j \in 1..Len(d), d[i] = d[j] PROVE i = j
    <3>1. \A k \in 1..Len(c) : u[1] # c[k]
      BY <1>1, <1>5 DEF Apart
    <3>2. i \in 1..Len(c) \/ i = Len(c) + 1
      BY <1>3
    <3>3. j \in 1..Len(c) \/ j = Len(c) + 1
      BY <1>3
    <3>4. \A k \in 1..Len(c) : d[k] = c[k]
      BY <1>3
    <3>5. d[Len(c) + 1] = u[1]
      BY <1>2, <1>3
    <3>6. \A k, l \in 1..Len(c) : c[k] = c[l] => k = l
      BY <1>1 DEF Apart
    <3> QED BY <2>2, <3>1, <3>2, <3>3, <3>4, <3>5, <3>6
  <2>3. \A i \in 1..Len(v), j \in 1..Len(d) : v[i] # d[j]
    BY <1>1, <1>2, <1>3, <1>4, <1>5 DEF Apart
  <2>4. \A i \in 1..Len(v) : v[i] \notin o
    BY <1>1, <1>4 DEF Apart
  <2>5. ASSUME NEW j \in 1..Len(d) PROVE d[j] \notin o
    <3>1. u[1] \notin o /\ \A k \in 1..Len(c) : c[k] \notin o
      BY <1>1, <1>5 DEF Apart
    <3>2. (j \in 1..Len(c) /\ d[j] = c[j]) \/ d[j] = u[1]
      BY <1>2, <1>3
    <3> QED BY <3>1, <3>2
  <2> QED BY <2>1, <2>2, <2>3, <2>4, <2>5 DEF Apart
<1>7. Somewhere(v, d, o)
  <2>1. d[Len(c) + 1] = u[1] /\ Len(c) + 1 \in 1..Len(d)
    BY <1>2, <1>3
  <2>2. \A i \in 1..Len(c) : i \in 1..Len(d) /\ d[i] = c[i]
    BY <1>3
  <2>3. \A i \in 1..Len(u) : i = 1 \/ (i - 1 \in 1..Len(v) /\ v[i - 1] = u[i])
    BY <1>2
  <2>4. \A i \in 1..Len(u) : \/ \E k \in 1..Len(v) : v[k] = u[i]
                             \/ \E j \in 1..Len(d) : d[j] = u[i]
    BY <2>1, <2>3
  <2> QED BY <1>1, <2>2, <2>4 DEF Somewhere
<1>8. Len(c) < QSize /\ Len(v) + Len(d) + Cardinality(o) = QSize
  BY <1>1, <1>2, <1>3, IndexFacts
<1> QED BY <1>1, <1>2, <1>3, <1>6, <1>7, <1>8 DEF Partition, v, d, h

\* The driver takes the oldest answer.
LEMMA PartitionCollect ==
    ASSUME NEW u, NEW c, NEW o, Partition(u, c, o), c # <<>>
    PROVE  Head(c) \notin o /\ Partition(u, Tail(c), o \cup {Head(c)})
<1> DEFINE v == Tail(c)
           h == Head(c)
           p == o \cup {h}
<1>1. /\ u \in Seq(Heads) /\ c \in Seq(Heads) /\ o \in SUBSET Heads /\ Len(u) \in Nat
      /\ Len(u) + Len(c) + Cardinality(o) = QSize /\ Cardinality(o) \in Nat
      /\ Apart(u, c, o) /\ Somewhere(u, c, o)
  BY HeadsFinite DEF Partition
<1>2. /\ v \in Seq(Heads) /\ Len(v) = Len(c) - 1 /\ Len(c) \in Nat \ {0}
      /\ h = c[1] /\ h \in Heads /\ \A i \in 1..(Len(c) - 1) : v[i] = c[i + 1]
  BY <1>1, TailAt
<1> HIDE DEF v, h
<1>3. 1 \in 1..Len(c)
  BY <1>2
<1>4. h \notin o
  BY <1>1, <1>2, <1>3 DEF Apart
<1>5. Cardinality(p) = Cardinality(o) + 1
  BY <1>1, <1>4, HeadsFinite, FS_AddElement
<1>6. \A i \in 1..Len(v) : i + 1 \in 1..Len(c) /\ v[i] = c[i + 1]
  BY <1>2
<1>7. Apart(u, v, p)
  <2>1. \A i, j \in 1..Len(v) : v[i] = v[j] => i = j
    BY <1>1, <1>2, <1>6 DEF Apart
  <2>2. \A i \in 1..Len(u), j \in 1..Len(v) : u[i] # v[j]
    BY <1>1, <1>6 DEF Apart
  <2>3. \A i \in 1..Len(u) : u[i] \notin p
    BY <1>1, <1>2, <1>3 DEF Apart
  <2>4. ASSUME NEW j \in 1..Len(v) PROVE v[j] \notin p
    <3>1. j + 1 \in 1..Len(c) /\ v[j] = c[j + 1] /\ j + 1 # 1
      BY <1>2, <1>6
    <3>2. c[j + 1] # c[1] /\ c[j + 1] \notin o
      BY <1>1, <1>3, <3>1 DEF Apart
    <3> QED BY <1>2, <3>1, <3>2
  <2> QED BY <1>1, <2>1, <2>2, <2>3, <2>4 DEF Apart
<1>8. Somewhere(u, v, p)
  <2>1. \A i \in 1..Len(c) : i = 1 \/ (i - 1 \in 1..Len(v) /\ v[i - 1] = c[i])
    BY <1>2
  <2>2. \A i \in 1..Len(c) : c[i] \in p \/ \E k \in 1..Len(v) : v[k] = c[i]
    BY <1>2, <2>1
  <2> QED BY <1>1, <2>2 DEF Somewhere
<1>9. p \in SUBSET Heads
  BY <1>1, <1>2
<1> HIDE DEF p
<1>10. Len(u) + Len(v) + Cardinality(p) = QSize
  BY <1>1, <1>2, <1>5, IndexFacts
<1>11. Partition(u, v, p)
  BY <1>1, <1>2, <1>7, <1>8, <1>9, <1>10 DEF Partition
<1> QED BY <1>4, <1>11 DEF v, h, p

\* While a queue is ready: the device has served up to `last`, the driver has
\* collected up to `lastUsed` and has the chains in o.
Accounted(last, r, lastUsed, o) ==
    /\ r \in Rings /\ last \in Indices /\ lastUsed \in Indices
    /\ Partition(Unserved(last, r), Uncollected(lastUsed, r), o)

\* A driver that sets the device up: new rings, every chain its own.
THEOREM AccountedNew == Accounted(0, NewRing, 0, Heads)
  BY NewRingFacts, PartitionNew DEF Accounted

\* Posting a chain the driver has keeps the account, at any ring size and
\* wherever the indices wrap: no slot that was not served is overwritten.
THEOREM AccountedOffer ==
    ASSUME NEW last, NEW r, NEW lastUsed, NEW o, Accounted(last, r, lastUsed, o), NEW h \in o
    PROVE  /\ Accounted(last, Offer(r, h), lastUsed, o \ {h})
           /\ Unserved(last, Offer(r, h)) = Append(Unserved(last, r), h)
           /\ Uncollected(lastUsed, Offer(r, h)) = Uncollected(lastUsed, r)
           /\ Offer(r, h).usedIdx = r.usedIdx /\ Offer(r, h).used = r.used
<1> DEFINE u == Unserved(last, r)
           c == Uncollected(lastUsed, r)
<1>1. /\ r \in Rings /\ last \in Indices /\ lastUsed \in Indices /\ Partition(u, c, o)
      /\ h \in Heads
  BY DEF Accounted, Partition
<1>2. Len(u) < QSize /\ Partition(Append(u, h), c, o \ {h})
  BY <1>1, PartitionOffer
<1>3. Ahead(last, r.availIdx) < QSize
  BY <1>1, <1>2, QueueFacts
<1>4. /\ Offer(r, h) \in Rings /\ Unserved(last, Offer(r, h)) = Append(u, h)
      /\ Offer(r, h).usedIdx = r.usedIdx /\ Offer(r, h).used = r.used
  BY <1>1, <1>3, OfferAppends
<1>5. Uncollected(lastUsed, Offer(r, h)) = c
  BY <1>4 DEF Uncollected
<1> QED BY <1>1, <1>2, <1>4, <1>5 DEF Accounted

\* Handing the oldest chain back and advancing last_avail keeps the account.
THEOREM AccountedServe ==
    ASSUME NEW last, NEW r, NEW lastUsed, NEW o, Accounted(last, r, lastUsed, o),
           last # r.availIdx
    PROVE  LET h == NextHead(last, r)
           IN /\ h \in Heads /\ Unserved(last, r) # <<>> /\ h = Head(Unserved(last, r))
              /\ Accounted(Bump(last), PushUsed(r, h), lastUsed, o)
              /\ Unserved(Bump(last), PushUsed(r, h)) = Tail(Unserved(last, r))
              /\ Uncollected(lastUsed, PushUsed(r, h)) = Append(Uncollected(lastUsed, r), h)
              /\ PushUsed(r, h).availIdx = r.availIdx /\ PushUsed(r, h).avail = r.avail
<1> DEFINE h == NextHead(last, r)
           u == Unserved(last, r)
           c == Uncollected(lastUsed, r)
<1>1. r \in Rings /\ last \in Indices /\ lastUsed \in Indices /\ Partition(u, c, o)
  BY DEF Accounted
<1>2. h \in Heads /\ u # <<>> /\ h = Head(u) /\ Unserved(Bump(last), r) = Tail(u)
  BY <1>1, ServeTakesHead
<1>3. Len(c) < QSize /\ Partition(Tail(u), Append(c, h), o)
  BY <1>1, <1>2, PartitionServe
<1>4. Ahead(lastUsed, r.usedIdx) < QSize /\ Bump(last) \in Indices
  BY <1>1, <1>3, QueueFacts, IndexFacts
<1>5. /\ PushUsed(r, h) \in Rings /\ Uncollected(lastUsed, PushUsed(r, h)) = Append(c, h)
      /\ PushUsed(r, h).availIdx = r.availIdx /\ PushUsed(r, h).avail = r.avail
  BY <1>1, <1>2, <1>4, PushUsedAppends
<1>6. Unserved(Bump(last), PushUsed(r, h)) = Tail(u)
  BY <1>2, <1>5 DEF Unserved
<1>7. Accounted(Bump(last), PushUsed(r, h), lastUsed, o)
  BY <1>1, <1>3, <1>4, <1>5, <1>6 DEF Accounted
<1> QED BY <1>2, <1>5, <1>6, <1>7

\* Collecting the oldest answer keeps the account.
THEOREM AccountedCollect ==
    ASSUME NEW last, NEW r, NEW lastUsed, NEW o, Accounted(last, r, lastUsed, o),
           lastUsed # r.usedIdx
    PROVE  LET h == r.used[lastUsed % QSize]
           IN /\ h \in Heads /\ h \notin o /\ Uncollected(lastUsed, r) # <<>>
              /\ h = Head(Uncollected(lastUsed, r))
              /\ Accounted(last, r, Bump(lastUsed), o \cup {h})
              /\ Uncollected(Bump(lastUsed), r) = Tail(Uncollected(lastUsed, r))
<1> DEFINE h == r.used[lastUsed % QSize]
           u == Unserved(last, r)
           c == Uncollected(lastUsed, r)
<1>1. r \in Rings /\ last \in Indices /\ lastUsed \in Indices /\ Partition(u, c, o)
  BY DEF Accounted
<1>2. h \in Heads /\ c # <<>> /\ h = Head(c) /\ Uncollected(Bump(lastUsed), r) = Tail(c)
  BY <1>1, CollectTakesHead
<1> HIDE DEF h
<1>3. h \notin o /\ Partition(u, Tail(c), o \cup {h})
  BY <1>1, <1>2, PartitionCollect
<1>4. Bump(lastUsed) \in Indices
  BY <1>1, IndexFacts
<1>5. Accounted(last, r, Bump(lastUsed), o \cup {h})
  BY <1>1, <1>2, <1>3, <1>4 DEF Accounted
<1> QED BY <1>2, <1>3, <1>5 DEF h

-----------------------------------------------------------------------------
(***************************************************************************)
(* Queues of chains seen as queues of what the chains carry.               *)
(***************************************************************************)
\* The queue of what f says of each chain of a queue of chains.
Carry(s, f) == [i \in DOMAIN s |-> f[s[i]]]
Said(f) == {f[h] : h \in Heads}

\* It is a sequence and only depends on the chains in the queue.
LEMMA CarryFacts ==
    ASSUME NEW s \in Seq(Heads), NEW f
    PROVE  /\ Carry(s, f) \in Seq(Said(f)) /\ Len(Carry(s, f)) = Len(s)
           /\ Carry(<<>>, f) = <<>> /\ \A i \in 1..Len(s) : Carry(s, f)[i] = f[s[i]]
<1>1. DOMAIN s = 1..Len(s) /\ Len(s) \in Nat /\ \A i \in 1..Len(s) : s[i] \in Heads
  OBVIOUS
<1>2. Carry(s, f) \in [1..Len(s) -> Said(f)]
  BY <1>1 DEF Carry, Said
<1>3. Carry(s, f) \in Seq(Said(f)) /\ Len(Carry(s, f)) = Len(s)
  BY <1>1, <1>2, LenProperties, IsASeq
<1>4. \A i \in 1..Len(s) : Carry(s, f)[i] = f[s[i]]
  BY <1>1 DEF Carry
<1>5. Carry(<<>>, f) = <<>>
  BY DEF Carry
<1> QED BY <1>3, <1>4, <1>5

\* What is said of other chains does not matter.
LEMMA CarrySame ==
    ASSUME NEW s \in Seq(Heads), NEW f, NEW g, \A i \in 1..Len(s) : f[s[i]] = g[s[i]]
    PROVE  Carry(s, f) = Carry(s, g)
<1>1. DOMAIN s = 1..Len(s)
  OBVIOUS
<1> QED BY <1>1 DEF Carry

\* Appending a chain appends what is said of it.
LEMMA CarryAppend ==
    ASSUME NEW s \in Seq(Heads), NEW f, NEW h \in Heads
    PROVE  Carry(Append(s, h), f) = Append(Carry(s, f), f[h])
<1> DEFINE S == Said(f)
           t == Append(s, h)
           c == Carry(s, f)
           d == Carry(t, f)
           e == Append(c, f[h])
<1>1. /\ t \in Seq(Heads) /\ Len(t) = Len(s) + 1 /\ Len(s) \in Nat
      /\ \A i \in 1..(Len(s) + 1) : t[i] = IF i = Len(s) + 1 THEN h ELSE s[i]
  BY AppendAt
<1>2. c \in Seq(S) /\ Len(c) = Len(s) /\ \A i \in 1..Len(s) : c[i] = f[s[i]]
  BY CarryFacts
<1>3. d \in Seq(S) /\ Len(d) = Len(t) /\ \A i \in 1..Len(t) : d[i] = f[t[i]]
  <2> HIDE DEF t
  <2> QED BY <1>1, CarryFacts
<1>4. f[h] \in S
  BY DEF Said
<1> HIDE DEF S, c, d, t
<1>5. /\ e \in Seq(S) /\ Len(e) = Len(c) + 1
      /\ \A i \in 1..(Len(c) + 1) : e[i] = IF i = Len(c) + 1 THEN f[h] ELSE c[i]
  BY <1>2, <1>4, AppendAt
<1> HIDE DEF e
<1>6. ASSUME NEW i \in 1..(Len(s) + 1) PROVE d[i] = e[i]
  <2>1. CASE i = Len(s) + 1
    BY <1>1, <1>2, <1>3, <1>5, <2>1
  <2>2. CASE i # Len(s) + 1
    <3>1. i \in 1..Len(s)
      BY <1>1, <2>2
    <3> QED BY <1>1, <1>2, <1>3, <1>5, <2>2, <3>1
  <2> QED BY <2>1, <2>2
<1>7. d = e
  BY <1>1, <1>2, <1>3, <1>5, <1>6, SeqEqual
<1> QED BY <1>7 DEF c, d, e, t

\* Taking the head takes what is said of it.
LEMMA CarryTail ==
    ASSUME NEW s \in Seq(Heads), NEW f, s # <<>>
    PROVE  /\ Carry(s, f) # <<>> /\ Head(Carry(s, f)) = f[Head(s)]
           /\ Carry(Tail(s), f) = Tail(Carry(s, f))
<1> DEFINE S == Said(f)
           t == Tail(s)
           c == Carry(s, f)
           d == Carry(t, f)
           e == Tail(c)
<1>1. /\ t \in Seq(Heads) /\ Len(t) = Len(s) - 1 /\ Len(s) \in Nat \ {0} /\ Head(s) = s[1]
      /\ \A i \in 1..(Len(s) - 1) : t[i] = s[i + 1]
  BY TailAt
<1>2. c \in Seq(S) /\ Len(c) = Len(s) /\ \A i \in 1..Len(s) : c[i] = f[s[i]]
  BY CarryFacts
<1>3. d \in Seq(S) /\ Len(d) = Len(t) /\ \A i \in 1..Len(t) : d[i] = f[t[i]]
  <2> HIDE DEF t
  <2> QED BY <1>1, CarryFacts
<1> HIDE DEF S, c, d, t
<1>4. c # <<>>
  BY <1>1, <1>2
<1>5. /\ e \in Seq(S) /\ Len(e) = Len(c) - 1 /\ Head(c) = c[1]
      /\ \A i \in 1..(Len(c) - 1) : e[i] = c[i + 1]
  BY <1>2, <1>4, TailAt
<1> HIDE DEF e
<1>6. ASSUME NEW i \in 1..(Len(s) - 1) PROVE d[i] = e[i]
  <2>1. i \in 1..Len(t) /\ i + 1 \in 1..Len(s) /\ i \in 1..(Len(c) - 1)
    BY <1>1, <1>2
  <2> QED BY <1>1, <1>2, <1>3, <1>5, <2>1
<1>7. d = e
  BY <1>1, <1>2, <1>3, <1>5, <1>6, SeqEqual
<1>8. Head(c) = f[Head(s)]
  BY <1>1, <1>2, <1>5
<1> QED BY <1>4, <1>7, <1>8 DEF c, d, e, t
=============================================================================
