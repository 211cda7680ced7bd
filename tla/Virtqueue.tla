------------------------------ MODULE Virtqueue ------------------------------
(***************************************************************************)
(* A split virtqueue as the devices of hvf/ address it: two rings in guest *)
(* memory whose free-running indices wrap at 2^16 (IdxMod) and select one  *)
(* of kQueueSize (QSize) slots.  avail carries the heads of descriptor     *)
(* chains from the driver to the device, used carries them back.  The      *)
(* devices share the same code for it; the driver is the guest's.          *)
(***************************************************************************)
EXTENDS Naturals

CONSTANTS
    QSize,      \* kQueueSize: slots of each ring, and descriptors
    IdxMod      \* 2^16: the indices are uint16_t

\* IdxMod is a multiple of QSize, as 2^16 is of 256: only then does the slot
\* sequence continue across the wrap of an index.
ASSUME RingAssumption ==
    /\ QSize \in Nat \ {0} /\ IdxMod \in Nat
    /\ IdxMod > QSize /\ IdxMod % QSize = 0

Slots   == 0..(QSize - 1)
Heads   == 0..(QSize - 1)
Indices == 0..(IdxMod - 1)

Rings == [availIdx : Indices, avail : [Slots -> Heads],
          usedIdx  : Indices, used  : [Slots -> Heads]]

\* Rings as the driver allocates them, zeroed.
NewRing == [availIdx |-> 0, avail |-> [s \in Slots |-> 0],
            usedIdx  |-> 0, used  |-> [s \in Slots |-> 0]]

\* Mutant: an index wider than the ring's.
BumpUnwrapped(i) == i + 1

Bump(i) == (i + 1) % IdxMod
Ahead(from, i) == ((i + IdxMod) - from) % IdxMod    \* entries from..(i - 1)

\* The driver makes the chain that starts at h available.
Offer(r, h) ==
    [r EXCEPT !.avail[r.availIdx % QSize] = h, !.availIdx = Bump(@)]

\* The chain the device serves next, when it has served `last` of them.
NextHead(last, r) == r.avail[last % QSize]

\* The device hands the chain that starts at h back.
PushUsed(r, h) ==
    [r EXCEPT !.used[r.usedIdx % QSize] = h, !.usedIdx = Bump(@)]

\* What the device still has to serve, and the driver to collect, in order.
Unserved(last, r) ==
    [i \in 1..Ahead(last, r.availIdx) |-> r.avail[(last + i - 1) % QSize]]
Uncollected(lastUsed, r) ==
    [i \in 1..Ahead(lastUsed, r.usedIdx) |-> r.used[(lastUsed + i - 1) % QSize]]

==============================================================================
