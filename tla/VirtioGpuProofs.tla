--------------------------- MODULE VirtioGpuProofs ---------------------------
(***************************************************************************)
(* Proofs about VirtioGpu, for any number of vCPUs and resources, any ring *)
(* size and index width, and any number of commands, drawings and resets.  *)
(***************************************************************************)
EXTENDS VirtioGpu, VirtqueueProofs, WellFoundedInduction

(***************************************************************************)
(* The inductive invariant.                                                *)
(***************************************************************************)
Unserveds == Unserved(last, ring)
Answereds == Uncollected(lastUsed, ring)

\* mtx_ is held by the one vCPU inside process_controlq; the frames that were
\* staged are taken before it is released; a vCPU has frames while it shows them.
LockInv ==
    /\ \A v \in Vcpus : pc[v] = "scan" <=> mtx = v
    /\ mtx # "free" => ready
    /\ mtx = "free" => pending = <<>>
    /\ \A v \in Vcpus : pc[v] = "show" <=> batch[v] # <<>>

\* After a reset the queue starts at 0 and no resource exists; the chains of a
\* queue that is ready are accounted for.
ReadyInv ==
    /\ ~ready => last = 0 /\ res = [i \in Ids |-> Gone]
    /\ irqStatus = 1 \/ irqpc \in {"ack", "collect"} => ready
    /\ ready => Accounted(last, ring, lastUsed, owned)

\* A chain the driver has not collected is about to be collected, about to be
\* signalled by the holder of mtx_, or has been signalled.
SignalInv ==
    ready /\ lastUsed # ring.usedIdx =>
        \/ irqpc = "collect" \/ mtx # "free"
        \/ irqStatus = 1 /\ (spi \/ irqpc \in {"read", "ack"})

\* The frames p staged, b[v] taken by vCPU v and s shown are the first m, each
\* in one place.
Distinct(f) == \A i, j \in 1..Len(f) : f[i].n = f[j].n => i = j
Disjoint(f, g) == \A i \in 1..Len(f), j \in 1..Len(g) : f[i].n # g[j].n
Numbered(f, m) == \A i \in 1..Len(f) : f[i].n \in 1..m
Has(f, n) == \E i \in 1..Len(f) : f[i].n = n

Spread(p, b, s, m) ==
    /\ Distinct(p) /\ Numbered(p, m)
    /\ \A v \in Vcpus : Distinct(b[v]) /\ Numbered(b[v], m) /\ Disjoint(p, b[v])
    /\ \A v, w \in Vcpus : v # w => Disjoint(b[v], b[w])
    /\ \A i, j \in 1..Len(s) : s[i] = s[j] => i = j
    /\ \A j \in 1..Len(s) : /\ s[j] \in 1..m /\ ~Has(p, s[j])
                            /\ \A v \in Vcpus : ~Has(b[v], s[j])
    /\ \A n \in 1..m : \/ Has(p, n) \/ \E v \in Vcpus : Has(b[v], n)
                       \/ \E j \in 1..Len(s) : s[j] = n

\* None of the frames f is older than the driver may expect.
NoneOld(f) == \A j \in 1..Len(f) : f[j].pix >= f[j].due

FrameInv ==
    /\ Spread(pending, batch, shown, staged)
    /\ NoneOld(pending) /\ \A v \in Vcpus : NoneOld(batch[v])

\* What the driver, or the device, takes a resource for: how far it is made,
\* and the drawing it has at least.
Views == [at : {"none", "made", "backed"}, due : 0..MaxDraw]
Stage(r) == IF ~r.live THEN "none" ELSE IF r.backed THEN "backed" ELSE "made"

\* The device's resources r are as z says.
Fits(r, z) == \A i \in Ids : z[i].at = Stage(r[i]) /\ (r[i].live => z[i].due <= r[i].pix)

\* The protocol allows the command c when the resources are as y says.
Legal(c, y) ==
    /\ c.id \in Ids
    /\ \/ c.op = "OTHER"
       \/ c.op = "CREATE" /\ y[c.id].at = "none"
       \/ c.op = "ATTACH" /\ y[c.id].at = "made"
       \/ c.op \in {"DETACH", "TRANSFER"} /\ y[c.id].at = "backed"
       \/ c.op \in {"SCANOUT", "UNREF"} /\ y[c.id].at # "none"
       \/ c.op = "FLUSH" /\ y[c.id].at # "none" /\ c.due = y[c.id].due

\* The command leads from y to z; the drawings are now those of b.
Leads(c, y, z, b) ==
    /\ z[c.id].at = Viewed(c.op, y[c.id].at)
    /\ CASE c.op = "TRANSFER" -> z[c.id].due <= b[c.id]
         [] c.op = "CREATE" -> z[c.id].due = 0
         [] OTHER -> z[c.id].due = y[c.id].due
    /\ \A i \in Ids : i # c.id => z[i] = y[i]

\* w tells how the commands of s, one after the other, lead from w[0] on.
Run(w, s, b) ==
    \A k \in 1..Len(s) : Legal(s[k], w[k - 1]) /\ Leads(s[k], w[k - 1], w[k], b)

\* The commands s the device has not executed lead from its resources r to the
\* driver's view z.
Sync(s, r, b, z) ==
    \E w \in [0..Len(s) -> [Ids -> Views]] : Run(w, s, b) /\ Fits(r, w[0]) /\ w[Len(s)] = z

ToDo == Carry(Unserveds, chain)
DriverView == [i \in Ids |-> [at |-> view[i], due |-> due[i]]]
SyncInv ==
    /\ ~refused
    /\ \A i \in Ids : fb[i] <= draws
    /\ ready => Sync(ToDo, res, fb, DriverView)

IndInv == TypeOK /\ LockInv /\ ReadyInv /\ SignalInv /\ FrameInv /\ SyncInv

-----------------------------------------------------------------------------
(***************************************************************************)
(* The driver's view and the device's resources.                           *)
(***************************************************************************)
\* Without a command in between they are the same.
LEMMA SyncNew ==
    ASSUME NEW r, NEW b, NEW z \in [Ids -> Views], Fits(r, z) PROVE Sync(<<>>, r, b, z)
<1> DEFINE w == [k \in 0..0 |-> z]
<1>1. Len(<<>>) = 0 /\ 0 \in 0..0 /\ \A k \in 1..0 : FALSE
  OBVIOUS
<1>2. w \in [0..Len(<<>>) -> [Ids -> Views]] /\ w[0] = z
  BY <1>1
<1>3. Run(w, <<>>, b)
  BY <1>1 DEF Run
<1> HIDE DEF w
<1> QED BY <1>1, <1>2, <1>3 DEF Sync

\* The driver posts a command the protocol allows.
LEMMA SyncPost ==
    ASSUME NEW s \in Seq(Commands), NEW r, NEW b, NEW y, NEW z \in [Ids -> Views], NEW c \in Commands,
           Sync(s, r, b, y), Legal(c, y), Leads(c, y, z, b)
    PROVE  Sync(Append(s, c), r, b, z)
<1> DEFINE t == Append(s, c)
           n == Len(s)
<1>1. PICK w \in [0..Len(s) -> [Ids -> Views]] : Run(w, s, b) /\ Fits(r, w[0]) /\ w[Len(s)] = y
  BY DEF Sync
<1>2. /\ Len(t) = n + 1 /\ n \in Nat
      /\ \A i \in 1..(n + 1) : t[i] = IF i = n + 1 THEN c ELSE s[i]
  BY AppendAt
<1> DEFINE x == [k \in 0..(n + 1) |-> IF k = n + 1 THEN z ELSE w[k]]
<1>3. x \in [0..Len(t) -> [Ids -> Views]] /\ x[0] = w[0] /\ x[Len(t)] = z
  BY <1>2
<1>4. \A k \in 0..n : x[k] = w[k]
  BY <1>2
<1> HIDE DEF x, t
<1>5. ASSUME NEW k \in 1..Len(t) PROVE Legal(t[k], x[k - 1]) /\ Leads(t[k], x[k - 1], x[k], b)
  <2>1. CASE k = n + 1
    <3>1. t[k] = c /\ x[k - 1] = y /\ x[k] = z
      <4>1. k - 1 = n /\ n \in 0..n /\ k \in 1..(n + 1)
        BY <1>2, <2>1
      <4> QED BY <1>1, <1>2, <1>3, <1>4, <2>1, <4>1
    <3> QED BY <3>1
  <2>2. CASE k # n + 1
    <3>1. k \in 1..n /\ k - 1 \in 0..n /\ k \in 0..n /\ k \in 1..(n + 1)
      BY <1>2, <2>2
    <3>2. t[k] = s[k] /\ x[k - 1] = w[k - 1] /\ x[k] = w[k]
      BY <1>2, <1>4, <2>2, <3>1
    <3>3. Legal(s[k], w[k - 1]) /\ Leads(s[k], w[k - 1], w[k], b)
      BY <1>1, <3>1 DEF Run
    <3> QED BY <3>2, <3>3
  <2> QED BY <2>1, <2>2
<1>6. Run(x, t, b)
  BY <1>5 DEF Run
<1>7. Sync(t, r, b, z)
  BY <1>1, <1>3, <1>6 DEF Sync
<1> QED BY <1>7 DEF t

\* The device executes the oldest command c: it is allowed now, and when the
\* resources become what c leads to, the rest leads to the driver's view.
LEMMA SyncServe ==
    ASSUME NEW s \in Seq(Commands), s # <<>>, NEW r, NEW b, NEW z, Sync(s, r, b, z)
    PROVE  \E x, y \in [Ids -> Views] :
               /\ Fits(r, x) /\ Legal(Head(s), x) /\ Leads(Head(s), x, y, b)
               /\ \A q : Fits(q, y) => Sync(Tail(s), q, b, z)
<1> DEFINE t == Tail(s)
           n == Len(s)
<1>1. PICK w \in [0..Len(s) -> [Ids -> Views]] : Run(w, s, b) /\ Fits(r, w[0]) /\ w[Len(s)] = z
  BY DEF Sync
<1>2. /\ Len(t) = n - 1 /\ n \in Nat \ {0} /\ Head(s) = s[1]
      /\ \A i \in 1..(n - 1) : t[i] = s[i + 1]
  BY TailAt
<1>3. /\ 1 \in 1..n /\ 1 - 1 = 0 /\ 0 \in 0..n /\ 1 \in 0..n
  BY <1>2
<1>4. w[0] \in [Ids -> Views] /\ w[1] \in [Ids -> Views]
  BY <1>1, <1>3
<1>5. Legal(Head(s), w[0]) /\ Leads(Head(s), w[0], w[1], b)
  BY <1>1, <1>2, <1>3 DEF Run
<1>6. ASSUME NEW q, Fits(q, w[1]) PROVE Sync(t, q, b, z)
  <2> DEFINE x == [k \in 0..(n - 1) |-> w[k + 1]]
  <2>1. \A k \in 0..(n - 1) : k + 1 \in 0..n /\ w[k + 1] \in [Ids -> Views]
    BY <1>1, <1>2
  <2>2. x \in [0..Len(t) -> [Ids -> Views]]
    BY <1>2, <2>1
  <2>3. x[0] = w[1] /\ x[Len(t)] = w[n]
    BY <1>2
  <2>4. \A k \in 0..(n - 1) : x[k] = w[k + 1]
    OBVIOUS
  <2> HIDE DEF x, t
  <2>5. ASSUME NEW k \in 1..Len(t) PROVE Legal(t[k], x[k - 1]) /\ Leads(t[k], x[k - 1], x[k], b)
    <3>1. k \in 1..(n - 1) /\ k + 1 \in 1..n /\ (k + 1) - 1 = k /\ k - 1 \in 0..(n - 1)
          /\ (k - 1) + 1 = k /\ k \in 0..(n - 1)
      BY <1>2
    <3>2. t[k] = s[k + 1] /\ x[k - 1] = w[k] /\ x[k] = w[k + 1]
      BY <1>2, <2>4, <3>1
    <3>3. Legal(s[k + 1], w[k]) /\ Leads(s[k + 1], w[k], w[k + 1], b)
      BY <1>1, <3>1 DEF Run
    <3> QED BY <3>2, <3>3
  <2>6. Run(x, t, b)
    BY <2>5 DEF Run
  <2> QED BY <1>1, <1>6, <2>2, <2>3, <2>6 DEF Sync
<1> QED BY <1>1, <1>4, <1>5, <1>6

\* Drawing on makes nothing older.
LEMMA SyncDraw ==
    ASSUME NEW s \in Seq(Commands), NEW r, NEW b \in [Ids -> Nat], NEW a \in [Ids -> Nat], NEW z,
           Sync(s, r, b, z), \A i \in Ids : b[i] <= a[i]
    PROVE  Sync(s, r, a, z)
<1>1. PICK w \in [0..Len(s) -> [Ids -> Views]] : Run(w, s, b) /\ Fits(r, w[0]) /\ w[Len(s)] = z
  BY DEF Sync
<1>2. ASSUME NEW k \in 1..Len(s) PROVE Legal(s[k], w[k - 1]) /\ Leads(s[k], w[k - 1], w[k], a)
  <2>1. Legal(s[k], w[k - 1]) /\ Leads(s[k], w[k - 1], w[k], b) /\ s[k].id \in Ids
    BY <1>1 DEF Run, Legal
  <2>2. k \in 0..Len(s)
    OBVIOUS
  <2>3. w[k][s[k].id].due \in Nat
    <3>1. w[k] \in [Ids -> Views]
      BY <1>1, <2>2
    <3>2. w[k][s[k].id] \in Views
      BY <2>1, <3>1
    <3> QED BY <3>2, GpuAssumption DEF Views
  <2>4. w[k][s[k].id].due <= b[s[k].id] => w[k][s[k].id].due <= a[s[k].id]
    BY <2>1, <2>3
  <2> QED BY <2>1, <2>4 DEF Leads
<1>3. Run(w, s, a)
  BY <1>2 DEF Run
<1> QED BY <1>1, <1>3 DEF Sync

\* The free list's first chain.
LEMMA FirstFree == ASSUME NEW o \in SUBSET Nat, o # {} PROVE \E h \in o : \A g \in o : h <= g
<1>1. PICK h \in o : \A g \in o : ~(<<g, h>> \in OpToRel(<, Nat))
  BY NatLessThanWellFounded, WFMin
<1>2. \A g \in o : ~(g < h)
  BY <1>1 DEF OpToRel
<1> QED BY <1>2

-----------------------------------------------------------------------------
(***************************************************************************)
(* Where the frames are.                                                   *)
(***************************************************************************)
\* Initially there is none.
LEMMA SpreadNew ==
    ASSUME NEW b, \A v \in Vcpus : b[v] = <<>> PROVE Spread(<<>>, b, <<>>, 0)
<1>1. Len(<<>>) = 0 /\ \A k \in 1..0 : FALSE
  OBVIOUS
<1> QED BY <1>1 DEF Spread, Distinct, Numbered, Disjoint, Has

\* A flush stages the next frame.
LEMMA SpreadFlush ==
    ASSUME NEW p \in Seq(Frames), NEW b, NEW s, NEW m \in Nat, Spread(p, b, s, m),
           NEW f \in Frames, f.n = m + 1
    PROVE  Spread(Append(p, f), b, s, m + 1)
<1> DEFINE q == Append(p, f)
           n == Len(p)
<1>1. /\ Len(q) = n + 1 /\ n \in Nat
      /\ \A i \in 1..(n + 1) : q[i] = IF i = n + 1 THEN f ELSE p[i]
  BY AppendAt
<1> HIDE DEF q
<1>2. ASSUME NEW i \in 1..Len(q) PROVE (i \in 1..n /\ q[i] = p[i]) \/ (i = n + 1 /\ q[i] = f)
  <2>1. i \in 1..(n + 1) /\ (i \in 1..n \/ i = n + 1) /\ (i \in 1..n => i # n + 1)
    BY <1>1
  <2> QED BY <1>1, <2>1
<1>3. \A i \in 1..n : i \in 1..Len(q) /\ q[i] = p[i]
  BY <1>1
<1>4. n + 1 \in 1..Len(q) /\ q[n + 1].n = m + 1
  BY <1>1
<1>5. m + 1 \notin 1..m /\ m + 1 \in 1..(m + 1) /\ \A k \in 1..m : k \in 1..(m + 1)
  OBVIOUS
<1>6. \A i \in 1..n : p[i].n \in 1..m
  BY DEF Spread, Numbered
<1>7. Distinct(q)
  BY <1>2, <1>5, <1>6 DEF Spread, Distinct
<1>8. Numbered(q, m + 1)
  BY <1>2, <1>5, <1>6 DEF Numbered
<1>9. ASSUME NEW v \in Vcpus PROVE Distinct(b[v]) /\ Numbered(b[v], m + 1) /\ Disjoint(q, b[v])
  <2>1. Distinct(b[v]) /\ Numbered(b[v], m) /\ Disjoint(p, b[v])
    BY DEF Spread
  <2>2. Numbered(b[v], m + 1)
    BY <1>5, <2>1 DEF Numbered
  <2>3. Disjoint(q, b[v])
    BY <1>2, <1>5, <2>1 DEF Disjoint, Numbered
  <2> QED BY <2>1, <2>2, <2>3
<1>10. ASSUME NEW j \in 1..Len(s)
       PROVE  s[j] \in 1..(m + 1) /\ ~Has(q, s[j]) /\ \A v \in Vcpus : ~Has(b[v], s[j])
  <2>1. s[j] \in 1..m /\ ~Has(p, s[j]) /\ \A v \in Vcpus : ~Has(b[v], s[j])
    BY DEF Spread
  <2>2. ~Has(q, s[j])
    BY <1>2, <1>5, <2>1 DEF Has
  <2> QED BY <1>5, <2>1, <2>2
<1>11. ASSUME NEW k \in 1..(m + 1)
       PROVE  Has(q, k) \/ (\E v \in Vcpus : Has(b[v], k)) \/ \E j \in 1..Len(s) : s[j] = k
  <2>1. CASE k = m + 1
    BY <1>4, <2>1 DEF Has
  <2>2. CASE k # m + 1
    <3>1. k \in 1..m
      BY <2>2
    <3>2. Has(p, k) => Has(q, k)
      BY <1>3 DEF Has
    <3> QED BY <3>1, <3>2 DEF Spread
  <2> QED BY <2>1, <2>2
<1>12. Spread(q, b, s, m + 1)
  BY <1>7, <1>8, <1>9, <1>10, <1>11 DEF Spread
<1> QED BY <1>12 DEF q

\* A vCPU that has no frames takes the staged ones.
LEMMA SpreadTake ==
    ASSUME NEW p, NEW b, NEW s, NEW m, Spread(p, b, s, m), NEW v \in Vcpus, b[v] = <<>>,
           NEW c, c[v] = p, \A w \in Vcpus : w # v => c[w] = b[w]
    PROVE  Spread(<<>>, c, s, m)
<1>1. Len(<<>>) = 0 /\ \A k \in 1..0 : FALSE
  OBVIOUS
<1>2. /\ Distinct(<<>>) /\ Numbered(<<>>, m) /\ \A f : Disjoint(<<>>, f)
      /\ \A n : ~Has(<<>>, n)
  BY <1>1 DEF Distinct, Numbered, Disjoint, Has
<1>3. ASSUME NEW w \in Vcpus PROVE Distinct(c[w]) /\ Numbered(c[w], m)
  BY DEF Spread
<1>4. ASSUME NEW x \in Vcpus, NEW y \in Vcpus, x # y PROVE Disjoint(c[x], c[y])
  <2>1. \A w \in Vcpus : Disjoint(p, b[w])
    BY DEF Spread
  <2>2. \A w \in Vcpus : Disjoint(b[w], p)
    BY <2>1 DEF Disjoint
  <2>3. Disjoint(b[x], b[y])
    BY <1>4 DEF Spread
  <2> QED BY <1>4, <2>1, <2>2, <2>3
<1>5. ASSUME NEW j \in 1..Len(s)
      PROVE  s[j] \in 1..m /\ ~Has(<<>>, s[j]) /\ \A w \in Vcpus : ~Has(c[w], s[j])
  BY <1>2 DEF Spread
<1>6. ASSUME NEW k \in 1..m
      PROVE  (\E w \in Vcpus : Has(c[w], k)) \/ \E j \in 1..Len(s) : s[j] = k
  <2>1. Has(p, k) \/ (\E w \in Vcpus : Has(b[w], k)) \/ \E j \in 1..Len(s) : s[j] = k
    BY DEF Spread
  <2>2. ASSUME NEW w \in Vcpus, Has(b[w], k) PROVE Has(c[w], k)
    BY <1>2, <2>2
  <2> QED BY <2>1, <2>2
<1> QED BY <1>2, <1>3, <1>4, <1>5, <1>6 DEF Spread

\* A vCPU shows the first of its frames.
LEMMA SpreadShow ==
    ASSUME NEW p, NEW b, NEW s \in Seq(Nat \ {0}), NEW m, Spread(p, b, s, m), NEW v \in Vcpus,
           b[v] \in Seq(Frames), b[v] # <<>>,
           NEW c, c[v] = Tail(b[v]), \A w \in Vcpus : w # v => c[w] = b[w]
    PROVE  Spread(p, c, Append(s, Head(b[v]).n), m)
<1> DEFINE f == b[v]
           g == Tail(f)
           k == Head(f).n
           t == Append(s, k)
           n == Len(s)
<1>1. /\ Len(g) = Len(f) - 1 /\ Len(f) \in Nat \ {0} /\ Head(f) = f[1] /\ Head(f) \in Frames
      /\ \A i \in 1..(Len(f) - 1) : g[i] = f[i + 1]
  BY TailAt
<1>2. k \in Nat \ {0} /\ k = f[1].n /\ 1 \in 1..Len(f)
  BY <1>1 DEF Frames
<1> HIDE DEF f, g, k
<1>3. /\ Len(t) = n + 1 /\ n \in Nat
      /\ \A i \in 1..(n + 1) : t[i] = IF i = n + 1 THEN k ELSE s[i]
  BY <1>2, AppendAt
<1> HIDE DEF t
<1>4. \A i \in 1..Len(g) : i + 1 \in 1..Len(f) /\ g[i] = f[i + 1] /\ i + 1 # 1
  BY <1>1
<1>5. \A i \in 1..Len(f) : i = 1 \/ (i - 1 \in 1..Len(g) /\ g[i - 1] = f[i])
  <2> SUFFICES ASSUME NEW i \in 1..Len(f), i # 1 PROVE i - 1 \in 1..Len(g) /\ g[i - 1] = f[i]
    OBVIOUS
  <2>1. i - 1 \in 1..(Len(f) - 1) /\ (i - 1) + 1 = i
    BY <1>1
  <2> QED BY <1>1, <2>1
<1>6. Distinct(f) /\ Numbered(f, m) /\ Disjoint(p, f)
  BY DEF Spread, f
<1>7. Distinct(g)
  <2> SUFFICES ASSUME NEW i \in 1..Len(g), NEW j \in 1..Len(g), g[i].n = g[j].n PROVE i = j
    BY DEF Distinct
  <2>1. /\ i + 1 \in 1..Len(f) /\ g[i] = f[i + 1]
        /\ j + 1 \in 1..Len(f) /\ g[j] = f[j + 1]
    BY <1>4
  <2>2. f[i + 1].n = f[j + 1].n
    BY <2>1
  <2>3. i + 1 = j + 1
    BY <1>6, <2>1, <2>2 DEF Distinct
  <2> QED BY <1>1, <2>3
<1>8. Numbered(g, m) /\ Disjoint(p, g)
  BY <1>4, <1>6 DEF Numbered, Disjoint
<1>9. \A x : Has(g, x) => Has(f, x)
  BY <1>4 DEF Has
<1>10. \A x : Has(f, x) => x = k \/ Has(g, x)
  BY <1>2, <1>5 DEF Has
<1>11. ~Has(g, k) /\ Has(f, k)
  <2>1. ASSUME NEW i \in 1..Len(g), g[i].n = k PROVE FALSE
    <3>1. i + 1 \in 1..Len(f) /\ g[i] = f[i + 1] /\ i + 1 # 1
      BY <1>4
    <3>2. f[i + 1].n = f[1].n
      BY <1>2, <2>1, <3>1
    <3> QED BY <1>2, <1>6, <3>1, <3>2 DEF Distinct
  <2> QED BY <1>2, <2>1 DEF Has
<1>12. c[v] = g /\ \A w \in Vcpus : w # v => c[w] = b[w]
  BY DEF g, f
<1>13. ASSUME NEW w \in Vcpus PROVE Distinct(c[w]) /\ Numbered(c[w], m) /\ Disjoint(p, c[w])
  BY <1>7, <1>8, <1>12 DEF Spread
<1>14. \A w \in Vcpus : w # v => Disjoint(f, b[w]) /\ Disjoint(b[w], f)
  BY DEF Spread, f
<1>15. ASSUME NEW x \in Vcpus, NEW y \in Vcpus, x # y PROVE Disjoint(c[x], c[y])
  <2>1. ASSUME NEW w \in Vcpus, w # v PROVE Disjoint(g, b[w]) /\ Disjoint(b[w], g)
    <3>1. Disjoint(f, b[w]) /\ Disjoint(b[w], f)
      BY <1>14, <2>1
    <3>2. ASSUME NEW i \in 1..Len(g), NEW j \in 1..Len(b[w]) PROVE g[i].n # b[w][j].n
      <4>1. i + 1 \in 1..Len(f) /\ g[i] = f[i + 1]
        BY <1>4
      <4> QED BY <3>1, <4>1 DEF Disjoint
    <3> QED BY <3>2 DEF Disjoint
  <2>2. Disjoint(b[x], b[y])
    BY <1>15 DEF Spread
  <2> QED BY <1>12, <1>15, <2>1, <2>2
<1>16. ~Has(p, k) /\ \A w \in Vcpus : ~Has(c[w], k)
  <2>1. ~Has(p, k)
    BY <1>2, <1>6 DEF Has, Disjoint
  <2>2. \A w \in Vcpus : w # v => ~Has(b[w], k)
    BY <1>2, <1>14 DEF Has, Disjoint
  <2> QED BY <1>11, <1>12, <2>1, <2>2
<1>17. \A j \in 1..n : s[j] \in 1..m /\ ~Has(p, s[j]) /\ \A w \in Vcpus : ~Has(b[w], s[j])
  BY DEF Spread
<1>18. \A j \in 1..n : s[j] # k /\ \A w \in Vcpus : ~Has(c[w], s[j])
  BY <1>9, <1>11, <1>12, <1>17 DEF f
<1>19. k \in 1..m
  BY <1>2, <1>6 DEF Numbered
<1>20. ASSUME NEW j \in 1..Len(t) PROVE (j \in 1..n /\ t[j] = s[j]) \/ (j = n + 1 /\ t[j] = k)
  <2>1. j \in 1..(n + 1) /\ (j \in 1..n \/ j = n + 1) /\ (j \in 1..n => j # n + 1)
    BY <1>3
  <2> QED BY <1>3, <2>1
<1>21. ASSUME NEW j \in 1..Len(t)
       PROVE  t[j] \in 1..m /\ ~Has(p, t[j]) /\ \A w \in Vcpus : ~Has(c[w], t[j])
  BY <1>16, <1>17, <1>18, <1>19, <1>20
<1>22. ASSUME NEW i \in 1..Len(t), NEW j \in 1..Len(t), t[i] = t[j] PROVE i = j
  <2>1. \A x, y \in 1..n : s[x] = s[y] => x = y
    BY DEF Spread
  <2> QED BY <1>18, <1>20, <1>22, <2>1
<1>23. ASSUME NEW x \in 1..m
       PROVE  Has(p, x) \/ (\E w \in Vcpus : Has(c[w], x)) \/ \E j \in 1..Len(t) : t[j] = x
  <2>1. Has(p, x) \/ (\E w \in Vcpus : Has(b[w], x)) \/ \E j \in 1..n : s[j] = x
    BY DEF Spread
  <2>2. ASSUME NEW w \in Vcpus, Has(b[w], x) PROVE Has(c[w], x) \/ x = k
    BY <1>10, <1>12, <2>2 DEF f
  <2>3. n + 1 \in 1..Len(t) /\ t[n + 1] = k /\ \A j \in 1..n : j \in 1..Len(t) /\ t[j] = s[j]
    BY <1>3
  <2> QED BY <2>1, <2>2, <2>3
<1>24. Spread(p, c, t, m)
  BY <1>6, <1>13, <1>15, <1>21, <1>22, <1>23 DEF Spread
<1> QED BY <1>24 DEF t, k, f

-----------------------------------------------------------------------------
(***************************************************************************)
(* What a command does.                                                    *)
(***************************************************************************)
Resources == [live : BOOLEAN, pix : 0..MaxDraw, backed : BOOLEAN]

\* Changing one field of a resource.
LEMMA FieldSet ==
    ASSUME NEW r \in Resources, NEW p, NEW b
    PROVE  /\ [r EXCEPT !.pix = p] = [live |-> r.live, pix |-> p, backed |-> r.backed]
           /\ [r EXCEPT !.backed = b] = [live |-> r.live, pix |-> r.pix, backed |-> b]
  BY DEF Resources

\* Executing the command c, which the protocol allows when the resources are
\* as x says, makes them as y says, and c is not refused.
LEMMA CommandFits ==
    ASSUME res \in [Ids -> Resources], fb \in [Ids -> 0..MaxDraw], scanout \in Ids \cup {0},
           NEW c \in Commands, NEW x \in [Ids -> Views], NEW y \in [Ids -> Views],
           Fits(res, x), Legal(c, x), Leads(c, x, y, fb), HandleCommand(c)
    PROVE  /\ res' \in [Ids -> Resources] /\ scanout' \in Ids \cup {0}
           /\ Response(c) = "OK" /\ Fits(res', y)
<1> DEFINE i == c.id
           r == res[i]
           q == res'[i]
<1>1. /\ i \in Ids /\ r \in Resources /\ x[i] \in Views /\ y[i] \in Views /\ fb[i] \in 0..MaxDraw
      /\ c.op \in Ops /\ 0 \in 0..MaxDraw /\ Gone \in Resources
  <2>1. i \in Ids /\ c.op \in Ops
    BY DEF Legal, Commands
  <2>2. 0 \in 0..MaxDraw
    BY GpuAssumption
  <2>3. Gone \in Resources
    BY <2>2 DEF Gone, Resources
  <2> HIDE DEF i
  <2> QED BY <2>1, <2>2, <2>3
<1>2. r.live \in BOOLEAN /\ r.pix \in 0..MaxDraw /\ r.backed \in BOOLEAN
  BY <1>1 DEF Resources
<1>3. x[i].at = Stage(r) /\ (r.live => x[i].due <= r.pix)
  BY <1>1 DEF Fits
<1>4. y[i].at = Viewed(c.op, x[i].at) /\ \A j \in Ids : j # i => y[j] = x[j]
  BY DEF Leads
<1>5. /\ c.op = "CREATE" => x[i].at = "none"
      /\ c.op = "ATTACH" => x[i].at = "made"
      /\ c.op \in {"DETACH", "TRANSFER"} => x[i].at = "backed"
      /\ c.op \in {"SCANOUT", "UNREF", "FLUSH"} => x[i].at # "none"
  BY DEF Legal
<1>6. /\ c.op = "TRANSFER" => y[i].due <= fb[i]
      /\ c.op = "CREATE" => y[i].due = 0
      /\ c.op \notin {"TRANSFER", "CREATE"} => y[i].due = x[i].due
  BY DEF Leads
<1>7. r.live <=> x[i].at # "none"
  BY <1>2, <1>3 DEF Stage
<1>8. Response(c) = "OK"
  BY <1>5, <1>7 DEF Response
<1> DEFINE To(a) == res' = [res EXCEPT ![i] = a]
<1>9. ASSUME NEW a \in Resources, To(a), y[i].at = Stage(a), a.live => y[i].due <= a.pix
      PROVE  res' \in [Ids -> Resources] /\ Fits(res', y)
  <2>1. res' \in [Ids -> Resources] /\ res'[i] = a /\ \A j \in Ids : j # i => res'[j] = res[j]
    BY <1>1, <1>9
  <2>2. ASSUME NEW j \in Ids
        PROVE  y[j].at = Stage(res'[j]) /\ (res'[j].live => y[j].due <= res'[j].pix)
    <3>1. CASE j = i
      BY <1>9, <2>1, <3>1
    <3>2. CASE j # i
      BY <1>4, <2>1, <3>2 DEF Fits
    <3> QED BY <3>1, <3>2
  <2> QED BY <2>1, <2>2 DEF Fits
<1>10. res = [res EXCEPT ![i] = r]
  BY <1>1
<1>11. CASE c.op = "CREATE"
  <2> DEFINE a == [live |-> TRUE, pix |-> 0, backed |-> FALSE]
  <2>1. a \in Resources /\ Stage(a) = "made" /\ y[i].at = "made" /\ a.pix = 0 /\ y[i].due <= 0
    BY <1>1, <1>4, <1>6, <1>11 DEF Resources, Stage, Viewed
  <2>2. To(a) /\ scanout' = scanout
    BY <1>11 DEF HandleCommand, Create2d
  <2> HIDE DEF To, a
  <2> QED BY <1>8, <1>9, <2>1, <2>2
<1>12. CASE c.op = "UNREF"
  <2>1. Stage(Gone) = "none" /\ y[i].at = "none" /\ ~Gone.live
    BY <1>4, <1>12 DEF Stage, Viewed, Gone
  <2>2. To(Gone) /\ scanout' \in {scanout, 0}
    BY <1>12 DEF HandleCommand, Unref
  <2> HIDE DEF To
  <2> QED BY <1>1, <1>8, <1>9, <2>1, <2>2
<1>13. CASE c.op \in {"SCANOUT", "FLUSH", "OTHER"}
  <2>1. y[i].at = x[i].at /\ y[i].due = x[i].due
    BY <1>4, <1>6, <1>13 DEF Viewed
  <2>2. res' = res /\ scanout' \in {scanout, i}
    BY <1>13 DEF HandleCommand, SetScanout, Flush, gpuVars
  <2>3. To(r)
    BY <1>10, <2>2
  <2> HIDE DEF To
  <2> QED BY <1>1, <1>3, <1>8, <1>9, <2>1, <2>2, <2>3
<1>14. CASE c.op = "TRANSFER"
  <2> DEFINE a == [live |-> TRUE, pix |-> fb[i], backed |-> TRUE]
  <2>1. r.live /\ r.backed /\ y[i].at = "backed"
    BY <1>2, <1>3, <1>4, <1>5, <1>7, <1>14 DEF Stage, Viewed
  <2>3. a \in Resources /\ Stage(a) = "backed" /\ y[i].due <= a.pix
    BY <1>1, <1>6, <1>14 DEF Resources, Stage
  <2>4. res' = [res EXCEPT ![i].pix = fb[i]] /\ scanout' = scanout
    BY <1>14, <2>1 DEF HandleCommand, TransferToHost, ReadBacking
  <2>5. To(a)
    <3>1. [r EXCEPT !.pix = fb[i]] = a
      <4>1. r.live = TRUE /\ r.backed = TRUE
        BY <1>2, <2>1
      <4> HIDE DEF r
      <4> QED BY <1>1, <4>1, FieldSet
    <3>2. res' = [res EXCEPT ![i] = [r EXCEPT !.pix = fb[i]]]
      BY <1>1, <2>4
    <3> QED BY <3>1, <3>2
  <2> HIDE DEF To, a
  <2> QED BY <1>8, <1>9, <2>1, <2>3, <2>4, <2>5
<1>15. CASE c.op \in {"ATTACH", "DETACH"}
  <2> DEFINE a == [live |-> TRUE, pix |-> r.pix, backed |-> c.op = "ATTACH"]
  <2>1. r.live /\ (y[i].at = IF c.op = "ATTACH" THEN "backed" ELSE "made") /\ y[i].due = x[i].due
    BY <1>4, <1>5, <1>6, <1>7, <1>15 DEF Viewed
  <2>3. a \in Resources /\ Stage(a) = y[i].at /\ a.pix = r.pix
    BY <1>2, <1>15, <2>1 DEF Resources, Stage
  <2>4. res' = [res EXCEPT ![i].backed = (c.op = "ATTACH")] /\ scanout' = scanout
    BY <1>15, <2>1 DEF HandleCommand, AttachBacking, DetachBacking
  <2>5. To(a)
    <3>1. [r EXCEPT !.backed = (c.op = "ATTACH")] = a
      <4>1. r.live = TRUE
        BY <1>2, <2>1
      <4> HIDE DEF r
      <4> QED BY <1>1, <4>1, FieldSet
    <3>2. res' = [res EXCEPT ![i] = [r EXCEPT !.backed = (c.op = "ATTACH")]]
      BY <1>1, <2>4
    <3> QED BY <3>1, <3>2
  <2> HIDE DEF To, a
  <2> QED BY <1>3, <1>8, <1>9, <2>1, <2>3, <2>4, <2>5
<1> QED BY <1>1, <1>11, <1>12, <1>13, <1>14, <1>15 DEF Ops

\* A command stages at most one frame, with what the driver may expect.
LEMMA CommandStages ==
    ASSUME res \in [Ids -> Resources], NEW c \in Commands, NEW x \in [Ids -> Views],
           Fits(res, x), Legal(c, x), HandleCommand(c)
    PROVE  \/ UNCHANGED <<pending, staged>>
           \/ \E px \in 0..MaxDraw :
                 /\ px >= c.due /\ staged' = staged + 1
                 /\ pending' = Append(pending, [n |-> staged + 1, pix |-> px, due |-> c.due])
<1> DEFINE i == c.id
<1>1. CASE c.op # "FLUSH"
  BY <1>1 DEF HandleCommand, Create2d, Unref, SetScanout, TransferToHost, AttachBacking,
              DetachBacking, gpuVars
<1>2. CASE c.op = "FLUSH"
  <2>1. i \in Ids /\ x[i].at # "none" /\ c.due = x[i].due
    BY <1>2 DEF Legal
  <2>2. res[i].live \in BOOLEAN /\ res[i].pix \in 0..MaxDraw
    BY <2>1 DEF Resources
  <2>3. x[i].due \in 0..MaxDraw
    BY <2>1 DEF Views
  <2>4. res[i].live /\ x[i].due <= res[i].pix
    BY <2>1, <2>2 DEF Fits, Stage
  <2>5. Flush(i, c.due)
    BY <1>2 DEF HandleCommand
  <2>6. res[i].pix >= c.due
    BY <2>1, <2>2, <2>3, <2>4, GpuAssumption
  <2> QED BY <2>2, <2>5, <2>6 DEF Flush
<1> QED BY <1>1, <1>2

-----------------------------------------------------------------------------
(***************************************************************************)
(* Facts of one state.                                                     *)
(***************************************************************************)
Labels == {"run", "kick", "scan", "show"}

\* While the queue is ready, every chain is in one place, and the driver's view
\* and the device's resources are in step.
LEMMA ReadyFacts ==
    ASSUME IndInv, ready
    PROVE  /\ Accounted(last, ring, lastUsed, owned)
           /\ Unserveds \in Seq(Heads) /\ Answereds \in Seq(Heads)
           /\ \A i \in 1..Len(Unserveds) : Unserveds[i] \in Heads /\ Unserveds[i] \notin owned
           /\ \A i \in 1..Len(Unserveds), j \in 1..Len(Answereds) : Unserveds[i] # Answereds[j]
           /\ ToDo \in Seq(Commands) /\ Sync(ToDo, res, fb, DriverView)
<1>1. Accounted(last, ring, lastUsed, owned) /\ Sync(ToDo, res, fb, DriverView)
  BY DEF IndInv, ReadyInv, SyncInv
<1>2. Unserveds \in Seq(Heads) /\ Answereds \in Seq(Heads) /\ Apart(Unserveds, Answereds, owned)
  BY <1>1 DEF Accounted, Partition, Unserveds, Answereds
<1>3. /\ Len(Unserveds) \in Nat
      /\ \A i \in 1..Len(Unserveds) : Unserveds[i] \in Heads
  BY <1>2
<1>4. chain \in [Heads -> Commands]
  BY DEF IndInv, TypeOK
<1>5. ToDo \in Seq(Commands)
  <2>1. DOMAIN Unserveds = 1..Len(Unserveds)
    BY <1>2
  <2>2. Carry(Unserveds, chain) \in [1..Len(Unserveds) -> Commands]
    BY <1>3, <1>4, <2>1 DEF Carry
  <2> QED BY <1>3, <2>2, IsASeq DEF ToDo
<1> QED BY <1>1, <1>2, <1>3, <1>5 DEF Apart

\* The holder of mtx_ is in the loop, alone, and has no frames of its own yet.
LEMMA HolderFacts ==
    ASSUME IndInv, NEW v \in Vcpus, pc[v] = "scan"
    PROVE  mtx = v /\ mtx # "free" /\ ready /\ batch[v] = <<>> /\ \A w \in Vcpus : w # v => pc[w] # "scan"
<1>1. mtx = v /\ v # "free"
  BY GpuAssumption DEF IndInv, LockInv
<1> QED BY <1>1 DEF IndInv, LockInv

\* Nobody is in the loop when mtx_ is free.
LEMMA FreeFacts ==
    ASSUME IndInv, mtx = "free"
    PROVE  pending = <<>> /\ \A v \in Vcpus : pc[v] # "scan"
  BY GpuAssumption DEF IndInv, LockInv

\* Moving a vCPU.
LEMMA GotoFacts ==
    ASSUME IndInv, NEW v \in Vcpus, NEW l \in Labels, Goto(v, l)
    PROVE  pc' \in [Vcpus -> Labels] /\ pc'[v] = l /\ \A w \in Vcpus : w # v => pc'[w] = pc[w]
<1>1. pc \in [Vcpus -> Labels] /\ pc' = [pc EXCEPT ![v] = l]
  BY DEF IndInv, TypeOK, Goto, Labels
<1> QED BY <1>1

\* The driver has a first free chain.
LEMMA FreeHeadFacts == ASSUME IndInv, owned # {} PROVE FreeHead \in owned /\ FreeHead \in Heads
<1>1. owned \in SUBSET Heads /\ Heads \subseteq Nat
  BY IndexFacts DEF IndInv, TypeOK, Heads
<1>2. \E h \in owned : \A g \in owned : h <= g
  BY <1>1, FirstFree
<1> QED BY <1>1, <1>2 DEF FreeHead

-----------------------------------------------------------------------------
(***************************************************************************)
(* Each step keeps the invariant.                                          *)
(***************************************************************************)
\* The driver's view of a device that was just reset.
LEMMA NewView ==
    ASSUME NEW z, z = [i \in Ids |-> [at |-> "none", due |-> 0]], NEW r, r = [i \in Ids |-> Gone]
    PROVE  z \in [Ids -> Views] /\ Fits(r, z)
<1>1. 0 \in 0..MaxDraw
  BY GpuAssumption
<1>2. z \in [Ids -> Views]
  BY <1>1 DEF Views
<1>3. Fits(r, z)
  BY DEF Fits, Gone, Stage
<1> QED BY <1>2, <1>3

\* Initially.
LEMMA InitInd == Init => IndInv
<1> SUFFICES ASSUME Init PROVE IndInv
  OBVIOUS
<1>1. NewRing \in Rings /\ 0 \in Indices /\ 0 \in 0..MaxDraw /\ 0 \in 0..MaxFlush
      /\ 0 \in 0..MaxCmd /\ 0 \in 0..MaxReset
  BY NewRingFacts, GpuAssumption
<1>2. Idle \in Commands /\ Gone \in Resources
  BY <1>1 DEF Idle, Commands, Ops, Gone, Resources
<1>3. TypeOK
  <2>1. \A S : <<>> \in Seq(S)
    OBVIOUS
  <2>2. batch \in [Vcpus -> Seq(Frames)] /\ pending \in Seq(Frames) /\ shown \in Seq(Nat \ {0})
    BY <2>1 DEF Init
  <2>3. res \in [Ids -> Resources] /\ chain \in [Heads -> Commands] /\ ring \in Rings
    BY <1>1, <1>2 DEF Init
  <2>4. /\ fb \in [Ids -> 0..MaxDraw] /\ due \in [Ids -> 0..MaxDraw]
        /\ view \in [Ids -> {"none", "made", "backed"}] /\ pc \in [Vcpus -> Labels]
    BY <1>1 DEF Init, Labels
  <2> QED BY <1>1, <2>2, <2>3, <2>4 DEF Init, TypeOK, Resources, Labels
<1>4. LockInv
  BY GpuAssumption DEF Init, LockInv
<1>5. ReadyInv /\ SignalInv
  BY DEF Init, ReadyInv, SignalInv
<1>6. FrameInv
  <2>1. Len(<<>>) = 0 /\ \A k \in 1..0 : FALSE
    OBVIOUS
  <2>2. \A v \in Vcpus : batch[v] = <<>>
    BY DEF Init
  <2>3. NoneOld(<<>>)
    BY <2>1 DEF NoneOld
  <2> QED BY <2>2, <2>3, SpreadNew DEF Init, FrameInv
<1>7. SyncInv
  BY DEF Init, SyncInv
<1> QED BY <1>3, <1>4, <1>5, <1>6, <1>7 DEF IndInv

\* Setting the device up: the driver starts from no resources, as the device does.
LEMMA SetupInd == ASSUME IndInv, Setup PROVE IndInv'
<1>1. NewRing \in Rings /\ 0 \in Indices /\ Unserved(0, NewRing) = <<>> /\ 0 \in 0..MaxDraw
  BY NewRingFacts, GpuAssumption
<1>2. Idle \in Commands
  BY <1>1 DEF Idle, Commands, Ops
<1>3. last = 0 /\ res = [i \in Ids |-> Gone]
  BY DEF Setup, IndInv, ReadyInv
<1>4. TypeOK'
  BY <1>1, <1>2 DEF Setup, IndInv, TypeOK, gpuVars, countVars
<1>5. LockInv'
  BY DEF Setup, IndInv, LockInv, gpuVars
<1>6. ReadyInv'
  BY <1>3, AccountedNew DEF Setup, ReadyInv
<1>7. SignalInv'
  BY DEF Setup, SignalInv, NewRing
<1>8. FrameInv'
  BY DEF Setup, IndInv, FrameInv, gpuVars
<1>9. SyncInv'
  <2>1. ToDo' = <<>>
    <3>1. Unserveds' = <<>>
      BY <1>1, <1>3 DEF Setup, Unserveds
    <3>2. <<>> \in Seq(Heads)
      OBVIOUS
    <3> QED BY <3>1, <3>2, CarryFacts DEF ToDo
  <2>2. DriverView' = [i \in Ids |-> [at |-> "none", due |-> 0]]
    BY DEF Setup, DriverView
  <2>3. Sync(<<>>, res', fb', DriverView')
    <3>1. res' = [i \in Ids |-> Gone]
      BY <1>3 DEF Setup, gpuVars
    <3> QED BY <2>2, <3>1, NewView, SyncNew
  <2>4. UNCHANGED <<refused, fb, draws>>
    BY DEF Setup, countVars
  <2> QED BY <2>1, <2>3, <2>4 DEF IndInv, SyncInv
<1> QED BY <1>4, <1>5, <1>6, <1>7, <1>8, <1>9 DEF IndInv

\* Drawing: the buffers only get newer.
LEMMA DrawInd == ASSUME IndInv, NEW i \in Ids, Draw(i) PROVE IndInv'
<1>1. /\ draws < MaxDraw /\ draws' = draws + 1 /\ fb' = [fb EXCEPT ![i] = draws + 1]
      /\ UNCHANGED <<mtx, pc, batch, last, ready, irqStatus, spi, res, scanout, pending, staged, shown,
                     ring, chain, refused, owned, lastUsed, irqpc, view, due, flushes, cmds, resets>>
  BY DEF Draw, devVars, gpuVars
<1>2. fb \in [Ids -> 0..MaxDraw] /\ draws \in 0..MaxDraw /\ MaxDraw \in Nat
  BY GpuAssumption DEF IndInv, TypeOK
<1>3. draws' \in 0..MaxDraw
  BY <1>1, <1>2
<1>4. fb' \in [Ids -> 0..MaxDraw] /\ fb'[i] = draws + 1 /\ \A j \in Ids : j # i => fb'[j] = fb[j]
  BY <1>1, <1>2, <1>3
<1>5. TypeOK'
  BY <1>1, <1>3, <1>4 DEF IndInv, TypeOK
<1>6. LockInv'
  BY <1>1 DEF IndInv, LockInv
<1>7. ReadyInv'
  BY <1>1 DEF IndInv, ReadyInv
<1>8. SignalInv'
  BY <1>1 DEF IndInv, SignalInv
<1>9. FrameInv'
  BY <1>1 DEF IndInv, FrameInv
<1>10. SyncInv'
  <2>1. \A j \in Ids : fb[j] <= draws /\ fb[j] \in Nat
    BY <1>2 DEF IndInv, SyncInv
  <2>2. \A j \in Ids : fb'[j] <= draws' /\ fb[j] <= fb'[j]
    BY <1>1, <1>2, <1>4, <2>1
  <2>3. ToDo' = ToDo /\ DriverView' = DriverView
    BY <1>1 DEF ToDo, Unserveds, DriverView
  <2>4. ASSUME ready PROVE Sync(ToDo, res, fb', DriverView)
    <3>1. fb \in [Ids -> Nat] /\ fb' \in [Ids -> Nat]
      BY <1>2, <1>4
    <3> QED BY <2>2, <2>4, <3>1, ReadyFacts, SyncDraw
  <2> QED BY <1>1, <2>2, <2>3, <2>4 DEF IndInv, SyncInv
<1> QED BY <1>5, <1>6, <1>7, <1>8, <1>9, <1>10 DEF IndInv

\* The rings when the driver posts one of its chains.
LEMMA Posted ==
    ASSUME NEW l, NEW r, NEW u, NEW o, Accounted(l, r, u, o), NEW g \in o
    PROVE  /\ Accounted(l, Offer(r, g), u, o \ {g})
           /\ Unserved(l, Offer(r, g)) = Append(Unserved(l, r), g)
           /\ Offer(r, g).usedIdx = r.usedIdx
<1>1. Accounted(l, Offer(r, g), u, o \ {g}) /\ Unserved(l, Offer(r, g)) = Append(Unserved(l, r), g)
  BY AccountedOffer
<1>2. Offer(r, g).usedIdx = r.usedIdx
  BY DEF Offer, Accounted, Rings
<1> QED BY <1>1, <1>2

\* Posting a command: the chain is the driver's own, and the command goes to
\* the end of those the device has not executed.
LEMMA PostInd ==
    ASSUME IndInv, NEW v \in Vcpus, NEW op \in Ops, NEW i \in Ids, Post(v, op, i)
    PROVE  IndInv'
<1> DEFINE h == FreeHead
           c == [op |-> op, id |-> i, due |-> IF op = "FLUSH" THEN due[i] ELSE 0]
<1>1. /\ ready /\ pc[v] = "run" /\ owned # {} /\ cmds < MaxCmd /\ Allowed(op, i)
      /\ cmds' = cmds + 1 /\ view' = [view EXCEPT ![i] = Viewed(op, @)]
      /\ due' = [due EXCEPT ![i] = CASE op = "TRANSFER" -> fb[i] [] op = "CREATE" -> 0 [] OTHER -> @]
      /\ (flushes' = IF op = "FLUSH" THEN flushes + 1 ELSE flushes)
      /\ chain' = [chain EXCEPT ![h] = c]
      /\ ring' = Offer(ring, h) /\ owned' = owned \ {h} /\ Goto(v, "kick")
      /\ UNCHANGED <<mtx, batch, last, ready, irqStatus, spi, res, scanout, pending, staged, shown,
                     refused, fb, lastUsed, irqpc, draws, resets>>
  BY DEF Post, devVars, gpuVars
<1>2. h \in owned /\ h \in Heads
  BY <1>1, FreeHeadFacts
<1>3. c \in Commands /\ c.op = op /\ c.id = i /\ (c.due = IF op = "FLUSH" THEN due[i] ELSE 0)
  <2>1. due[i] \in 0..MaxDraw /\ 0 \in 0..MaxDraw
    BY GpuAssumption DEF IndInv, TypeOK
  <2> QED BY <2>1 DEF Commands
<1> HIDE DEF h, c
<1>4. pc' \in [Vcpus -> Labels] /\ pc'[v] = "kick" /\ \A w \in Vcpus : w # v => pc'[w] = pc[w]
  BY <1>1, GotoFacts DEF Labels
<1>5. /\ Accounted(last, Offer(ring, h), lastUsed, owned \ {h})
      /\ Unserved(last, Offer(ring, h)) = Append(Unserveds, h)
      /\ Offer(ring, h).usedIdx = ring.usedIdx
  <2>1. Accounted(last, ring, lastUsed, owned)
    BY <1>1, ReadyFacts
  <2> DEFINE l == last
             r == ring
             u == lastUsed
             o == owned
  <2>2. Accounted(l, r, u, o) /\ h \in o
    BY <1>2, <2>1
  <2> HIDE DEF l, r, u, o
  <2>3. /\ Accounted(l, Offer(r, h), u, o \ {h})
        /\ Unserved(l, Offer(r, h)) = Append(Unserved(l, r), h)
        /\ Offer(r, h).usedIdx = r.usedIdx
    BY <2>2, Posted
  <2> QED BY <2>3 DEF Unserveds, l, r, u, o
<1>6. Unserveds' = Append(Unserveds, h) /\ ring'.usedIdx = ring.usedIdx
  BY <1>1, <1>5 DEF Unserveds
<1>7. /\ chain' \in [Heads -> Commands] /\ chain'[h] = c
      /\ \A g \in Heads : g # h => chain'[g] = chain[g]
  BY <1>1, <1>2, <1>3 DEF IndInv, TypeOK
<1>8. /\ view'[i] = Viewed(op, view[i]) /\ \A j \in Ids : j # i => view'[j] = view[j]
      /\ view' \in [Ids -> {"none", "made", "backed"}]
  <2>1. view \in [Ids -> {"none", "made", "backed"}]
    BY DEF IndInv, TypeOK
  <2>2. Viewed(op, view[i]) \in {"none", "made", "backed"}
    BY <2>1 DEF Viewed
  <2> HIDE DEF Viewed
  <2> QED BY <1>1, <2>1, <2>2
<1>9. /\ op = "TRANSFER" => due'[i] = fb[i]
      /\ op = "CREATE" => due'[i] = 0
      /\ op \notin {"TRANSFER", "CREATE"} => due'[i] = due[i]
      /\ \A j \in Ids : j # i => due'[j] = due[j]
      /\ due' \in [Ids -> 0..MaxDraw]
  <2> DEFINE d == CASE op = "TRANSFER" -> fb[i] [] op = "CREATE" -> 0 [] OTHER -> due[i]
  <2>1. due \in [Ids -> 0..MaxDraw] /\ fb[i] \in 0..MaxDraw /\ 0 \in 0..MaxDraw
    BY GpuAssumption DEF IndInv, TypeOK
  <2>2. /\ op = "TRANSFER" => d = fb[i]
        /\ op = "CREATE" => d = 0
        /\ op \notin {"TRANSFER", "CREATE"} => d = due[i]
    OBVIOUS
  <2>3. d \in 0..MaxDraw
    BY <2>1, <2>2
  <2>4. due' = [due EXCEPT ![i] = d]
    BY <1>1
  <2> HIDE DEF d
  <2> QED BY <2>1, <2>2, <2>3, <2>4
<1>10. TypeOK'
  <2>1. ring' \in Rings /\ owned' \in SUBSET Heads
    BY <1>1, <1>5 DEF Accounted, IndInv, TypeOK
  <2>2. cmds' \in 0..MaxCmd /\ flushes' \in 0..MaxFlush
    <3>1. op = "FLUSH" => flushes < MaxFlush
      BY <1>1 DEF Allowed
    <3>2. cmds \in 0..MaxCmd /\ flushes \in 0..MaxFlush /\ MaxCmd \in Nat /\ MaxFlush \in Nat
      BY GpuAssumption DEF IndInv, TypeOK
    <3> QED BY <1>1, <3>1, <3>2
  <2> QED BY <1>1, <1>4, <1>7, <1>8, <1>9, <2>1, <2>2 DEF IndInv, TypeOK, Labels
<1>11. LockInv'
  BY <1>1, <1>4 DEF IndInv, LockInv
<1>12. ReadyInv'
  BY <1>1, <1>5 DEF IndInv, ReadyInv
<1>13. SignalInv'
  BY <1>1, <1>6 DEF IndInv, SignalInv
<1>14. FrameInv'
  BY <1>1 DEF IndInv, FrameInv
<1>15. ToDo' = Append(ToDo, c)
  <2>1. Unserveds \in Seq(Heads) /\ \A k \in 1..Len(Unserveds) : chain[Unserveds[k]] = chain'[Unserveds[k]]
    BY <1>1, <1>2, <1>7, ReadyFacts
  <2>2. Carry(Unserveds, chain) = Carry(Unserveds, chain')
    BY <2>1, CarrySame
  <2>3. Carry(Append(Unserveds, h), chain') = Append(Carry(Unserveds, chain'), chain'[h])
    BY <1>2, <2>1, CarryAppend
  <2> QED BY <1>6, <1>7, <2>2, <2>3 DEF ToDo
<1>16. Legal(c, DriverView) /\ Leads(c, DriverView, DriverView', fb)
  <2>1. \A j \in Ids : DriverView[j].at = view[j] /\ DriverView[j].due = due[j]
    BY DEF DriverView
  <2>2. \A j \in Ids : DriverView'[j].at = view'[j] /\ DriverView'[j].due = due'[j]
    BY DEF DriverView
  <2>3. \A j \in Ids : j # i => DriverView'[j] = DriverView[j]
    BY <1>8, <1>9 DEF DriverView
  <2>4. Legal(c, DriverView)
    BY <1>1, <1>3, <2>1 DEF Legal, Allowed
  <2>5. fb[i] <= fb[i]
    BY GpuAssumption DEF IndInv, TypeOK
  <2>6. /\ op = "TRANSFER" => DriverView'[i].due <= fb[i]
        /\ op = "CREATE" => DriverView'[i].due = 0
        /\ op \notin {"TRANSFER", "CREATE"} => DriverView'[i].due = DriverView[i].due
    BY <1>9, <2>1, <2>2, <2>5
  <2>7. DriverView'[i].at = Viewed(op, DriverView[i].at)
    BY <1>8, <2>1, <2>2
  <2>8. Leads(c, DriverView, DriverView', fb)
    BY <1>3, <2>3, <2>6, <2>7 DEF Leads
  <2> QED BY <2>4, <2>8
<1>17. SyncInv'
  <2>1. DriverView' \in [Ids -> Views]
    BY <1>8, <1>9 DEF DriverView, Views
  <2>2. Sync(Append(ToDo, c), res, fb, DriverView')
    BY <1>1, <1>3, <1>16, <2>1, ReadyFacts, SyncPost
  <2> QED BY <1>1, <1>15, <2>2 DEF IndInv, SyncInv
<1> QED BY <1>10, <1>11, <1>12, <1>13, <1>14, <1>17 DEF IndInv

\* The handler's steps that touch neither the rings nor the chains.
LEMMA HandlerInd ==
    ASSUME IndInv, IrqTake \/ CollectEnd \/ ReadIrqStatus \/ WriteIrqAck PROVE IndInv'
<1>1. /\ UNCHANGED <<mtx, pc, batch, last, ready, res, scanout, pending, staged, shown, ring, chain,
                     refused, fb, owned, lastUsed, view, due, draws, flushes, cmds, resets>>
      /\ irqpc' \in {"idle", "read", "ack", "collect"} /\ irqStatus' \in {0, 1} /\ spi' \in BOOLEAN
  BY DEF IrqTake, CollectEnd, ReadIrqStatus, WriteIrqAck, devVars, gpuVars, countVars, IndInv, TypeOK
<1>2. TypeOK'
  BY <1>1 DEF IndInv, TypeOK
<1>3. LockInv'
  BY <1>1 DEF IndInv, LockInv
<1>4. ReadyInv'
  BY <1>1 DEF IrqTake, CollectEnd, ReadIrqStatus, WriteIrqAck, devVars, IndInv, ReadyInv
<1>5. SignalInv'
  <2>1. CASE IrqTake
    BY <2>1 DEF IrqTake, IndInv, SignalInv
  <2>2. CASE CollectEnd
    BY <2>2 DEF CollectEnd, SignalInv, devVars
  <2>3. CASE ReadIrqStatus
    BY <2>3 DEF ReadIrqStatus, IndInv, SignalInv, devVars
  <2>4. CASE WriteIrqAck
    BY <2>4 DEF WriteIrqAck, SignalInv
  <2> QED BY <2>1, <2>2, <2>3, <2>4
<1>6. FrameInv'
  BY <1>1 DEF IndInv, FrameInv
<1>7. ToDo' = ToDo /\ DriverView' = DriverView
  BY <1>1 DEF ToDo, Unserveds, DriverView
<1>8. SyncInv'
  BY <1>1, <1>7 DEF IndInv, SyncInv
<1> QED BY <1>2, <1>3, <1>4, <1>5, <1>6, <1>8 DEF IndInv

\* Collecting a response: its chain is not one that waits to be executed.
LEMMA CollectInd == ASSUME IndInv, Collect PROVE IndInv'
<1> DEFINE h == ring.used[lastUsed % QSize]
<1>1. /\ irqpc = "collect" /\ lastUsed # ring.usedIdx
      /\ owned' = owned \cup {h} /\ chain' = [chain EXCEPT ![h] = Idle] /\ lastUsed' = Bump(lastUsed)
      /\ UNCHANGED <<mtx, pc, batch, last, ready, irqStatus, spi, res, scanout, pending, staged, shown,
                     ring, refused, fb, irqpc, view, due, draws, flushes, cmds, resets>>
  BY DEF Collect, devVars, gpuVars, countVars
<1>2. ready
  BY <1>1 DEF IndInv, ReadyInv
<1>3. /\ h \in Heads /\ Answereds # <<>> /\ h = Head(Answereds)
      /\ Accounted(last, ring, Bump(lastUsed), owned \cup {h})
  BY <1>1, <1>2, ReadyFacts, AccountedCollect DEF Answereds
<1> HIDE DEF h
<1>4. 1 \in 1..Len(Answereds) /\ h = Answereds[1]
  BY <1>2, <1>3, ReadyFacts
<1>5. \A i \in 1..Len(Unserveds) : Unserveds[i] \in Heads /\ Unserveds[i] # h
  BY <1>2, <1>4, ReadyFacts
<1>6. Idle \in Commands
  BY GpuAssumption DEF Idle, Commands, Ops
<1>7. chain' \in [Heads -> Commands] /\ \A g \in Heads : g # h => chain'[g] = chain[g]
  BY <1>1, <1>6 DEF IndInv, TypeOK
<1>8. TypeOK'
  <2>1. owned' \in SUBSET Heads /\ lastUsed' \in Indices
    BY <1>1, <1>3 DEF Accounted, IndInv, TypeOK
  <2> QED BY <1>1, <1>7, <2>1 DEF IndInv, TypeOK
<1>9. LockInv'
  BY <1>1 DEF IndInv, LockInv
<1>10. ReadyInv'
  BY <1>1, <1>2, <1>3 DEF IndInv, ReadyInv
<1>11. SignalInv'
  BY <1>1 DEF SignalInv
<1>12. FrameInv'
  BY <1>1 DEF IndInv, FrameInv
<1>13. ToDo' = ToDo
  <2>1. Unserveds' = Unserveds
    BY <1>1 DEF Unserveds
  <2>2. Unserveds \in Seq(Heads) /\ \A k \in 1..Len(Unserveds) : chain'[Unserveds[k]] = chain[Unserveds[k]]
    BY <1>2, <1>5, <1>7, ReadyFacts
  <2> QED BY <2>1, <2>2, CarrySame DEF ToDo
<1>14. SyncInv'
  BY <1>1, <1>13 DEF IndInv, SyncInv, DriverView
<1> QED BY <1>8, <1>9, <1>10, <1>11, <1>12, <1>14 DEF IndInv

\* A reset finds nobody in the loop and no staged frame.
LEMMA ResetInd == ASSUME IndInv, Reset PROVE IndInv'
<1>1. /\ mtx = "free" /\ irqpc = "idle" /\ ready /\ resets < MaxReset /\ resets' = resets + 1
      /\ last' = 0 /\ ready' = FALSE /\ irqStatus' = 0
      /\ res' = [i \in Ids |-> Gone] /\ scanout' = 0 /\ pending' = <<>>
      /\ UNCHANGED <<mtx, pc, batch, spi, staged, shown, ring, chain, refused, fb, owned, lastUsed,
                     irqpc, view, due, draws, flushes, cmds>>
  BY DEF Reset, guestVars
<1>2. pending' = pending
  BY <1>1, FreeFacts
<1>3. TypeOK'
  <2>1. 0 \in Indices
    BY IndexFacts
  <2>2. res' \in [Ids -> Resources]
    BY <1>1, GpuAssumption DEF Gone, Resources
  <2>3. resets' \in 0..MaxReset
    BY <1>1, GpuAssumption DEF IndInv, TypeOK
  <2> QED BY <1>1, <1>2, <2>1, <2>2, <2>3 DEF IndInv, TypeOK, Resources
<1>4. LockInv'
  BY <1>1 DEF IndInv, LockInv
<1>5. ReadyInv' /\ SignalInv'
  BY <1>1 DEF ReadyInv, SignalInv
<1>6. FrameInv'
  BY <1>1, <1>2 DEF IndInv, FrameInv
<1>7. SyncInv'
  BY <1>1 DEF IndInv, SyncInv
<1> QED BY <1>3, <1>4, <1>5, <1>6, <1>7 DEF IndInv

\* Taking mtx_, or finding that the queue is not ready any more.
LEMMA NotifyInd == ASSUME IndInv, NEW v \in Vcpus, Notify(v) PROVE IndInv'
<1>1. /\ pc[v] = "kick" /\ mtx = "free"
      /\ UNCHANGED <<batch, last, ready, irqStatus, spi, res, scanout, pending, staged, shown, ring,
                     chain, refused, fb, owned, lastUsed, irqpc, view, due, draws, flushes, cmds, resets>>
  BY DEF Notify, devVars, gpuVars, guestVars, countVars
<1>2. (ready /\ mtx' = v /\ Goto(v, "scan")) \/ (mtx' = mtx /\ Goto(v, "run"))
  BY DEF Notify
<1>3. PICK l \in {"scan", "run"} : Goto(v, l) /\ (l = "scan" => ready /\ mtx' = v) /\ (l = "run" => mtx' = mtx)
  BY <1>2
<1>4. pc' \in [Vcpus -> Labels] /\ pc'[v] = l /\ \A w \in Vcpus : w # v => pc'[w] = pc[w]
  BY <1>3, GotoFacts DEF Labels
<1>5. pending = <<>> /\ (\A w \in Vcpus : pc[w] # "scan") /\ v # "free"
  BY <1>1, FreeFacts, GpuAssumption
<1>6. TypeOK'
  BY <1>1, <1>3, <1>4 DEF IndInv, TypeOK, Labels
<1>7. LockInv'
  <2>1. ASSUME NEW w \in Vcpus PROVE pc'[w] = "scan" <=> mtx' = w
    BY <1>1, <1>3, <1>4, <1>5, GpuAssumption
  <2>2. ASSUME NEW w \in Vcpus PROVE pc'[w] = "show" <=> batch'[w] # <<>>
    BY <1>1, <1>3, <1>4 DEF IndInv, LockInv
  <2> QED BY <1>1, <1>3, <1>5, <2>1, <2>2 DEF LockInv
<1>8. ReadyInv'
  BY <1>1 DEF IndInv, ReadyInv
<1>9. SignalInv'
  BY <1>1, <1>3, <1>5 DEF IndInv, SignalInv
<1>10. FrameInv'
  BY <1>1 DEF IndInv, FrameInv
<1>11. SyncInv'
  BY <1>1 DEF IndInv, SyncInv, ToDo, Unserveds, DriverView
<1> QED BY <1>6, <1>7, <1>8, <1>9, <1>10, <1>11 DEF IndInv

\* Executing the oldest command.
LEMMA ExecuteInd == ASSUME IndInv, NEW v \in Vcpus, ExecuteCommand(v) PROVE IndInv'
<1> DEFINE h == NextHead(last, ring)
           c == chain[h]
<1>1. /\ pc[v] = "scan" /\ last # ring.availIdx /\ HandleCommand(c)
      /\ refused' = (refused \/ Response(c) # "OK")
      /\ ring' = PushUsed(ring, h) /\ last' = Bump(last)
      /\ UNCHANGED <<mtx, pc, batch, ready, irqStatus, spi, shown, chain, fb, owned, lastUsed,
                     irqpc, view, due, draws, flushes, cmds, resets>>
  BY DEF ExecuteCommand, countVars
<1>2. ready /\ mtx # "free"
  BY <1>1, HolderFacts
<1>3. /\ Accounted(last, ring, lastUsed, owned) /\ Unserveds \in Seq(Heads)
      /\ ToDo \in Seq(Commands) /\ Sync(ToDo, res, fb, DriverView)
  BY <1>2, ReadyFacts
<1>4. /\ h \in Heads /\ Unserveds # <<>> /\ h = Head(Unserveds)
      /\ Accounted(Bump(last), PushUsed(ring, h), lastUsed, owned)
      /\ Unserved(Bump(last), PushUsed(ring, h)) = Tail(Unserveds)
  BY <1>1, <1>3, AccountedServe DEF Unserveds
<1> HIDE DEF h
<1>5. c \in Commands
  BY <1>4 DEF IndInv, TypeOK
<1>6. ToDo # <<>> /\ Head(ToDo) = c /\ Carry(Tail(Unserveds), chain) = Tail(ToDo)
  BY <1>3, <1>4, CarryTail DEF ToDo
<1>7. ToDo' = Tail(ToDo)
  BY <1>1, <1>4, <1>6 DEF ToDo, Unserveds
<1> HIDE DEF c
<1>8. PICK x \in [Ids -> Views], y \in [Ids -> Views] :
         /\ Fits(res, x) /\ Legal(Head(ToDo), x) /\ Leads(Head(ToDo), x, y, fb)
         /\ \A q : Fits(q, y) => Sync(Tail(ToDo), q, fb, DriverView)
  BY <1>3, <1>6, SyncServe
<1>9. Legal(c, x) /\ Leads(c, x, y, fb)
  BY <1>6, <1>8
<1>10. /\ res \in [Ids -> Resources] /\ fb \in [Ids -> 0..MaxDraw] /\ scanout \in Ids \cup {0}
       /\ pending \in Seq(Frames) /\ staged \in Nat
  BY DEF IndInv, TypeOK, Resources
<1>11. /\ res' \in [Ids -> Resources] /\ scanout' \in Ids \cup {0}
       /\ Response(c) = "OK" /\ Fits(res', y)
  BY <1>1, <1>5, <1>8, <1>9, <1>10, CommandFits
<1>12. \/ UNCHANGED <<pending, staged>>
       \/ \E px \in 0..MaxDraw :
             /\ px >= c.due /\ staged' = staged + 1
             /\ pending' = Append(pending, [n |-> staged + 1, pix |-> px, due |-> c.due])
  BY <1>1, <1>5, <1>8, <1>9, <1>10, CommandStages
<1>13. /\ pending' \in Seq(Frames) /\ staged' \in Nat /\ NoneOld(pending')
       /\ Spread(pending', batch, shown, staged')
  <2>1. Spread(pending, batch, shown, staged) /\ NoneOld(pending)
    BY DEF IndInv, FrameInv
  <2>2. CASE UNCHANGED <<pending, staged>>
    BY <1>10, <2>1, <2>2
  <2>3. CASE ~UNCHANGED <<pending, staged>>
    <3>1. PICK px \in 0..MaxDraw :
             /\ px >= c.due /\ staged' = staged + 1
             /\ pending' = Append(pending, [n |-> staged + 1, pix |-> px, due |-> c.due])
      BY <1>12, <2>3
    <3> DEFINE f == [n |-> staged + 1, pix |-> px, due |-> c.due]
    <3>2. f \in Frames /\ f.n = staged + 1 /\ f.pix >= f.due
      <4>1. c.due \in 0..MaxDraw
        BY <1>5 DEF Commands
      <4>2. staged + 1 \in Nat \ {0}
        BY <1>10
      <4> QED BY <3>1, <4>1, <4>2 DEF Frames
    <3>3. pending' = Append(pending, f) /\ staged' = staged + 1
      BY <3>1
    <3> HIDE DEF f
    <3>4. Spread(pending', batch, shown, staged')
      BY <1>10, <2>1, <3>2, <3>3, SpreadFlush
    <3>5. /\ pending' \in Seq(Frames) /\ Len(pending') = Len(pending) + 1 /\ Len(pending) \in Nat
          /\ \A i \in 1..(Len(pending) + 1) :
                pending'[i] = IF i = Len(pending) + 1 THEN f ELSE pending[i]
      BY <1>10, <3>2, <3>3, AppendAt
    <3>6. NoneOld(pending')
      <4> SUFFICES ASSUME NEW j \in 1..Len(pending') PROVE pending'[j].pix >= pending'[j].due
        BY DEF NoneOld
      <4>1. CASE j = Len(pending) + 1
        BY <3>2, <3>5, <4>1
      <4>2. CASE j # Len(pending) + 1
        <5>1. j \in 1..Len(pending) /\ pending'[j] = pending[j]
          BY <3>5, <4>2
        <5> QED BY <2>1, <5>1 DEF NoneOld
      <4> QED BY <4>1, <4>2
    <3> QED BY <1>10, <3>3, <3>4, <3>5, <3>6
  <2> QED BY <2>2, <2>3
<1>14. TypeOK'
  <2>1. ring' \in Rings /\ last' \in Indices
    BY <1>1, <1>4 DEF Accounted
  <2>2. refused' \in BOOLEAN
    BY <1>1
  <2> QED BY <1>1, <1>11, <1>13, <2>1, <2>2 DEF IndInv, TypeOK, Resources
<1>15. LockInv'
  BY <1>1, <1>2 DEF IndInv, LockInv
<1>16. ReadyInv'
  BY <1>1, <1>2, <1>4 DEF IndInv, ReadyInv
<1>17. SignalInv'
  BY <1>1, <1>2 DEF SignalInv
<1>18. FrameInv'
  BY <1>1, <1>13 DEF IndInv, FrameInv
<1>19. SyncInv'
  <2>1. Sync(ToDo', res', fb', DriverView')
    BY <1>1, <1>7, <1>8, <1>11 DEF DriverView
  <2> QED BY <1>1, <1>11, <2>1 DEF IndInv, SyncInv
<1> QED BY <1>14, <1>15, <1>16, <1>17, <1>18, <1>19 DEF IndInv

\* Leaving the loop: the interrupt is raised and the staged frames are the
\* vCPU's own before mtx_ is free.
LEMMA EndInd == ASSUME IndInv, NEW v \in Vcpus, EndCommands(v) PROVE IndInv'
<1>1. /\ pc[v] = "scan" /\ irqStatus' = 1 /\ spi' = TRUE
      /\ batch' = [batch EXCEPT ![v] = pending] /\ pending' = <<>> /\ mtx' = "free"
      /\ Goto(v, IF pending = <<>> THEN "run" ELSE "show")
      /\ UNCHANGED <<last, ready, res, scanout, staged, shown, ring, chain, refused, fb, owned,
                     lastUsed, irqpc, view, due, draws, flushes, cmds, resets>>
  BY DEF EndCommands, ShowNext, guestVars, countVars
<1>2. mtx = v /\ ready /\ batch[v] = <<>> /\ \A w \in Vcpus : w # v => pc[w] # "scan"
  BY <1>1, HolderFacts
<1>3. /\ pc' \in [Vcpus -> Labels] /\ (pc'[v] = IF pending = <<>> THEN "run" ELSE "show")
      /\ \A w \in Vcpus : w # v => pc'[w] = pc[w]
  BY <1>1, GotoFacts DEF Labels
<1>4. batch \in [Vcpus -> Seq(Frames)] /\ pending \in Seq(Frames)
  BY DEF IndInv, TypeOK
<1>5. /\ batch' \in [Vcpus -> Seq(Frames)] /\ batch'[v] = pending
      /\ \A w \in Vcpus : w # v => batch'[w] = batch[w]
  <2> DEFINE S == Seq(Frames)
  <2>1. batch \in [Vcpus -> S] /\ pending \in S
    BY <1>4
  <2> HIDE DEF S
  <2>2. batch' \in [Vcpus -> S] /\ batch'[v] = pending /\ \A w \in Vcpus : w # v => batch'[w] = batch[w]
    BY <1>1, <2>1
  <2> QED BY <2>2 DEF S
<1>6. TypeOK'
  <2>1. pending' \in Seq(Frames)
    BY <1>1
  <2>2. mtx' \in Vcpus \cup {"free"} /\ irqStatus' \in {0, 1} /\ spi' \in BOOLEAN
    BY <1>1
  <2> QED BY <1>1, <1>3, <1>5, <2>1, <2>2 DEF IndInv, TypeOK, Labels
<1>7. LockInv'
  <2>1. ASSUME NEW w \in Vcpus PROVE (pc'[w] = "scan" <=> mtx' = w) /\ (pc'[w] = "show" <=> batch'[w] # <<>>)
    <3>1. w # "free"
      BY GpuAssumption
    <3>2. CASE w = v
      BY <1>1, <1>3, <1>5, <3>1, <3>2
    <3>3. CASE w # v
      BY <1>1, <1>2, <1>3, <1>5, <3>1, <3>3 DEF IndInv, LockInv
    <3> QED BY <3>2, <3>3
  <2> QED BY <1>1, <2>1 DEF LockInv
<1>8. ReadyInv'
  BY <1>1, <1>2 DEF IndInv, ReadyInv
<1>9. SignalInv'
  BY <1>1 DEF SignalInv
<1>10. FrameInv'
  <2>1. Spread(<<>>, batch', shown, staged)
    BY <1>2, <1>5, SpreadTake DEF IndInv, FrameInv
  <2>2. NoneOld(<<>>)
    <3>1. Len(<<>>) = 0 /\ \A k \in 1..0 : FALSE
      OBVIOUS
    <3> QED BY <3>1 DEF NoneOld
  <2>3. ASSUME NEW w \in Vcpus PROVE NoneOld(batch'[w])
    BY <1>5 DEF IndInv, FrameInv
  <2> QED BY <1>1, <2>1, <2>2, <2>3 DEF FrameInv
<1>11. SyncInv'
  BY <1>1 DEF IndInv, SyncInv, ToDo, Unserveds, DriverView
<1> QED BY <1>6, <1>7, <1>8, <1>9, <1>10, <1>11 DEF IndInv

\* Showing a frame.
LEMMA ShowInd == ASSUME IndInv, NEW v \in Vcpus, ShowFrame(v) PROVE IndInv'
<1> DEFINE f == batch[v]
<1>1. /\ pc[v] = "show" /\ shown' = Append(shown, Head(f).n)
      /\ batch' = [batch EXCEPT ![v] = Tail(f)]
      /\ Goto(v, IF batch'[v] = <<>> THEN "run" ELSE "show")
      /\ UNCHANGED <<mtx, last, ready, irqStatus, spi, res, scanout, pending, staged, ring, chain,
                     refused, fb, owned, lastUsed, irqpc, view, due, draws, flushes, cmds, resets>>
  BY DEF ShowFrame, ShowNext, devVars, gpuVars, guestVars, countVars
<1>2. /\ batch \in [Vcpus -> Seq(Frames)] /\ f \in Seq(Frames) /\ f # <<>> /\ mtx # v
      /\ shown \in Seq(Nat \ {0})
  BY <1>1 DEF IndInv, TypeOK, LockInv
<1>3. /\ Tail(f) \in Seq(Frames) /\ Len(Tail(f)) = Len(f) - 1 /\ Len(f) \in Nat \ {0}
      /\ Head(f) \in Frames /\ \A i \in 1..(Len(f) - 1) : Tail(f)[i] = f[i + 1]
  BY <1>2, TailAt
<1>4. /\ batch' \in [Vcpus -> Seq(Frames)] /\ batch'[v] = Tail(f)
      /\ \A w \in Vcpus : w # v => batch'[w] = batch[w]
  <2> DEFINE S == Seq(Frames)
             g == Tail(f)
  <2>1. batch \in [Vcpus -> S] /\ g \in S
    BY <1>2, <1>3
  <2>2. batch' = [batch EXCEPT ![v] = g]
    BY <1>1
  <2> HIDE DEF S, g
  <2>3. batch' \in [Vcpus -> S] /\ batch'[v] = g /\ \A w \in Vcpus : w # v => batch'[w] = batch[w]
    BY <2>1, <2>2
  <2> QED BY <2>3 DEF S, g
<1>5. /\ pc' \in [Vcpus -> Labels] /\ (pc'[v] = IF batch'[v] = <<>> THEN "run" ELSE "show")
      /\ \A w \in Vcpus : w # v => pc'[w] = pc[w]
  BY <1>1, GotoFacts DEF Labels
<1>6. shown' \in Seq(Nat \ {0})
  <2> DEFINE S == Nat \ {0}
             k == Head(f).n
  <2>1. k \in S /\ shown \in Seq(S)
    BY <1>2, <1>3 DEF Frames
  <2>2. shown' = Append(shown, k)
    BY <1>1
  <2> HIDE DEF S, k
  <2>3. shown' \in Seq(S)
    BY <2>1, <2>2, AppendAt
  <2> QED BY <2>3 DEF S
<1>7. TypeOK'
  BY <1>1, <1>4, <1>5, <1>6 DEF IndInv, TypeOK, Labels
<1>8. LockInv'
  <2>1. ASSUME NEW w \in Vcpus PROVE (pc'[w] = "scan" <=> mtx' = w) /\ (pc'[w] = "show" <=> batch'[w] # <<>>)
    <3>1. CASE w = v
      BY <1>1, <1>2, <1>5, <3>1
    <3>2. CASE w # v
      BY <1>1, <1>4, <1>5, <3>2 DEF IndInv, LockInv
    <3> QED BY <3>1, <3>2
  <2> QED BY <1>1, <2>1 DEF IndInv, LockInv
<1>9. ReadyInv'
  BY <1>1 DEF IndInv, ReadyInv
<1>10. SignalInv'
  BY <1>1 DEF IndInv, SignalInv
<1>11. FrameInv'
  <2>1. Spread(pending, batch', shown', staged)
    <3>1. Spread(pending, batch, shown, staged)
      BY DEF IndInv, FrameInv
    <3> QED BY <1>1, <1>2, <1>4, <3>1, SpreadShow
  <2>2. NoneOld(Tail(f))
    <3> SUFFICES ASSUME NEW j \in 1..Len(Tail(f)) PROVE Tail(f)[j].pix >= Tail(f)[j].due
      BY DEF NoneOld
    <3>1. j + 1 \in 1..Len(f) /\ Tail(f)[j] = f[j + 1]
      BY <1>3
    <3>2. NoneOld(f)
      BY DEF IndInv, FrameInv
    <3> QED BY <3>1, <3>2 DEF NoneOld
  <2>3. ASSUME NEW w \in Vcpus PROVE NoneOld(batch'[w])
    BY <1>4, <2>2 DEF IndInv, FrameInv
  <2> QED BY <1>1, <2>1, <2>3 DEF IndInv, FrameInv
<1>12. SyncInv'
  BY <1>1 DEF IndInv, SyncInv, ToDo, Unserveds, DriverView
<1> QED BY <1>7, <1>8, <1>9, <1>10, <1>11, <1>12 DEF IndInv

\* Every step.
LEMMA NextInd == ASSUME IndInv, [Next]_vars PROVE IndInv'
<1>1. CASE UNCHANGED vars
  <2>1. UNCHANGED <<mtx, pc, batch, last, ready, irqStatus, spi, res, scanout, pending, staged, shown,
                    ring, chain, refused, fb, owned, lastUsed, irqpc, view, due, draws, flushes, cmds, resets>>
    BY <1>1 DEF vars, devVars, gpuVars, guestVars, countVars
  <2>2. TypeOK' /\ LockInv' /\ ReadyInv' /\ SignalInv'
    BY <2>1 DEF IndInv, TypeOK, LockInv, ReadyInv, SignalInv
  <2>3. FrameInv' /\ SyncInv'
    BY <2>1 DEF IndInv, FrameInv, SyncInv, ToDo, Unserveds, DriverView
  <2> QED BY <2>2, <2>3 DEF IndInv
<1>2. CASE Setup
  BY <1>2, SetupInd
<1>3. CASE IrqTake \/ CollectEnd \/ ReadIrqStatus \/ WriteIrqAck
  BY <1>3, HandlerInd
<1>4. CASE Collect
  BY <1>4, CollectInd
<1>5. CASE Reset
  BY <1>5, ResetInd
<1>6. CASE \E i \in Ids : Draw(i)
  BY <1>6, DrawInd
<1>7. CASE \E v \in Vcpus, op \in Ops, i \in Ids : Post(v, op, i)
  BY <1>7, PostInd
<1>8. CASE \E v \in Vcpus : ProcessControlq(v)
  <2>1. PICK v \in Vcpus : ProcessControlq(v)
    BY <1>8
  <2>2. CASE Notify(v)
    BY <2>2, NotifyInd
  <2>3. CASE ExecuteCommand(v)
    BY <2>3, ExecuteInd
  <2>4. CASE EndCommands(v)
    BY <2>4, EndInd
  <2>5. CASE ShowFrame(v)
    BY <2>5, ShowInd
  <2> QED BY <2>1, <2>2, <2>3, <2>4, <2>5 DEF ProcessControlq
<1> QED BY <1>1, <1>2, <1>3, <1>4, <1>5, <1>6, <1>7, <1>8 DEF Next

\* The invariant holds throughout.
LEMMA Invariance == Spec => []IndInv
<1>1. IndInv /\ [Next]_vars => IndInv'
  BY NextInd
<1> QED BY InitInd, <1>1, PTL DEF Spec

-----------------------------------------------------------------------------
(***************************************************************************)
(* The theorems.                                                           *)
(***************************************************************************)
\* The state keeps its type: every index is in the rings, and what the device
\* reads out of a chain is a command.
THEOREM Typing == Spec => []TypeOK
<1>1. IndInv => TypeOK
  BY DEF IndInv
<1> QED BY Invariance, <1>1, PTL

\* A set of places, of which there is one.
LEMMA OnePlace ==
    ASSUME NEW X, NEW a \in X, \A b \in X : b = a PROVE Cardinality(X) = 1
<1>1. X = {a}
  OBVIOUS
<1> QED BY <1>1, FS_Singleton

\* While vCPUs stage, take and show frames next to each other, every frame that
\* process_controlq has staged is in pending_frames_, with one vCPU, or was
\* given to the callback, in one of these places and once.
THEOREM Accounting == Spec => []FramesAccounted
<1>1. ASSUME IndInv, NEW n \in 1..staged PROVE Cardinality(Places(n)) = 1
  <2> DEFINE P == {j \in DOMAIN pending : pending[j].n = n}
             S == {j \in DOMAIN shown : shown[j] = n}
             B(v) == {j \in DOMAIN batch[v] : batch[v][j].n = n}
  <2>1. /\ DOMAIN pending = 1..Len(pending) /\ DOMAIN shown = 1..Len(shown)
        /\ \A v \in Vcpus : DOMAIN batch[v] = 1..Len(batch[v])
    <3>1. /\ pending \in Seq(Frames) /\ shown \in Seq(Nat \ {0})
          /\ \A v \in Vcpus : batch[v] \in Seq(Frames)
      BY <1>1 DEF IndInv, TypeOK
    <3> QED BY <3>1
  <2>2. Spread(pending, batch, shown, staged)
    BY <1>1 DEF IndInv, FrameInv
  <2>3. /\ \A i, j \in P : i = j
        /\ \A i, j \in S : i = j
        /\ \A v \in Vcpus : \A i, j \in B(v) : i = j
    <3>1. Distinct(pending) /\ \A v \in Vcpus : Distinct(batch[v])
      BY <2>2 DEF Spread
    <3>2. \A i, j \in P : i = j
      BY <2>1, <3>1 DEF Distinct
    <3>3. \A i, j \in S : i = j
      BY <2>1, <2>2 DEF Spread
    <3>4. ASSUME NEW v \in Vcpus, NEW i \in B(v), NEW j \in B(v) PROVE i = j
      <4>1. /\ i \in 1..Len(batch[v]) /\ j \in 1..Len(batch[v])
            /\ batch[v][i].n = n /\ batch[v][j].n = n
        BY <2>1
      <4> QED BY <3>1, <4>1 DEF Distinct
    <3> QED BY <3>2, <3>3, <3>4
  <2>4. ASSUME NEW i \in P, NEW v \in Vcpus, NEW j \in B(v) PROVE FALSE
    <3>1. /\ i \in 1..Len(pending) /\ pending[i].n = n
          /\ j \in 1..Len(batch[v]) /\ batch[v][j].n = n
      BY <2>1
    <3>2. Disjoint(pending, batch[v])
      BY <2>2 DEF Spread
    <3> QED BY <3>1, <3>2 DEF Disjoint
  <2>5. ASSUME NEW v \in Vcpus, NEW w \in Vcpus, v # w, NEW i \in B(v), NEW j \in B(w) PROVE FALSE
    <3>1. /\ i \in 1..Len(batch[v]) /\ batch[v][i].n = n
          /\ j \in 1..Len(batch[w]) /\ batch[w][j].n = n
      BY <2>1
    <3>2. Disjoint(batch[v], batch[w])
      BY <2>2, <2>5 DEF Spread
    <3> QED BY <3>1, <3>2 DEF Disjoint
  <2>6. \A j \in S : (\A i \in P : FALSE) /\ \A v \in Vcpus : \A i \in B(v) : FALSE
    BY <2>1, <2>2 DEF Spread, Has
  <2>7. (\E i \in P : TRUE) \/ (\E v \in Vcpus : \E i \in B(v) : TRUE) \/ (\E i \in S : TRUE)
    BY <1>1, <2>1, <2>2 DEF Spread, Has
  <2>8. Places(n) = {<<"pending", i>> : i \in P} \cup {<<"shown", i>> : i \in S}
                    \cup UNION {{<<v, i>> : i \in B(v)} : v \in Vcpus}
    BY DEF Places
  <2> HIDE DEF P, S, B
  <2>9. \A x \in Places(n) : \/ \E i \in P : x = <<"pending", i>>
                             \/ \E i \in S : x = <<"shown", i>>
                             \/ \E v \in Vcpus : \E i \in B(v) : x = <<v, i>>
    BY <2>8
  <2>10. CASE \E i \in P : TRUE
    <3>1. PICK i \in P : TRUE
      BY <2>10
    <3>2. <<"pending", i>> \in Places(n)
      BY <2>8
    <3>3. ASSUME NEW x \in Places(n) PROVE x = <<"pending", i>>
      BY <2>3, <2>4, <2>6, <2>9
    <3> QED BY <3>2, <3>3, OnePlace
  <2>11. CASE \E i \in S : TRUE
    <3>1. PICK i \in S : TRUE
      BY <2>11
    <3>2. <<"shown", i>> \in Places(n)
      BY <2>8
    <3>3. ASSUME NEW x \in Places(n) PROVE x = <<"shown", i>>
      BY <2>3, <2>6, <2>9
    <3> QED BY <3>2, <3>3, OnePlace
  <2>12. CASE \E v \in Vcpus : \E i \in B(v) : TRUE
    <3>1. PICK v \in Vcpus : \E i \in B(v) : TRUE
      BY <2>12
    <3>2. PICK i \in B(v) : TRUE
      BY <3>1
    <3>3. <<v, i>> \in Places(n)
      BY <2>8
    <3>4. ASSUME NEW x \in Places(n) PROVE x = <<v, i>>
      BY <2>3, <2>4, <2>5, <2>6, <2>9
    <3> QED BY <3>3, <3>4, OnePlace
  <2> QED BY <2>7, <2>10, <2>11, <2>12
<1>2. IndInv => FramesAccounted
  BY <1>1 DEF FramesAccounted
<1> QED BY Invariance, <1>2, PTL

\* A frame is never older than the driver may expect, however many commands wait
\* in the queue and whichever vCPU executes them: the TRANSFER that the driver
\* posted before the FLUSH has been executed before it.
THEOREM Freshness == Spec => []FramesFresh
<1>1. ASSUME IndInv PROVE FramesFresh
  <2>1. /\ pending \in Seq(Frames) /\ \A v \in Vcpus : batch[v] \in Seq(Frames)
    BY <1>1 DEF IndInv, TypeOK
  <2>2. DOMAIN pending = 1..Len(pending) /\ \A v \in Vcpus : DOMAIN batch[v] = 1..Len(batch[v])
    BY <2>1
  <2>3. \A j \in DOMAIN pending : pending[j].pix >= pending[j].due
    BY <1>1, <2>2 DEF IndInv, FrameInv, NoneOld
  <2>4. \A v \in Vcpus : \A j \in DOMAIN batch[v] : batch[v][j].pix >= batch[v][j].due
    BY <1>1, <2>2 DEF IndInv, FrameInv, NoneOld
  <2> QED BY <2>3, <2>4 DEF FramesFresh
<1> QED BY Invariance, <1>1, PTL

\* A driver that keeps to the protocol is never answered INVALID_RESOURCE_ID:
\* the commands the device has not executed lead from its resources to the
\* driver's view of them, over any number of resets and wraps of the indices.
THEOREM Accepting == Spec => []NeverRefused
<1>1. IndInv => NeverRefused
  BY DEF IndInv, SyncInv, NeverRefused
<1> QED BY Invariance, <1>1, PTL

\* A response that waits in the used ring has been signalled.
THEOREM Signalling == Spec => []UsedIsSignalled
<1>1. IndInv => UsedIsSignalled
  BY DEF IndInv, SignalInv, UsedIsSignalled
<1> QED BY Invariance, <1>1, PTL
=============================================================================
