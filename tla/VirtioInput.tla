----------------------------- MODULE VirtioInput -----------------------------
(***************************************************************************)
(* The virtio-input device (virtio_input.cpp): a keyboard or a tablet.     *)
(* Host threads push the events of a report into a bounded queue and move  *)
(* as many as fit into the buffers the driver has posted; the driver's     *)
(* notification moves the rest.  A second queue takes status from the      *)
(* guest, and a window of the registers describes the device.  Everything  *)
(* runs under mtx_, next to a guest that changes its rings at any time.    *)
(*                                                                         *)
(* An event is its number since the last reset and its class: a key, a     *)
(* button, an axis or the SYN that ends a report.  The guest's input layer *)
(* ignores classes the device has not announced.  The driver's buffers are *)
(* writable and large enough for an event.                                 *)
(***************************************************************************)
EXTENDS Virtqueue, Sequences, FiniteSets

CONSTANTS
    Hosts,      \* host threads that call send_key or send_pointer
    MaxEvents,  \* bound: events of the reports sent
    MaxStatus,  \* bound: status messages of the guest
    MaxReset    \* bound: times the driver resets the device

ASSUME InputAssumption ==
    /\ Hosts \cap {"free", "drv", "irq"} = {}
    /\ MaxEvents \in Nat /\ MaxStatus \in Nat /\ MaxReset \in Nat

Threads == Hosts \cup {"drv", "irq"}
Kinds   == {"Keyboard", "Tablet"}
Cap     == 2 * QSize        \* kQueueSize * 2

\* VIRTIO_INPUT_CFG_*, and the event types they are asked for (ABS_X is 0 and
\* ABS_Y is 1).
Unset   == 0
IdName  == 1
EvBits  == 17
AbsInfo == 18
EvSyn   == 0
EvKey   == 1
EvAbs   == 3

\* The classes of the events of a report, in order.
Report(kind) ==
    IF kind = "Keyboard" THEN <<"KEY", "SYN">>
                         ELSE <<"X", "Y", "BTN", "BTN", "SYN">>

Classes == {"KEY", "X", "Y", "BTN", "SYN"}
Events  == [n : 1..MaxEvents, class : Classes]
Blank   == [n |-> 0, class |-> "SYN"]       \* a buffer without an event

VARIABLES
    kind,       \* type_
    mtx,        \* owner of mtx_: a thread or "free"
    pc,         \* where each thread is
    pending,    \* pending_events_
    injected,   \* the local of the flush or drain under way
    last,       \* queues_[0].last_avail and queues_[1].last_avail
    ready,      \* both queues are ready
    irqStatus,  \* bit 0 of irq_status_
    spi,        \* the device's SPI is pending in the GIC
    config,     \* config_: select, subsel and what update_config derives from them
    ring,       \* guest memory: the rings of both queues
    buf,        \* guest memory: the event in each buffer of queue 0
    lastUsed,   \* driver: how far it has collected each used ring
    todo,       \* driver: buffers still to post, then free status chains
    probe,      \* driver: configuration queries made so far
    known,      \* driver: what the device announced
    got,        \* driver: events given to the input layer, in order
    sent,       \* events sent since the last reset
    events, stats, resets   \* events, status messages and resets so far

devVars   == <<pending, injected, last, ready, irqStatus, spi, config>>
guestVars == <<ring, buf, lastUsed, todo, probe, known, got>>
countVars == <<events, stats, resets>>
vars == <<kind, mtx, pc, devVars, guestVars, sent, countVars>>

Both(x) == [q \in {0, 1} |-> x]

\* The driver starts: zeroed rings, nothing asked, nothing received.
NewDriver ==
    /\ ring' = Both(NewRing) /\ buf' = [h \in Heads |-> Blank]
    /\ lastUsed' = Both(0) /\ todo' = Both(Heads)
    /\ probe' = 0 /\ known' = {} /\ got' = <<>>

(***************************************************************************)
(* update_config: what the window shows after select or subsel changed.    *)
(***************************************************************************)
UpdateConfig(select, subsel) ==
    CASE select = IdName -> {"NAME"}
      [] select = EvBits /\ subsel = EvSyn -> {"SYN"}
      [] select = EvBits /\ subsel = EvKey -> IF kind = "Keyboard" THEN {"KEY", "BTN"} ELSE {"BTN"}
      [] select = EvBits /\ subsel = EvAbs /\ kind = "Tablet" -> {"ABS"}
      [] select = AbsInfo /\ subsel = 0 /\ kind = "Tablet" -> {"RANGE X"}
      [] select = AbsInfo /\ subsel = 1 /\ kind = "Tablet" -> {"RANGE Y"}
      [] OTHER -> {}

\* The driver's queries; SYN needs no announcement.
Queries ==
    <<[select |-> IdName, subsel |-> 0], [select |-> EvBits, subsel |-> EvKey],
      [select |-> EvBits, subsel |-> EvAbs],
      [select |-> AbsInfo, subsel |-> 0], [select |-> AbsInfo, subsel |-> 1]>>

\* What the input layer must know of to accept an event.
Needs(class) ==
    CASE class = "X" -> {"ABS", "RANGE X"}
      [] class = "Y" -> {"ABS", "RANGE Y"}
      [] class = "SYN" -> {}
      [] OTHER -> {class}

Init ==
    /\ kind \in Kinds
    /\ mtx = "free" /\ pc = [t \in Threads |-> IF t = "drv" THEN "select" ELSE "idle"]
    /\ pending = <<>> /\ injected = FALSE
    /\ last = Both(0) /\ ready = FALSE /\ irqStatus = 0 /\ spi = FALSE
    /\ config = [select |-> Unset, subsel |-> 0, shows |-> {}]
    /\ ring = Both(NewRing) /\ buf = [h \in Heads |-> Blank]
    /\ lastUsed = Both(0) /\ todo = Both(Heads)
    /\ probe = 0 /\ known = {} /\ got = <<>>
    /\ sent = 0 /\ events = 0 /\ stats = 0 /\ resets = 0

Goto(t, label) == pc' = [pc EXCEPT ![t] = label]

(***************************************************************************)
(* Host threads: send_key of a keyboard, send_pointer of a tablet.         *)
(***************************************************************************)
\* Mutant: the queue drops one event too early.
NewestOneLess(q) == IF Len(q) >= Cap THEN SubSeq(q, Len(q) - Cap + 2, Len(q)) ELSE q

\* push_event_locked for each event of a report: each push beyond the bound
\* drops the oldest, so the newest remain.
Newest(q) == IF Len(q) > Cap THEN SubSeq(q, Len(q) - Cap + 1, Len(q)) ELSE q

Send(t) ==
    /\ pc[t] = "idle" /\ mtx = "free"
    /\ LET r == Report(kind)
       IN /\ events + Len(r) <= MaxEvents /\ events' = events + Len(r)
          /\ pending' = Newest(pending \o [i \in 1..Len(r) |-> [n |-> sent + i, class |-> r[i]]])
          /\ sent' = sent + Len(r)
    /\ IF ready THEN mtx' = t /\ Goto(t, "flush") ELSE UNCHANGED <<mtx, pc>>
    /\ UNCHANGED <<kind, injected, last, ready, irqStatus, spi, config, guestVars, stats, resets>>

(***************************************************************************)
(* flush_events_locked, by a host thread or by the driver's notification.  *)
(***************************************************************************)
Flushable == pending # <<>> /\ last[0] # ring[0].availIdx

FlushEvent(t) ==
    /\ pc[t] = "flush" /\ Flushable
    /\ LET h == NextHead(last[0], ring[0])
       IN /\ buf' = [buf EXCEPT ![h] = Head(pending)]
          /\ ring' = [ring EXCEPT ![0] = PushUsed(@, h)]
    /\ pending' = Tail(pending) /\ injected' = TRUE
    /\ last' = [last EXCEPT ![0] = Bump(@)]
    /\ UNCHANGED <<kind, mtx, pc, ready, irqStatus, spi, config, lastUsed, todo, probe, known, got,
                   sent, countVars>>

\* Where a thread continues after its call returned.
Return(t) == Goto(t, IF t = "irq" THEN "status" ELSE "idle")

\* Mutant: the interrupt is raised by notifications only, not by a send.
FlushEndQuietHost(t) ==
    /\ pc[t] = "flush" /\ ~Flushable
    /\ IF injected /\ t \notin Hosts THEN irqStatus' = 1 /\ spi' = TRUE ELSE UNCHANGED <<irqStatus, spi>>
    /\ injected' = FALSE /\ mtx' = "free" /\ Return(t)
    /\ UNCHANGED <<kind, pending, last, ready, config, guestVars, sent, countVars>>

FlushEnd(t) ==
    /\ pc[t] = "flush" /\ ~Flushable
    /\ IF injected THEN irqStatus' = 1 /\ spi' = TRUE ELSE UNCHANGED <<irqStatus, spi>>
    /\ injected' = FALSE /\ mtx' = "free" /\ Return(t)
    /\ UNCHANGED <<kind, pending, last, ready, config, guestVars, sent, countVars>>

(***************************************************************************)
(* process_statusq.                                                        *)
(***************************************************************************)
DrainStatus(t) ==
    /\ pc[t] = "drain" /\ last[1] # ring[1].availIdx
    /\ ring' = [ring EXCEPT ![1] = PushUsed(@, NextHead(last[1], @))]
    /\ last' = [last EXCEPT ![1] = Bump(@)] /\ injected' = TRUE
    /\ UNCHANGED <<kind, mtx, pc, pending, ready, irqStatus, spi, config, buf, lastUsed, todo, probe,
                   known, got, sent, countVars>>

DrainEnd(t) ==
    /\ pc[t] = "drain" /\ last[1] = ring[1].availIdx
    /\ IF injected THEN irqStatus' = 1 /\ spi' = TRUE ELSE UNCHANGED <<irqStatus, spi>>
    /\ injected' = FALSE /\ mtx' = "free" /\ Return(t)
    /\ UNCHANGED <<kind, pending, last, ready, config, guestVars, sent, countVars>>

(***************************************************************************)
(* Input::write and Input::read.                                           *)
(***************************************************************************)
\* Mutant: only the status queue is notified, events wait for the next send.
NotifyStatusOnly(t) ==
    /\ pc[t] \in {"kick events", "kick status"} /\ mtx = "free"
    /\ IF ready /\ pc[t] = "kick status" THEN mtx' = t /\ Goto(t, "drain")
                                         ELSE Return(t) /\ UNCHANGED mtx
    /\ UNCHANGED <<kind, devVars, guestVars, sent, countVars>>

\* QueueNotify: 0 flushes events, 1 drains the status queue.
Notify(t) ==
    /\ pc[t] \in {"kick events", "kick status"} /\ mtx = "free"
    /\ IF ready THEN mtx' = t /\ Goto(t, IF pc[t] = "kick events" THEN "flush" ELSE "drain")
                ELSE Return(t) /\ UNCHANGED mtx
    /\ UNCHANGED <<kind, devVars, guestVars, sent, countVars>>

\* The two writes of a query go to bytes 0 and 1 of the window.
WriteSelect ==
    /\ pc["drv"] = "select" /\ mtx = "free" /\ probe < Len(Queries)
    /\ LET s == Queries[probe + 1].select
       IN config' = [config EXCEPT !.select = s, !.shows = UpdateConfig(s, config.subsel)]
    /\ Goto("drv", "subsel")
    /\ UNCHANGED <<kind, mtx, pending, injected, last, ready, irqStatus, spi, guestVars, sent, countVars>>

WriteSubsel ==
    /\ pc["drv"] = "subsel" /\ mtx = "free"
    /\ LET s == Queries[probe + 1].subsel
       IN config' = [config EXCEPT !.subsel = s, !.shows = UpdateConfig(config.select, s)]
    /\ Goto("drv", "read")
    /\ UNCHANGED <<kind, mtx, pending, injected, last, ready, irqStatus, spi, guestVars, sent, countVars>>

ReadConfig ==
    /\ pc["drv"] = "read" /\ mtx = "free"
    /\ known' = known \cup config.shows /\ probe' = probe + 1
    /\ Goto("drv", "select")
    /\ UNCHANGED <<kind, mtx, devVars, ring, buf, lastUsed, todo, got, sent, countVars>>

\* QueueReady of both queues.
Setup ==
    /\ pc["drv"] = "select" /\ mtx = "free" /\ probe = Len(Queries) /\ pc["irq"] = "idle"
    /\ ready' = TRUE /\ Goto("drv", "fill")
    /\ UNCHANGED <<kind, mtx, pending, injected, last, irqStatus, spi, config, guestVars, sent, countVars>>

ReadIrqStatus ==
    /\ pc["irq"] = "read" /\ mtx = "free"
    /\ Goto("irq", IF irqStatus = 1 THEN "ack" ELSE "idle")
    /\ UNCHANGED <<kind, mtx, devVars, guestVars, sent, countVars>>

WriteIrqAck ==
    /\ pc["irq"] = "ack" /\ mtx = "free"
    /\ irqStatus' = 0 /\ Goto("irq", "collect")
    /\ UNCHANGED <<kind, mtx, pending, injected, last, ready, spi, config, guestVars, sent, countVars>>

\* Status = 0; the driver keeps interrupt handlers out and starts anew.
Reset ==
    /\ pc["drv"] = "idle" /\ mtx = "free" /\ pc["irq"] = "idle" /\ ready /\ resets < MaxReset
    /\ resets' = resets + 1
    /\ last' = Both(0) /\ ready' = FALSE /\ irqStatus' = 0 /\ pending' = <<>>
    /\ NewDriver /\ sent' = 0 /\ Goto("drv", "select")
    /\ UNCHANGED <<kind, mtx, injected, spi, config, events, stats>>

(***************************************************************************)
(* The guest's driver.                                                     *)
(***************************************************************************)
Fill ==
    /\ pc["drv"] = "fill"
    /\ IF todo[0] = {}
       THEN Goto("drv", "kick events") /\ UNCHANGED <<ring, todo>>
       ELSE LET h == CHOOSE h \in todo[0] : \A g \in todo[0] : h <= g
            IN /\ ring' = [ring EXCEPT ![0] = Offer(@, h)]
               /\ todo' = [todo EXCEPT ![0] = @ \ {h}]
               /\ UNCHANGED pc
    /\ UNCHANGED <<kind, mtx, devVars, buf, lastUsed, probe, known, got, sent, countVars>>

PostStatus ==
    /\ pc["drv"] = "idle" /\ ready /\ todo[1] # {} /\ stats < MaxStatus
    /\ stats' = stats + 1
    /\ LET h == CHOOSE h \in todo[1] : \A g \in todo[1] : h <= g
       IN /\ ring' = [ring EXCEPT ![1] = Offer(@, h)]
          /\ todo' = [todo EXCEPT ![1] = @ \ {h}]
    /\ Goto("drv", "kick status")
    /\ UNCHANGED <<kind, mtx, devVars, buf, lastUsed, probe, known, got, sent, events, resets>>

IrqTake ==
    /\ pc["irq"] = "idle" /\ spi
    /\ spi' = FALSE /\ Goto("irq", "read")
    /\ UNCHANGED <<kind, mtx, pending, injected, last, ready, irqStatus, config, guestVars, sent, countVars>>

\* The handler gives each event on and posts its buffer again, then notifies.
CollectEvent ==
    /\ pc["irq"] = "collect" /\ lastUsed[0] # ring[0].usedIdx
    /\ LET h == ring[0].used[lastUsed[0] % QSize]
       IN /\ got' = IF Needs(buf[h].class) \subseteq known THEN Append(got, buf[h].n) ELSE got
          /\ buf' = [buf EXCEPT ![h] = Blank]
          /\ ring' = [ring EXCEPT ![0] = Offer(@, h)]
    /\ lastUsed' = [lastUsed EXCEPT ![0] = Bump(@)]
    /\ UNCHANGED <<kind, mtx, pc, devVars, todo, probe, known, sent, countVars>>

CollectedEvents ==
    /\ pc["irq"] = "collect" /\ lastUsed[0] = ring[0].usedIdx
    /\ Goto("irq", "kick events")
    /\ UNCHANGED <<kind, mtx, devVars, guestVars, sent, countVars>>

CollectStatus ==
    /\ pc["irq"] = "status"
    /\ IF lastUsed[1] = ring[1].usedIdx
       THEN Goto("irq", "idle") /\ UNCHANGED <<lastUsed, todo>>
       ELSE /\ todo' = [todo EXCEPT ![1] = @ \cup {ring[1].used[lastUsed[1] % QSize]}]
            /\ lastUsed' = [lastUsed EXCEPT ![1] = Bump(@)]
            /\ UNCHANGED pc
    /\ UNCHANGED <<kind, mtx, devVars, ring, buf, probe, known, got, sent, countVars>>

Call(t)  == FlushEvent(t) \/ FlushEnd(t) \/ DrainStatus(t) \/ DrainEnd(t) \/ Notify(t)
Probe    == WriteSelect \/ WriteSubsel \/ ReadConfig
Handler  == ReadIrqStatus \/ WriteIrqAck \/ IrqTake \/ CollectEvent \/ CollectedEvents \/ CollectStatus

Next ==
    \/ \E t \in Hosts : Send(t)
    \/ \E t \in Threads : Call(t)
    \/ Probe \/ Setup \/ Fill \/ PostStatus \/ Reset
    \/ Handler

Spec == Init /\ [][Next]_vars

\* Host threads and vCPUs are scheduled, the driver fills its queue and its
\* interrupt handler runs; nobody has to send, post or reset anything.
FairSpec == Spec /\ WF_vars(Fill) /\ WF_vars(Handler) /\ \A t \in Threads : WF_vars(Call(t))

(***************************************************************************)
(* Properties.                                                             *)
(***************************************************************************)
\* The type invariant.
TypeOK ==
    /\ kind \in Kinds /\ mtx \in Threads \cup {"free"}
    /\ pc \in [Threads -> {"idle", "select", "subsel", "read", "fill", "kick events", "kick status",
                           "flush", "drain", "ack", "collect", "status"}]
    /\ pending \in Seq(Events) /\ Len(pending) <= Cap
    /\ injected \in BOOLEAN /\ last \in [{0, 1} -> Indices] /\ ready \in BOOLEAN
    /\ irqStatus \in {0, 1} /\ spi \in BOOLEAN
    /\ config.select \in {Unset, IdName, EvBits, AbsInfo} /\ config.subsel \in {0, 1, 3}
    /\ ring \in [{0, 1} -> Rings] /\ buf \in [Heads -> Events \cup {Blank}]
    /\ lastUsed \in [{0, 1} -> Indices] /\ todo \in [{0, 1} -> SUBSET Heads]
    /\ probe \in 0..Len(Queries) /\ got \in Seq(1..MaxEvents) /\ sent \in 0..MaxEvents
    /\ events \in 0..MaxEvents /\ stats \in 0..MaxStatus /\ resets \in 0..MaxReset

\* The events in buffers the driver has not collected yet, and all events
\* that have not been dropped, in the order in which the guest sees them.
InBuffers ==
    LET u == Uncollected(lastUsed[0], ring[0])
    IN IF ready THEN [i \in DOMAIN u |-> buf[u[i]].n] ELSE <<>>
Kept == got \o InBuffers \o [i \in DOMAIN pending |-> pending[i].n]

\* flush_events_locked is called by host threads and by the driver in any
\* order, and the queue drops its front when the guest is slow: still the
\* guest's input layer sees events in the order they were sent, each once, and
\* the newest 2 * kQueueSize of them are never lost.  So a report is cut, or
\* runs into another one, only after an overflow.
KeepsNewest ==
    /\ \A i \in 1..(Len(Kept) - 1) : Kept[i] < Kept[i + 1]
    /\ \A n \in 1..sent : n > sent - Cap => \E i \in DOMAIN Kept : Kept[i] = n

\* An interrupt is never lost, though host threads and two queues share
\* irq_status_: when a buffer waits in a used ring and the handler is idle and
\* no flush or drain is under way, the SPI is pending and irq_status_ is set.
UsedIsSignalled ==
    /\ ready /\ pc["irq"] = "idle" /\ mtx = "free"
    /\ \E q \in {0, 1} : lastUsed[q] # ring[q].usedIdx
    => spi /\ irqStatus = 1

\* No event waits for ever: one that found no buffer is moved by the driver's
\* next notification, and its interrupt makes the driver collect it.
EventsDelivered ==
    LET Waiting == ready /\ Len(Kept) > Len(got)
    IN Waiting ~> ~Waiting
===============================================================================
