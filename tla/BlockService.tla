----------------------------- MODULE BlockService -----------------------------
(***************************************************************************)
(* What a block device promises its driver, without rings, interrupts,     *)
(* locks or single transfers: requests are served one at a time in the     *)
(* order they were submitted, each is answered once, and a status says     *)
(* whether the host refused one of its transfers.                          *)
(***************************************************************************)
EXTENDS Naturals, Sequences

CONSTANTS
    Tags,       \* names of requests in flight
    Requests,   \* [type, start, n, skipped, val]: n blocks from start; skipped
                \* more buffers are out of the device's reach
    Values,     \* contents of a block
    Short       \* blocks the host may transfer in part, unnoticed

Blocks == UNION {{r.start + i - 1 : i \in 1..r.n} : r \in Requests}
Range(r) == {r.start + i - 1 : i \in 1..r.n}

VARIABLES
    pending,    \* submitted, not yet answered
    answers,    \* answered, not yet collected
    disk

vars == <<pending, answers, disk>>

Init ==
    /\ pending = <<>> /\ answers = <<>>
    /\ disk \in [Blocks -> Values]

Submit(t, r) ==
    /\ pending' = Append(pending, [tag |-> t, req |-> r])
    /\ UNCHANGED <<answers, disk>>

Answer(status, data) ==
    /\ pending' = Tail(pending)
    /\ answers' = Append(answers, [tag |-> Head(pending).tag, status |-> status, data |-> data])

\* A transfer of every block of r but the failed ones; of the short ones a part
\* is missing.  Buffers out of reach take no block and have no part in this.
Transfer(r, failed, short, status) ==
    /\ disk' = IF r.type = "OUT"
               THEN [b \in Blocks |-> IF b \in short THEN "torn"
                                      ELSE IF b \in Range(r) \ failed THEN r.val ELSE disk[b]]
               ELSE disk
    /\ Answer(status, IF r.type = "IN"
                      THEN [i \in 1..r.n |-> IF r.start + i - 1 \in failed \cup short
                                             THEN "stale" ELSE disk[r.start + i - 1]]
                      ELSE <<>>)

\* OK: a read returned the contents, a write replaced all of them, and nothing
\* else touched the medium -- but for the blocks transferred in part, and for
\* the first n blocks only when further buffers were out of reach.  A request
\* for no block, and a flush, is always OK.
ServeOk ==
    /\ pending # <<>>
    /\ LET r == Head(pending).req
       IN /\ r.type # "OTHER" \/ r.n = 0
          /\ \E short \in SUBSET (Range(r) \cap Short) : Transfer(r, {}, short, "OK")

\* IOERR: only for a transfer; some block of a write kept its contents, or
\* the data of a read is incomplete.
ServeError ==
    /\ pending # <<>>
    /\ LET r == Head(pending).req
       IN /\ r.type \in {"IN", "OUT"} /\ r.n > 0
          /\ \E short \in SUBSET (Range(r) \cap Short) :
             \E failed \in SUBSET (Range(r) \ short) :
                failed # {} /\ Transfer(r, failed, short, "IOERR")

ServeUnsupported ==
    /\ pending # <<>>
    /\ Head(pending).req.type = "OTHER" /\ Head(pending).req.n > 0
    /\ Answer("UNSUPP", <<>>)
    /\ UNCHANGED disk

Collect ==
    /\ answers # <<>>
    /\ answers' = Tail(answers)
    /\ UNCHANGED <<pending, disk>>

\* The driver forgets what was in flight; what was answered stays done.
Reset ==
    /\ pending' = <<>> /\ answers' = <<>>
    /\ UNCHANGED disk

Next ==
    \/ \E t \in Tags, r \in Requests : Submit(t, r)
    \/ ServeOk \/ ServeError \/ ServeUnsupported
    \/ Collect \/ Reset

Spec == Init /\ [][Next]_vars
===============================================================================
