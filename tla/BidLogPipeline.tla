--------------------------- MODULE BidLogPipeline ---------------------------
(***************************************************************************)
(* The way of an accepted bid from Redis to MySQL: PlaceBidLua appends it  *)
(* to the stream auction:bid_logs; one worker per backend pod reads the    *)
(* stream through a consumer group, inserts a batch of rows with one       *)
(* statement, and acknowledges the batch.  What it took and did not        *)
(* acknowledge stays pending and is claimed by some worker once it has     *)
(* been idle for thirty seconds.                                           *)
(*                                                                         *)
(* An entry is named by its place in the stream; bid ids, the primary key  *)
(* of the rows, are as distinct as the places.  A worker that crashes, or  *)
(* whose command returns an error, forgets its batch; the command may      *)
(* have taken effect all the same.  The loss of a whole Redis is not here. *)
(***************************************************************************)
EXTENDS Integers, FiniteSets

CONSTANTS
    Workers,    \* one per pod
    Malformed,  \* the entries the parser refuses
    BatchSize,  \* how many messages a worker takes at a time
    MaxEntries  \* bound: the length of the stream

ASSUME WorkersAssumption   == IsFiniteSet(Workers)
ASSUME BoundsAssumption    == BatchSize \in Nat \ {0} /\ MaxEntries \in Nat
ASSUME MalformedAssumption == Malformed \subseteq 1..MaxEntries

VARIABLES
    last,       \* the stream holds the entries 1..last
    delivered,  \* the group has given out the entries 1..delivered
    pending,    \* those given out and not acknowledged
    stale,      \* the pending ones idle for at least bidLogPendingMinIdle
    dead,       \* the entries copied to the dead-letter stream
    logs,       \* the entries with a row in bid_logs
    worker      \* per worker: its next command and its batch

vars == <<last, delivered, pending, stale, dead, logs, worker>>

Entries == 1..MaxEntries
Resting == [at |-> "pending", batch |-> {}]

Init ==
    /\ last = 0
    /\ delivered = 0
    /\ pending = {}
    /\ stale = {}
    /\ dead = {}
    /\ logs = {}
    /\ worker = [w \in Workers |-> Resting]

\* The first BatchSize elements of a set of entries, in stream order.
Oldest(S) == {e \in S : Cardinality({d \in S : d < e}) < BatchSize}

Takes(w, batch) == worker' = [worker EXCEPT ![w] = [at |-> "parse", batch |-> batch]]
Goes(w, to)     == worker' = [worker EXCEPT ![w].at = to]
Rests(w)        == worker' = [worker EXCEPT ![w] = Resting]

-----------------------------------------------------------------------------
(* The worker's drainOnce, command by command.                             *)

\* The bid script's XADD.
Append ==
    /\ last < MaxEntries
    /\ last' = last + 1
    /\ UNCHANGED <<delivered, pending, stale, dead, logs, worker>>

\* What XAUTOCLAIM hands over.
Claimable == Oldest(stale)

\* ReadPending; claiming an entry starts its idle time anew.
ReadPending(w) ==
    /\ worker[w].at = "pending"
    /\ IF Claimable = {} THEN Goes(w, "read") ELSE Takes(w, Claimable)
    /\ stale' = stale \ Claimable
    /\ UNCHANGED <<last, delivered, pending, dead, logs>>

\* Mutant: a batch that is not full is counted as a full one.
Mut_FullBatch(new) == delivered + BatchSize

Position(new) == delivered + Cardinality(new)

\* Read, which blocks for 50 ms and may come back empty.
Read(w) ==
    /\ worker[w].at = "read"
    /\ LET new == Oldest((delivered + 1)..last)
       IN  /\ delivered' = Position(new)
           /\ pending' = pending \cup new
           /\ IF new = {} THEN Rests(w) ELSE Takes(w, new)
    /\ UNCHANGED <<last, stale, dead, logs>>

\* Mutant: one malformed message condemns its whole batch.
Mut_WholeBatch(batch) == IF batch \cap Malformed = {} THEN {} ELSE batch

Unparsable(batch) == batch \cap Malformed

\* The first message of the batch that cannot be parsed.
FirstUnparsable(w, e) ==
    /\ e \in Unparsable(worker[w].batch)
    /\ \A d \in Unparsable(worker[w].batch) : e <= d

\* deadLetterAndAck.
DeadLetter(w) ==
    /\ worker[w].at = "parse"
    /\ \E e \in Entries :
          /\ FirstUnparsable(w, e)
          /\ dead' = dead \cup {e}
          /\ pending' = pending \ {e}
          /\ stale' = stale \ {e}
          /\ worker' = [worker EXCEPT ![w].batch = @ \ {e}]
    /\ UNCHANGED <<last, delivered, logs>>

\* The copy is made and the acknowledgement is not: all of the batch waits.
DeadLetterFails(w) ==
    /\ worker[w].at = "parse"
    /\ \E e \in Entries : FirstUnparsable(w, e) /\ dead' = dead \cup {e}
    /\ Rests(w)
    /\ UNCHANGED <<last, delivered, pending, stale, logs>>

Parsed(w) ==
    /\ worker[w].at = "parse"
    /\ Unparsable(worker[w].batch) = {}
    /\ IF worker[w].batch = {} THEN Rests(w) ELSE Goes(w, "insert")
    /\ UNCHANGED <<last, delivered, pending, stale, dead, logs>>

\* Mutant: the error of the insertion is logged and otherwise ignored.
Mut_IgnoresError(w) ==
    /\ worker[w].at = "insert"
    /\ logs' \in {logs, logs \cup worker[w].batch}
    /\ Goes(w, "ack")
    /\ UNCHANGED <<last, delivered, pending, stale, dead>>

\* CreateBidLogs: one INSERT that passes over the rows that exist already.
Insert(w) ==
    /\ worker[w].at = "insert"
    /\ logs' = logs \cup worker[w].batch
    /\ Goes(w, "ack")
    /\ UNCHANGED <<last, delivered, pending, stale, dead>>

Ack(w) ==
    /\ worker[w].at = "ack"
    /\ pending' = pending \ worker[w].batch
    /\ stale' = stale \ worker[w].batch
    /\ Rests(w)
    /\ UNCHANGED <<last, delivered, dead, logs>>

\* MySQL or Redis refuses a command, or the worker dies and is started
\* again; an insertion may have been made nevertheless.
Fails(w) ==
    /\ worker[w] # Resting
    /\ \/ UNCHANGED logs
       \/ worker[w].at = "insert" /\ logs' = logs \cup worker[w].batch
    /\ Rests(w)
    /\ UNCHANGED <<last, delivered, pending, stale, dead>>

\* Thirty seconds pass for a pending entry, even while a worker has it.
GrowsStale(e) ==
    /\ e \in pending \ stale
    /\ stale' = stale \cup {e}
    /\ UNCHANGED <<last, delivered, pending, dead, logs, worker>>

WorkerStep(w) ==
    \/ ReadPending(w)
    \/ Read(w)
    \/ DeadLetter(w)
    \/ Parsed(w)
    \/ Insert(w)
    \/ Ack(w)

Next ==
    \/ Append
    \/ \E w \in Workers : WorkerStep(w) \/ DeadLetterFails(w) \/ Fails(w)
    \/ \E e \in Entries : GrowsStale(e)

SafeSpec == Init /\ [][Next]_vars

\* Every worker's ticker keeps firing, idle times grow, and MySQL and Redis
\* are not down for ever: a command that workers try again and again is
\* carried out for one of them in the end.
Fairness ==
    /\ WF_vars(\E e \in Entries : GrowsStale(e))
    /\ \A w \in Workers : WF_vars(WorkerStep(w))
    /\ SF_vars(\E w \in Workers : Read(w))
    /\ SF_vars(\E w \in Workers : DeadLetter(w) \/ Parsed(w))
    /\ SF_vars(\E w \in Workers : Insert(w))
    /\ SF_vars(\E w \in Workers : Ack(w))

Spec == SafeSpec /\ Fairness

-----------------------------------------------------------------------------
(* What the rest of the system reads off the stream.                       *)

\* Mutant: only the lag is looked at.
Mut_OnlyLag == delivered = last

\* The drain checker of the failback: no lag and nothing pending.
Drained == pending = {} /\ delivered = last

-----------------------------------------------------------------------------
(* Properties.                                                             *)

\* Positions, sets of entries and workers have the values the code gives.
TypeOK ==
    /\ last \in 0..MaxEntries
    /\ delivered \in 0..last
    /\ pending \subseteq 1..delivered
    /\ stale \subseteq pending
    /\ dead \subseteq 1..delivered
    /\ logs \subseteq 1..delivered
    /\ worker \in [Workers -> [at: {"pending", "read", "parse", "insert", "ack"},
                               batch: SUBSET (1..delivered)]]

\* docs/superpowers/specs/2026-06-09-in-process-dependency-degradation-
\* design.md:83: the worker does not acknowledge what it has not durably
\* written.  So an entry given out and no longer pending is in MySQL or, if
\* it could not be parsed, in the dead-letter stream.
AckedIsKept == (1..delivered) \ pending \subseteq logs \cup dead

\* A bid a worker could parse never ends among the dead letters, and a
\* malformed one never in MySQL, whatever was batched with it.
DeadAreMalformed == dead \subseteq Malformed /\ logs \cap Malformed = {}

\* When the drain checker says yes, MySQL has every bid of the stream, which
\* is what the failback rebuilds the other Redis from.
DrainedIsComplete == Drained => (1..last) \ Malformed \subseteq logs

\* What this comes to for whoever appends to the stream: DurableLog, of which
\* an entry is kept once it has a row or a copy among the dead letters.
Log == INSTANCE DurableLog WITH
    Bids     <- Entries,
    accepted <- 1..last,
    queued   <- pending \cup (delivered + 1)..last,
    kept     <- logs \cup dead

ImplementsDurableLog == Log!SafeSpec

\* Every accepted bid reaches MySQL, or the dead letters if malformed,
\* whatever it was batched with and even if each worker fails time and again.
EveryBidIsKept ==
    \A e \in Entries : (e <= last) ~> (IF e \in Malformed THEN e \in dead ELSE e \in logs)
=============================================================================
