------------------------ MODULE BidLogPipelineProofs ------------------------
(***************************************************************************)
(* Proofs about BidLogPipeline, for any number of workers, any batch size, *)
(* any stream and any malformed entries in it.                             *)
(*                                                                         *)
(* AckedIsKept is not inductive: an acknowledgement is safe only because   *)
(* the worker that makes it has inserted its batch, and an insertion only  *)
(* because what could not be parsed has left the batch.  IInv says so.     *)
(***************************************************************************)
EXTENDS BidLogPipeline, FiniteSetTheorems, TLAPS

\* A worker past its insertion has its batch in MySQL, and past its parsing
\* nothing malformed in it.
BatchesAreReady ==
    \A w \in Workers :
        /\ worker[w].at = "ack" => worker[w].batch \subseteq logs
        /\ worker[w].at \in {"insert", "ack"} => worker[w].batch \cap Malformed = {}

IInv == TypeOK /\ BatchesAreReady /\ AckedIsKept /\ DeadAreMalformed

-----------------------------------------------------------------------------
(* The oldest part of an interval is an interval.                          *)

LEMMA OldestOfInterval ==
    ASSUME NEW a \in Nat, NEW b \in Nat, a <= b
    PROVE  LET new == Oldest((a + 1)..b)
           IN  /\ a + Cardinality(new) \in a..b
               /\ new = (a + 1)..(a + Cardinality(new))
<1> DEFINE new == Oldest((a + 1)..b)
<1>1. \A e \in (a + 1)..b : Cardinality({d \in (a + 1)..b : d < e}) = e - a - 1
  <2> SUFFICES ASSUME NEW e \in (a + 1)..b
               PROVE  Cardinality({d \in (a + 1)..b : d < e}) = e - a - 1
    OBVIOUS
  <2>1. {d \in (a + 1)..b : d < e} = (a + 1)..(e - 1)
    OBVIOUS
  <2>2. Cardinality((a + 1)..(e - 1)) = IF a + 1 > e - 1 THEN 0 ELSE (e - 1) - (a + 1) + 1
    BY FS_Interval
  <2>3. Cardinality({d \in (a + 1)..b : d < e}) = Cardinality((a + 1)..(e - 1))
    BY <2>1
  <2>4. (IF a + 1 > e - 1 THEN 0 ELSE (e - 1) - (a + 1) + 1) = e - a - 1
    OBVIOUS
  <2> QED BY <2>2, <2>3, <2>4
<1>2. new = {e \in (a + 1)..b : e - a - 1 < BatchSize}
  BY <1>1 DEF Oldest
<1>3. BatchSize \in Nat
  BY BoundsAssumption
<1> HIDE DEF new
<1>4. \E c \in a..b : new = (a + 1)..c
  <2>1. CASE a + BatchSize <= b
    <3>1. \A e : e \in new <=> e \in (a + 1)..(a + BatchSize)
      BY <1>2, <1>3, <2>1
    <3>2. new = (a + 1)..(a + BatchSize)
      BY <3>1
    <3> QED BY <3>2, <1>3, <2>1
  <2>2. CASE ~(a + BatchSize <= b)
    <3>1. \A e : e \in new <=> e \in (a + 1)..b
      BY <1>2, <1>3, <2>2
    <3>2. new = (a + 1)..b
      BY <3>1
    <3> QED BY <3>2
  <2> QED BY <2>1, <2>2
<1>5. PICK c \in a..b : new = (a + 1)..c
  BY <1>4
<1>6. Cardinality(new) = c - a
  <2>1. Cardinality((a + 1)..c) = IF a + 1 > c THEN 0 ELSE c - (a + 1) + 1
    BY FS_Interval
  <2> QED BY <2>1, <1>5
<1> QED
  <2>1. a + (c - a) = c
    OBVIOUS
  <2> QED BY <1>5, <1>6, <2>1 DEF new
-----------------------------------------------------------------------------
(* The invariant.                                                          *)

LEMMA InitIInv == Init => IInv
<1> SUFFICES ASSUME Init PROVE IInv
  OBVIOUS
<1>1. last \in 0..MaxEntries /\ delivered \in 0..last
  BY BoundsAssumption DEF Init
<1>2. worker \in [Workers -> [at: {"pending", "read", "parse", "insert", "ack"},
                             batch: SUBSET (1..delivered)]]
  BY DEF Init, Resting
<1>3. \A w \in Workers : worker[w].at = "pending"
  BY DEF Init, Resting
<1>4. (1..delivered) \ pending = {}
  BY DEF Init
<1> QED
  BY <1>1, <1>2, <1>3, <1>4 DEF Init, IInv, TypeOK, BatchesAreReady, AckedIsKept, DeadAreMalformed

\* The values a worker takes, given that the delivered entries only grow.
LEMMA WorkerTyped ==
    ASSUME TypeOK, NEW w \in Workers, NEW at \in {"pending", "read", "parse", "insert", "ack"},
           delivered' \in Nat, delivered <= delivered',
           NEW batch \in SUBSET (1..delivered'),
           worker' = [worker EXCEPT ![w] = [at |-> at, batch |-> batch]]
    PROVE  /\ worker' \in [Workers -> [at: {"pending", "read", "parse", "insert", "ack"},
                                      batch: SUBSET (1..delivered')]]
           /\ worker'[w] = [at |-> at, batch |-> batch]
           /\ \A v \in Workers \ {w} : worker'[v] = worker[v]
<1>1. \A v \in Workers : worker[v] \in [at: {"pending", "read", "parse", "insert", "ack"},
                                       batch: SUBSET (1..delivered')]
  <2>1. 1..delivered \subseteq 1..delivered'
    BY DEF TypeOK
  <2> QED BY <2>1 DEF TypeOK
<1>2. [at |-> at, batch |-> batch] \in [at: {"pending", "read", "parse", "insert", "ack"},
                                       batch: SUBSET (1..delivered')]
  OBVIOUS
<1> QED BY <1>1, <1>2 DEF TypeOK

\* A step that changes one field of a worker's record changes the record so.
LEMMA FieldUpdates ==
    ASSUME TypeOK, NEW w \in Workers
    PROVE  /\ worker[w] = [at |-> worker[w].at, batch |-> worker[w].batch]
           /\ worker[w].batch \in SUBSET (1..delivered)
           /\ \A to : Goes(w, to) =>
                 worker' = [worker EXCEPT ![w] = [at |-> to, batch |-> worker[w].batch]]
           /\ \A e : worker' = [worker EXCEPT ![w].batch = @ \ {e}] =>
                 worker' = [worker EXCEPT ![w] =
                              [at |-> worker[w].at, batch |-> worker[w].batch \ {e}]]
<1>1. worker[w] \in [at: {"pending", "read", "parse", "insert", "ack"},
                     batch: SUBSET (1..delivered)]
  BY DEF TypeOK
<1>2. \A to : [worker[w] EXCEPT !.at = to] = [at |-> to, batch |-> worker[w].batch]
  BY <1>1
<1>3. \A e : [worker[w] EXCEPT !.batch = @ \ {e}]
              = [at |-> worker[w].at, batch |-> worker[w].batch \ {e}]
  BY <1>1
<1> QED BY <1>1, <1>2, <1>3 DEF Goes

\* What a worker's step has to show: rows are only added, its own new batch
\* is ready for the command it goes to, and no entry is forgotten.
LEMMA WorkerMoves ==
    ASSUME IInv, NEW w \in Workers, NEW at \in {"pending", "read", "parse", "insert", "ack"},
           last' = last, delivered' \in delivered..last,
           NEW batch \in SUBSET (1..delivered'),
           worker' = [worker EXCEPT ![w] = [at |-> at, batch |-> batch]],
           pending' \subseteq 1..delivered', stale' \subseteq pending',
           dead' \subseteq 1..delivered', dead' \subseteq Malformed,
           logs \subseteq logs', logs' \subseteq 1..delivered', logs' \cap Malformed = {},
           AckedIsKept',
           at = "ack" => batch \subseteq logs',
           at \in {"insert", "ack"} => batch \cap Malformed = {}
    PROVE  IInv'
<1>1. last \in Nat /\ delivered \in Nat /\ delivered' \in Nat /\ delivered <= delivered'
  BY BoundsAssumption DEF IInv, TypeOK
<1>2. /\ worker' \in [Workers -> [at: {"pending", "read", "parse", "insert", "ack"},
                                 batch: SUBSET (1..delivered')]]
      /\ worker'[w] = [at |-> at, batch |-> batch]
      /\ \A v \in Workers \ {w} : worker'[v] = worker[v]
  BY <1>1, WorkerTyped DEF IInv
<1>3. TypeOK'
  <2>1. last' \in 0..MaxEntries /\ delivered' \in 0..last'
    BY <1>1 DEF IInv, TypeOK
  <2> QED BY <1>2, <2>1 DEF TypeOK
<1>4. BatchesAreReady'
  <2> SUFFICES ASSUME NEW v \in Workers
               PROVE  /\ worker'[v].at = "ack" => worker'[v].batch \subseteq logs'
                      /\ worker'[v].at \in {"insert", "ack"} =>
                            worker'[v].batch \cap Malformed = {}
    BY DEF BatchesAreReady
  <2>1. CASE v = w
    BY <1>2, <2>1
  <2>2. CASE v # w
    BY <1>2, <2>2 DEF IInv, BatchesAreReady
  <2> QED BY <2>1, <2>2
<1>5. DeadAreMalformed'
  BY DEF DeadAreMalformed
<1> QED BY <1>3, <1>4, <1>5 DEF IInv

LEMMA ReadingKeepsIInv ==
    ASSUME IInv, NEW w \in Workers, ReadPending(w) \/ Read(w)
    PROVE  IInv'
<1>1. /\ last \in Nat /\ delivered \in Nat /\ delivered <= last
      /\ delivered \in delivered..last
  BY BoundsAssumption DEF IInv, TypeOK
<1>2. worker[w].batch \in SUBSET (1..delivered)
  BY FieldUpdates DEF IInv
<1>3. CASE ReadPending(w)
  <2>1. PICK at \in {"read", "parse"}, batch \in SUBSET (1..delivered) :
           worker' = [worker EXCEPT ![w] = [at |-> at, batch |-> batch]]
    <3>1. CASE Claimable = {}
      <4>1. Goes(w, "read")
        BY <1>3, <3>1 DEF ReadPending
      <4> QED BY <1>2, <4>1, FieldUpdates DEF IInv
    <3>2. CASE Claimable # {}
      <4>1. Claimable \in SUBSET (1..delivered)
        BY DEF Claimable, Oldest, IInv, TypeOK
      <4> QED BY <1>3, <3>2, <4>1 DEF ReadPending, Takes
    <3> QED BY <3>1, <3>2
  <2>2. AckedIsKept'
    BY <1>3 DEF ReadPending, IInv, AckedIsKept
  <2> QED
    BY <1>1, <1>3, <2>1, <2>2, WorkerMoves DEF ReadPending, IInv, TypeOK, DeadAreMalformed
<1>4. CASE Read(w)
  <2> DEFINE new == Oldest((delivered + 1)..last)
  <2>1. /\ delivered' \in delivered..last
        /\ new = (delivered + 1)..delivered'
    BY <1>1, <1>4, OldestOfInterval DEF Read, Position
  <2>2. pending' = pending \cup new /\ worker' =
          [worker EXCEPT ![w] = IF new = {} THEN Resting ELSE [at |-> "parse", batch |-> new]]
    BY <1>4 DEF Read, Takes, Rests
  <2> HIDE DEF new
  <2>3. 1..delivered \subseteq 1..delivered' /\ new \in SUBSET (1..delivered')
    BY <1>1, <2>1
  <2>4. PICK at \in {"pending", "parse"}, batch \in SUBSET (1..delivered') :
           worker' = [worker EXCEPT ![w] = [at |-> at, batch |-> batch]]
    BY <2>2, <2>3 DEF Resting
  <2>5. (1..delivered') \ pending' = (1..delivered) \ pending
    BY <1>1, <2>1, <2>2
  <2>6. AckedIsKept'
    BY <1>4, <2>5 DEF Read, IInv, AckedIsKept
  <2>7. pending \subseteq 1..delivered /\ dead \subseteq 1..delivered /\ logs \subseteq 1..delivered
        /\ stale \subseteq pending
    BY DEF IInv, TypeOK
  <2> QED
    BY <1>4, <2>1, <2>2, <2>3, <2>4, <2>6, <2>7, WorkerMoves DEF Read, IInv, DeadAreMalformed
<1> QED BY <1>3, <1>4

LEMMA ParsingKeepsIInv ==
    ASSUME IInv, NEW w \in Workers, DeadLetter(w) \/ DeadLetterFails(w) \/ Parsed(w)
    PROVE  IInv'
<1>1. last \in Nat /\ delivered \in delivered..last
  BY BoundsAssumption DEF IInv, TypeOK
<1>2. worker[w].batch \in SUBSET (1..delivered)
  BY FieldUpdates DEF IInv
<1>3. CASE DeadLetter(w)
  <2>1. PICK e \in Entries : /\ FirstUnparsable(w, e)
                             /\ dead' = dead \cup {e}
                             /\ pending' = pending \ {e}
                             /\ stale' = stale \ {e}
                             /\ worker' = [worker EXCEPT ![w].batch = @ \ {e}]
    BY <1>3 DEF DeadLetter
  <2>2. e \in worker[w].batch /\ e \in Malformed /\ e \in 1..delivered
    BY <1>2, <2>1 DEF FirstUnparsable, Unparsable
  <2>3. worker' = [worker EXCEPT ![w] = [at |-> "parse", batch |-> worker[w].batch \ {e}]]
    BY <1>3, <2>1, FieldUpdates DEF IInv, DeadLetter
  <2>4. AckedIsKept'
    BY <1>3, <2>1 DEF DeadLetter, IInv, AckedIsKept
  <2>5. last' = last /\ delivered' = delivered /\ logs' = logs
    BY <1>3 DEF DeadLetter
  <2>6. /\ pending' \subseteq 1..delivered
        /\ stale' \subseteq pending'
        /\ dead' \subseteq 1..delivered /\ dead' \subseteq Malformed
        /\ logs \subseteq 1..delivered /\ logs \cap Malformed = {}
    BY <2>1, <2>2 DEF IInv, TypeOK, DeadAreMalformed
  <2> DEFINE rest == worker[w].batch \ {e}
  <2>7. /\ rest \in SUBSET (1..delivered')
        /\ worker' = [worker EXCEPT ![w] = [at |-> "parse", batch |-> rest]]
    BY <1>2, <2>3, <2>5
  <2> HIDE DEF rest
  <2>8. delivered' \in delivered..last
    BY <1>1, <2>5
  <2>9. /\ pending' \subseteq 1..delivered' /\ dead' \subseteq 1..delivered'
        /\ logs \subseteq logs' /\ logs' \subseteq 1..delivered' /\ logs' \cap Malformed = {}
    BY <2>5, <2>6
  <2> QED
    BY <2>4, <2>5, <2>6, <2>7, <2>8, <2>9, WorkerMoves
<1>4. CASE DeadLetterFails(w)
  <2>1. PICK e \in Entries : FirstUnparsable(w, e) /\ dead' = dead \cup {e}
    BY <1>4 DEF DeadLetterFails
  <2>2. e \in Malformed /\ e \in 1..delivered
    BY <1>2, <2>1 DEF FirstUnparsable, Unparsable
  <2>3. worker' = [worker EXCEPT ![w] = [at |-> "pending", batch |-> {}]]
    BY <1>4 DEF DeadLetterFails, Rests, Resting
  <2>4. AckedIsKept'
    BY <1>4, <2>1 DEF DeadLetterFails, IInv, AckedIsKept
  <2> QED
    BY <1>1, <1>4, <2>1, <2>2, <2>3, <2>4, WorkerMoves
    DEF DeadLetterFails, IInv, TypeOK, DeadAreMalformed
<1>5. CASE Parsed(w)
  <2>1. PICK at \in {"pending", "insert"} :
           worker' = [worker EXCEPT ![w] = [at |-> at, batch |-> worker[w].batch]]
    <3>1. CASE worker[w].batch = {}
      BY <1>5, <3>1 DEF Parsed, Rests, Resting
    <3>2. CASE worker[w].batch # {}
      BY <1>5, <3>2, FieldUpdates DEF Parsed, IInv
    <3> QED BY <3>1, <3>2
  <2>2. worker[w].batch \cap Malformed = {}
    BY <1>5 DEF Parsed, Unparsable
  <2>3. AckedIsKept'
    BY <1>5 DEF Parsed, IInv, AckedIsKept
  <2> QED
    BY <1>1, <1>2, <1>5, <2>1, <2>2, <2>3, WorkerMoves
    DEF Parsed, IInv, TypeOK, DeadAreMalformed
<1> QED BY <1>3, <1>4, <1>5

LEMMA StoringKeepsIInv ==
    ASSUME IInv, NEW w \in Workers, Insert(w) \/ Ack(w) \/ Fails(w)
    PROVE  IInv'
<1>1. last \in Nat /\ delivered \in delivered..last
  BY BoundsAssumption DEF IInv, TypeOK
<1>2. worker[w].batch \in SUBSET (1..delivered)
  BY FieldUpdates DEF IInv
<1>3. CASE Insert(w)
  <2>1. worker' = [worker EXCEPT ![w] = [at |-> "ack", batch |-> worker[w].batch]]
    BY <1>3, FieldUpdates DEF Insert, IInv
  <2>2. worker[w].batch \cap Malformed = {}
    BY <1>3 DEF Insert, IInv, BatchesAreReady
  <2>3. AckedIsKept'
    BY <1>3 DEF Insert, IInv, AckedIsKept
  <2> QED
    BY <1>1, <1>2, <1>3, <2>1, <2>2, <2>3, WorkerMoves
    DEF Insert, IInv, TypeOK, DeadAreMalformed
<1>4. CASE Ack(w)
  <2>1. worker' = [worker EXCEPT ![w] = [at |-> "pending", batch |-> {}]]
    BY <1>4 DEF Ack, Rests, Resting
  <2>2. worker[w].batch \subseteq logs
    BY <1>4 DEF Ack, IInv, BatchesAreReady
  <2>3. AckedIsKept'
    BY <1>4, <2>2 DEF Ack, IInv, AckedIsKept
  <2> QED
    BY <1>1, <1>4, <2>1, <2>3, WorkerMoves DEF Ack, IInv, TypeOK, DeadAreMalformed
<1>5. CASE Fails(w)
  <2>1. worker' = [worker EXCEPT ![w] = [at |-> "pending", batch |-> {}]]
    BY <1>5 DEF Fails, Rests, Resting
  <2>2. /\ logs \subseteq logs'
        /\ logs' \subseteq 1..delivered
        /\ logs' \cap Malformed = {}
    <3>1. CASE UNCHANGED logs
      BY <3>1 DEF IInv, TypeOK, DeadAreMalformed
    <3>2. CASE worker[w].at = "insert" /\ logs' = logs \cup worker[w].batch
      BY <1>2, <3>2 DEF IInv, TypeOK, DeadAreMalformed, BatchesAreReady
    <3> QED BY <1>5, <3>1, <3>2 DEF Fails
  <2>3. AckedIsKept'
    BY <1>5, <2>2 DEF Fails, IInv, AckedIsKept
  <2> QED
    BY <1>1, <1>5, <2>1, <2>2, <2>3, WorkerMoves DEF Fails, IInv, TypeOK, DeadAreMalformed
<1> QED BY <1>3, <1>4, <1>5

LEMMA StepKeepsIInv == IInv /\ [Next]_vars => IInv'
<1> SUFFICES ASSUME IInv, [Next]_vars PROVE IInv'
  OBVIOUS
<1>1. CASE Append
  <2>1. last' \in 0..MaxEntries /\ delivered \in 0..last'
    BY <1>1, BoundsAssumption DEF Append, IInv, TypeOK
  <2> QED
    BY <1>1, <2>1
    DEF Append, IInv, TypeOK, BatchesAreReady, AckedIsKept, DeadAreMalformed
<1>2. ASSUME NEW w \in Workers, WorkerStep(w) \/ DeadLetterFails(w) \/ Fails(w)
      PROVE  IInv'
  BY <1>2, ReadingKeepsIInv, ParsingKeepsIInv, StoringKeepsIInv DEF WorkerStep
<1>3. ASSUME NEW e \in Entries, GrowsStale(e)
      PROVE  IInv'
  BY <1>3 DEF GrowsStale, IInv, TypeOK, BatchesAreReady, AckedIsKept, DeadAreMalformed
<1>4. CASE UNCHANGED vars
  BY <1>4 DEF vars, IInv, TypeOK, BatchesAreReady, AckedIsKept, DeadAreMalformed
<1> QED BY <1>1, <1>2, <1>3, <1>4 DEF Next

LEMMA IInvHolds == SafeSpec => []IInv
<1> QED BY InitIInv, StepKeepsIInv, PTL DEF SafeSpec

-----------------------------------------------------------------------------
(* What follows from it.                                                   *)

\* Stream positions, row sets and batches keep their types.
THEOREM TypeCorrect == SafeSpec => []TypeOK
<1>1. IInv => TypeOK
  BY DEF IInv
<1> QED BY <1>1, IInvHolds, PTL

\* Nothing a worker acknowledged is lost, whatever fails and when.
THEOREM AckedIsKeptHolds == SafeSpec => []AckedIsKept
<1>1. IInv => AckedIsKept
  BY DEF IInv
<1> QED BY <1>1, IInvHolds, PTL

\* The dead letters hold malformed entries and nothing else, and bid_logs
\* holds none of them.
THEOREM DeadAreMalformedHolds == SafeSpec => []DeadAreMalformed
<1>1. IInv => DeadAreMalformed
  BY DEF IInv
<1> QED BY <1>1, IInvHolds, PTL

\* A drained stream is wholly in MySQL: the failback may rebuild from there.
THEOREM DrainedIsCompleteHolds == SafeSpec => []DrainedIsComplete
<1>1. IInv => DrainedIsComplete
  BY DEF IInv, DrainedIsComplete, Drained, AckedIsKept, DeadAreMalformed
<1> QED BY <1>1, IInvHolds, PTL

-----------------------------------------------------------------------------
(* The refinement of DurableLog.                                           *)

Queued == pending \cup (delivered + 1)..last
Kept   == logs \cup dead

\* What is given out and not kept is queued.
LEMMA LostOrQueued ==
    ASSUME IInv, NEW S, S \subseteq 1..delivered
    PROVE  S \ Kept \subseteq Queued
  BY DEF IInv, AckedIsKept, Kept, Queued

\* A step that accepts nothing is Work if entries are kept for good and leave
\* the queue only when they are.
LEMMA IsWork ==
    ASSUME last' = last, Kept \subseteq Kept', Kept' \ Kept \subseteq Queued,
           Queued' \subseteq Queued, Queued \ Queued' \subseteq Kept'
    PROVE  Log!Next
<1>1. PICK S, T : S = Kept' \ Kept /\ T = Queued \ Queued'
  OBVIOUS
<1>2. S \in SUBSET Queued /\ T \in SUBSET Queued
  BY <1>1
<1>3. T \subseteq Kept \cup S /\ Kept' = Kept \cup S /\ Queued' = Queued \ T
  BY <1>1
<1>4. Log!Work(S, T)
  BY <1>3 DEF Log!Work, Kept, Queued
<1> QED BY <1>2, <1>4 DEF Log!Next, Kept, Queued

\* A step that changes neither the queue nor what is kept.
LEMMA IsStutter ==
    ASSUME last' = last, Kept' = Kept, Queued' = Queued
    PROVE  UNCHANGED Log!vars
  BY DEF Log!vars, Kept, Queued

LEMMA StepRefines == IInv /\ [Next]_vars => [Log!Next]_Log!vars
<1> SUFFICES ASSUME IInv, [Next]_vars PROVE [Log!Next]_Log!vars
  OBVIOUS
<1>0. /\ last \in Nat /\ delivered \in Nat /\ delivered <= last
      /\ last <= MaxEntries /\ MaxEntries \in Nat
      /\ pending \subseteq 1..delivered
  BY BoundsAssumption DEF IInv, TypeOK
<1>1. CASE Append
  <2>1. /\ last' = last + 1 /\ last + 1 \in Entries /\ last + 1 \notin 1..last
        /\ UNCHANGED <<delivered, pending, dead, logs>>
    BY <1>0, <1>1 DEF Append, Entries
  <2>2. 1..last' = (1..last) \cup {last + 1}
    BY <1>0, <2>1
  <2>3. (delivered + 1)..last' = ((delivered + 1)..last) \cup {last + 1}
    BY <1>0, <2>1
  <2>4. delivered' = delivered
    BY <2>1
  <2>5. Queued' = Queued \cup {last + 1}
    BY <2>1, <2>3, <2>4 DEF Queued
  <2>6. Log!Accept(last + 1)
    BY <2>1, <2>2, <2>5 DEF Log!Accept, Queued
  <2> QED BY <2>1, <2>6 DEF Log!Next
<1>2. ASSUME NEW w \in Workers, ReadPending(w) \/ Parsed(w)
      PROVE  UNCHANGED Log!vars
  BY <1>2, IsStutter DEF ReadPending, Parsed, Kept, Queued
<1>3. ASSUME NEW w \in Workers, Read(w)
      PROVE  UNCHANGED Log!vars
  <2> DEFINE new == Oldest((delivered + 1)..last)
  <2>1. delivered' \in delivered..last /\ new = (delivered + 1)..delivered'
    BY <1>0, <1>3, OldestOfInterval DEF Read, Position
  <2>2. /\ pending' = pending \cup new
        /\ UNCHANGED <<last, dead, logs>>
    BY <1>3 DEF Read
  <2> HIDE DEF new
  <2>3. (delivered + 1)..last = ((delivered + 1)..delivered') \cup (delivered' + 1)..last
    BY <1>0, <2>1
  <2>4. Queued' = Queued /\ Kept' = Kept
    BY <2>1, <2>2, <2>3 DEF Queued, Kept
  <2> QED BY <2>2, <2>4, IsStutter
<1>4. ASSUME NEW w \in Workers, DeadLetter(w) \/ DeadLetterFails(w)
      PROVE  Log!Next
  <2>1. PICK e \in Entries : /\ FirstUnparsable(w, e)
                             /\ dead' = dead \cup {e}
                             /\ pending' \in {pending, pending \ {e}}
                             /\ UNCHANGED <<last, delivered, logs>>
    BY <1>4 DEF DeadLetter, DeadLetterFails
  <2>2. e \in 1..delivered /\ e \notin (delivered + 1)..last
    <3>1. worker[w].batch \in SUBSET (1..delivered)
      BY FieldUpdates DEF IInv
    <3> QED BY <1>0, <2>1, <3>1 DEF FirstUnparsable, Unparsable
  <2>3. Kept' = Kept \cup {e} /\ {e} \ Kept \subseteq Queued
    BY <2>1, <2>2, LostOrQueued DEF Kept
  <2>4. Queued' \subseteq Queued /\ Queued \ Queued' \subseteq {e}
    BY <2>1, <2>2 DEF Queued
  <2> QED BY <2>1, <2>3, <2>4, IsWork
<1>5. ASSUME NEW w \in Workers, Insert(w) \/ Fails(w)
      PROVE  Log!Next
  <2>1. /\ logs' \in {logs, logs \cup worker[w].batch}
        /\ UNCHANGED <<last, delivered, pending, dead>>
    BY <1>5 DEF Insert, Fails
  <2>2. worker[w].batch \subseteq 1..delivered
    BY FieldUpdates DEF IInv
  <2>3. Kept \subseteq Kept' /\ Kept' \ Kept \subseteq worker[w].batch \ Kept
    BY <2>1 DEF Kept
  <2>4. Queued' = Queued /\ worker[w].batch \ Kept \subseteq Queued
    BY <2>1, <2>2, LostOrQueued DEF Queued
  <2>5. last' = last
    BY <2>1
  <2> QED BY <2>3, <2>4, <2>5, IsWork
<1>6. ASSUME NEW w \in Workers, Ack(w)
      PROVE  Log!Next
  <2>1. /\ pending' = pending \ worker[w].batch
        /\ UNCHANGED <<last, delivered, dead, logs>>
    BY <1>6 DEF Ack
  <2>2. worker[w].batch \subseteq logs /\ worker[w].batch \subseteq 1..delivered
    BY <1>6, FieldUpdates DEF Ack, IInv, BatchesAreReady
  <2>3. \A e \in worker[w].batch : e \notin (delivered + 1)..last
    BY <1>0, <2>2
  <2>4. Queued' \subseteq Queued /\ Queued \ Queued' \subseteq logs
    BY <2>1, <2>2, <2>3 DEF Queued
  <2>5. Kept' = Kept /\ logs \subseteq Kept /\ last' = last
    BY <2>1 DEF Kept
  <2> QED BY <2>4, <2>5, IsWork
<1>7. ASSUME NEW e \in Entries, GrowsStale(e)
      PROVE  UNCHANGED Log!vars
  BY <1>7, IsStutter DEF GrowsStale, Kept, Queued
<1>8. CASE UNCHANGED vars
  BY <1>8, IsStutter DEF vars, Kept, Queued
<1> QED
  BY <1>1, <1>2, <1>3, <1>4, <1>5, <1>6, <1>7, <1>8 DEF Next, WorkerStep

\* Whatever workers crash, claim from each other or try twice: an entry is
\* queued from its acceptance on until it is kept, and is kept for ever.
THEOREM ImplementsDurableLogHolds == SafeSpec => ImplementsDurableLog
<1>1. Init => Log!Init
  BY DEF Init, Log!Init
<1> QED BY <1>1, StepRefines, IInvHolds, PTL DEF SafeSpec, ImplementsDurableLog, Log!SafeSpec

\* Every entry of the stream is still queued or kept, and nothing else is: what the
\* abstract log owes to its steps carries over.
THEOREM NothingIsLostHolds == SafeSpec => []Log!NothingIsLost
<1>1. Log!Init => Log!NothingIsLost
  BY DEF Log!Init, Log!NothingIsLost
<1>2. Log!NothingIsLost /\ [Log!Next]_Log!vars => Log!NothingIsLost'
  BY DEF Log!NothingIsLost, Log!Next, Log!Accept, Log!Work, Log!vars
<1> QED
  BY <1>1, <1>2, ImplementsDurableLogHolds, PTL DEF ImplementsDurableLog, Log!SafeSpec
=============================================================================
