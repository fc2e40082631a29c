---------------------------- MODULE SignalsProofs ---------------------------
(***************************************************************************)
(* Proofs about Signals, for any number of signals, attempts, rows in a    *)
(* batch, flushes and crashes: type correctness, and that no signal is     *)
(* forgotten or doubled without a reason.                                  *)
(***************************************************************************)
EXTENDS Signals, TLAPS

USE SignalAssumption, BoundAssumption DEF SignalAssumption, BoundAssumption

\* The rows the worker has taken, posted or not.
Batch == worker.todo \cup worker.sent \cup worker.failed

\* Where a send request is that has no row in the queue, and none to come.
Before == {"idle", "enqueue", "error"}

Worker_ == [pc : {"rest", "work"}, todo : SUBSET RowId, sent : SUBSET RowId,
            failed : SUBSET RowId]

Types == /\ send \in [Signal -> Before \cup {"stored", "queued"}]
         /\ copies \in [Signal -> Nat]
         /\ status \in [Signal -> {"none", "pending", "sent", "dead"}]
         /\ attempts \in [Signal -> 0..max_attempts]
         /\ id \in [Signal -> Nat]
         /\ due \subseteq Signal
         /\ worker \in Worker_
         /\ unsure \in [Signal -> Nat]
         /\ dropped \subseteq Signal
         /\ mixed \in BOOLEAN
         /\ faults \in 0..MaxFaults

\* The queue: only a queued signal ever has a row, a flushed one never again,
\* a waiting one has attempts left, and no two rows have one id.
Queue == /\ \A s \in Signal : send[s] # "queued" => status[s] = "none" /\ attempts[s] = 0
         /\ \A s \in dropped : send[s] = "queued" /\ status[s] = "none"
         /\ \A s \in Signal : status[s] = "pending" => attempts[s] < max_attempts
         /\ \A s, x \in Rows : id[s] = id[x] => s = x

\* The batch: rows as they were read, which since then may only have gone.
Taken == /\ \A r \in Batch : /\ r = <<id[r[2]], r[2]>>
                             /\ send[r[2]] = "queued"
                             /\ status[r[2]] \in {"pending", "none"}
                             /\ attempts[r[2]] < max_attempts
         /\ worker.todo \cap (worker.sent \cup worker.failed) = {}
         /\ worker.sent \cap worker.failed = {}
         /\ worker.pc = "rest" => worker = Rest

\* How many copies there may be: one more than the unsure posts only after a
\* success that was, or is about to be, written down.
Counts == /\ \A s \in Signal : copies[s] <= unsure[s] + 1
          /\ \A s \in Signal : send[s] \in Before => copies[s] <= unsure[s]
          /\ \A s \in Signal : status[s] = "pending" /\ (\A r \in worker.sent : r[2] # s)
                                 => copies[s] <= unsure[s]
          /\ \A r \in worker.todo \cup worker.failed : copies[r[2]] <= unsure[r[2]]

\* What a success stands for.
Arrived == \A r \in worker.sent : copies[r[2]] > 0

IInv == Types /\ Queue /\ Taken /\ Counts /\ Arrived /\ NotForgotten

LEMMA InitIInv == Init => IInv
  <1> SUFFICES ASSUME Init PROVE IInv
    OBVIOUS
  <1> USE DEF Init, Rest
  <1>1. Types
    <2>1. 0 \in 0..max_attempts /\ 0 \in 0..MaxFaults
      OBVIOUS
    <2>2. worker \in Worker_
      BY DEF Worker_
    <2> QED BY <2>1, <2>2 DEF Types, Before
  <1>2. Queue /\ Taken /\ Counts /\ Arrived
    BY DEF Queue, Taken, Counts, Arrived, Rows, Batch
  <1>3. NotForgotten
    BY DEF NotForgotten
  <1> QED BY <1>1, <1>2, <1>3 DEF IInv

\* A post adds one copy at most, and an unsure post along with it if it fails.
LEMMA PostCounts ==
  ASSUME Types, NEW s \in Signal
  PROVE  /\ PostOk(s) =>
              /\ copies' = [copies EXCEPT ![s] = copies[s] + 1] /\ unsure' = unsure
              /\ copies' \in [Signal -> Nat] /\ unsure' \in [Signal -> Nat]
         /\ PostFails(s) =>
              /\ copies' \in [Signal -> Nat] /\ unsure' \in [Signal -> Nat]
              /\ \A x \in Signal : x # s => copies'[x] = copies[x] /\ unsure'[x] = unsure[x]
              /\ copies'[s] >= copies[s]
              /\ \A k \in {0, 1} : copies[s] <= unsure[s] + k => copies'[s] <= unsure'[s] + k
  BY DEF Types, PostOk, PostFails, Arrives

LEMMA SendStep ==
  ASSUME IInv, NEW s \in Signal, SendLocal(s) \/ SendForward(s)
  PROVE  IInv'
  <1> USE DEF IInv
  <1>1. /\ send[s] = "idle"
        /\ \/ PostOk(s) /\ send' = [send EXCEPT ![s] = "stored"]
           \/ PostFails(s) /\ send' = [send EXCEPT ![s] = "enqueue"]
        /\ UNCHANGED <<status, attempts, id, due, worker, dropped, mixed, faults>>
    BY DEF SendLocal, SendForward, SendTo, queue
  <1>2. Rows' = Rows /\ Batch' = Batch
    BY <1>1 DEF Rows, Batch
  <1>3. \A r \in Batch : r[2] \in Signal /\ r[2] # s
    BY <1>1 DEF Batch, Types, Taken, Worker_, RowId
  <1>4. Queue' /\ Taken'
    BY <1>1, <1>2, <1>3 DEF Queue, Taken, Types
  <1>5. CASE PostOk(s) /\ send' = [send EXCEPT ![s] = "stored"]
    <2>1. /\ copies' = [copies EXCEPT ![s] = copies[s] + 1] /\ unsure' = unsure
          /\ copies' \in [Signal -> Nat]
      BY <1>5, PostCounts
    <2>2. Types'
      BY <1>1, <1>5, <2>1 DEF Types, Before
    <2>3. status[s] = "none" /\ copies[s] <= unsure[s]
      BY <1>1 DEF Queue, Counts, Before
    <2>4. Counts' /\ Arrived'
      BY <1>1, <1>3, <1>5, <2>1, <2>3 DEF Counts, Arrived, Types, Batch, Before
    <2>5. NotForgotten'
      BY <1>1, <1>5, <2>1 DEF NotForgotten, Types
    <2> QED BY <1>4, <2>2, <2>4, <2>5
  <1>6. CASE PostFails(s) /\ send' = [send EXCEPT ![s] = "enqueue"]
    <2>1. /\ copies' \in [Signal -> Nat] /\ unsure' \in [Signal -> Nat]
          /\ \A x \in Signal : x # s => copies'[x] = copies[x] /\ unsure'[x] = unsure[x]
          /\ \A k \in {0, 1} : copies[s] <= unsure[s] + k => copies'[s] <= unsure'[s] + k
      BY <1>6, PostCounts
    <2>2. Types'
      BY <1>1, <1>6, <2>1 DEF Types, Before
    <2>3. status[s] = "none" /\ copies[s] <= unsure[s]
      BY <1>1 DEF Queue, Counts, Before
    <2>4. copies'[s] <= unsure'[s]
      BY <2>1, <2>3 DEF Types
    <2>5. Counts' /\ Arrived'
      BY <1>1, <1>3, <1>6, <2>1, <2>3, <2>4 DEF Counts, Arrived, Types, Batch, Before
    <2>6. NotForgotten'
      BY <1>1, <1>6, <2>1 DEF NotForgotten, Types
    <2> QED BY <1>4, <2>2, <2>5, <2>6
  <1> QED BY <1>1, <1>5, <1>6

LEMMA EnqueueStep == ASSUME IInv, NEW s \in Signal, Enqueue(s) PROVE IInv'
  <1> USE DEF IInv
  <1>1. PICK i \in Nat :
          /\ send[s] = "enqueue" /\ send' = [send EXCEPT ![s] = "queued"]
          /\ status' = [status EXCEPT ![s] = "pending"]
          /\ \A x \in Rows : id[x] < i
          /\ id' = [id EXCEPT ![s] = i]
          /\ UNCHANGED <<copies, attempts, due, worker, unsure, dropped, mixed, faults>>
    <2>1. \A x \in Rows : id[x] + 1 \in Nat
      BY DEF Types, Rows
    <2> QED BY <2>1 DEF Enqueue, SendTo
  <1>2. Types'
    BY <1>1 DEF Types
  <1>3. status[s] = "none" /\ s \notin Rows /\ attempts[s] = 0 /\ copies[s] <= unsure[s]
    BY <1>1 DEF Queue, Counts, Before, Rows
  <1>4. Batch' = Batch /\ \A r \in Batch : r[2] \in Signal /\ r[2] # s
    BY <1>1 DEF Batch, Types, Taken, Worker_, RowId
  <1>5. \A x \in Signal : x \in Rows' => x = s \/ x \in Rows
    BY <1>1 DEF Rows, Types
  <1>6. s \notin dropped
    BY <1>1 DEF Queue
  <1>7. Queue'
    <2>1. \A x \in Signal : send'[x] # "queued" => status'[x] = "none" /\ attempts'[x] = 0
      BY <1>1 DEF Queue, Types
    <2>2. \A x \in dropped' : send'[x] = "queued" /\ status'[x] = "none"
      BY <1>1, <1>6 DEF Queue, Types
    <2>3. \A x \in Signal : status'[x] = "pending" => attempts'[x] < max_attempts
      BY <1>1, <1>3 DEF Queue, Types
    <2>4. ASSUME NEW x \in Rows', NEW y \in Rows', id'[x] = id'[y] PROVE x = y
      <3>1. x \in Signal /\ y \in Signal
        BY DEF Rows
      <3>2. \A z \in Rows : z \in Signal /\ id[z] \in Nat /\ id[z] < i
        BY <1>1 DEF Types, Rows
      <3> QED BY <1>1, <1>3, <1>5, <2>4, <3>1, <3>2 DEF Queue, Types
    <2> QED BY <2>1, <2>2, <2>3, <2>4 DEF Queue
  <1>8. Taken'
    BY <1>1, <1>4 DEF Taken, Types
  <1>9. Counts' /\ Arrived'
    BY <1>1, <1>3, <1>4 DEF Counts, Arrived, Batch, Types, Before
  <1>10. NotForgotten'
    BY <1>1 DEF NotForgotten, Types
  <1> QED BY <1>2, <1>7, <1>8, <1>9, <1>10

LEMMA ElapseStep == ASSUME IInv, NEW s \in Signal, Elapse(s) PROVE IInv'
  <1>1. /\ due' = due \cup {s}
        /\ UNCHANGED <<send, copies, status, attempts, id, worker, unsure, dropped, mixed, faults>>
    BY DEF Elapse
  <1>2. Rows' = Rows /\ Batch' = Batch
    BY <1>1 DEF Rows, Batch
  <1>3. Types'
    BY <1>1 DEF IInv, Types
  <1>4. Queue' /\ Taken'
    BY <1>1, <1>2 DEF IInv, Queue, Taken
  <1>5. Counts' /\ Arrived' /\ NotForgotten'
    BY <1>1 DEF IInv, Counts, Arrived, NotForgotten
  <1> QED BY <1>3, <1>4, <1>5 DEF IInv

LEMMA BatchStep == ASSUME IInv, BatchRead PROVE IInv'
  <1> USE DEF IInv
  <1>1. PICK B \in SUBSET Signal :
          /\ B \subseteq DueRows
          /\ worker' = [pc |-> "work", todo |-> {<<id[s], s>> : s \in B},
                        sent |-> {}, failed |-> {}]
    BY DEF BatchRead, IsBatch, Rest
  <1>2. UNCHANGED <<send, copies, status, attempts, id, due, unsure, dropped, mixed, faults>>
    BY DEF BatchRead, queue
  <1>3. \A r \in worker'.todo : \E s \in B : r = <<id[s], s>>
    BY <1>1
  <1>4. \A s \in B : s \in Signal /\ status[s] = "pending"
    BY <1>1 DEF DueRows
  <1>5. \A r \in worker'.todo : r[2] \in B /\ r = <<id[r[2]], r[2]>>
    BY <1>3
  <1>6. worker'.sent = {} /\ worker'.failed = {} /\ Batch' = worker'.todo
    BY <1>1 DEF Batch
  <1>7. Types'
    <2>1. worker'.todo \subseteq RowId
      BY <1>3, <1>4 DEF Types, RowId
    <2>2. worker' \in Worker_
      BY <1>1, <2>1 DEF Worker_
    <2> QED BY <1>2, <2>2 DEF Types
  <1>8. Queue'
    BY <1>2 DEF Queue, Rows
  <1>9. Taken'
    <2>1. \A s \in B : send[s] = "queued" /\ attempts[s] < max_attempts
      BY <1>4 DEF Queue
    <2>2. ASSUME NEW r \in Batch'
          PROVE  /\ r = <<id'[r[2]], r[2]>>
                 /\ send'[r[2]] = "queued"
                 /\ status'[r[2]] \in {"pending", "none"}
                 /\ attempts'[r[2]] < max_attempts
      BY <1>2, <1>4, <1>5, <1>6, <2>1
    <2>3. worker'.pc = "work"
      BY <1>1
    <2> QED BY <1>6, <2>2, <2>3 DEF Taken
  <1>10. Counts'
    <2>1. worker.sent = {}
      BY DEF BatchRead, Taken, Rest
    <2>2. \A s \in B : copies[s] <= unsure[s]
      BY <1>4, <2>1 DEF Counts
    <2> QED BY <1>2, <1>5, <1>6, <2>1, <2>2 DEF Counts
  <1>11. Arrived' /\ NotForgotten'
    BY <1>2, <1>6 DEF Arrived, NotForgotten
  <1> QED BY <1>7, <1>8, <1>9, <1>10, <1>11

\* One row is posted; the rest of the batch is as it was.
LEMMA WorkStep == ASSUME IInv, WorkPost PROVE IInv'
  <1> USE DEF IInv
  <1>1. PICK r \in worker.todo :
          \/ /\ PostOk(r[2])
             /\ worker' = [worker EXCEPT !.todo = worker.todo \ {r},
                                         !.sent = worker.sent \cup {r}]
          \/ /\ PostFails(r[2])
             /\ worker' = [worker EXCEPT !.todo = worker.todo \ {r},
                                         !.failed = worker.failed \cup {r}]
    BY DEF WorkPost
  <1>2. /\ UNCHANGED <<send, status, attempts, id, due, dropped, mixed, faults>>
        /\ worker.pc = "work"
    BY DEF WorkPost, queue
  <1>3. /\ r \in RowId /\ r[2] \in Signal /\ r \in Batch
        /\ send[r[2]] = "queued" /\ status[r[2]] \in {"pending", "none"}
        /\ copies[r[2]] <= unsure[r[2]]
    BY DEF Types, Worker_, RowId, Batch, Taken, Counts
  <1>4. \A x \in Batch : x # r => x[2] \in Signal /\ x[2] # r[2]
    BY <1>3 DEF Batch, Taken, Types, Worker_, RowId
  <1>5. Queue'
    BY <1>2 DEF Queue, Rows
  <1>6. CASE /\ PostOk(r[2])
             /\ worker' = [worker EXCEPT !.todo = worker.todo \ {r},
                                         !.sent = worker.sent \cup {r}]
    <2>1. /\ worker'.pc = "work" /\ worker'.todo = worker.todo \ {r}
          /\ worker'.sent = worker.sent \cup {r} /\ worker'.failed = worker.failed
          /\ worker' \in Worker_
      BY <1>2, <1>3, <1>6 DEF Types, Worker_
    <2>2. /\ copies' = [copies EXCEPT ![r[2]] = copies[r[2]] + 1] /\ unsure' = unsure
          /\ copies' \in [Signal -> Nat]
      BY <1>3, <1>6, PostCounts
    <2>3. Types'
      BY <1>2, <2>1, <2>2 DEF Types
    <2>4. Batch' = Batch
      BY <1>3, <2>1 DEF Batch
    <2>5. Taken'
      BY <1>2, <2>1, <2>4 DEF Taken
    <2>6. Counts'
      <3>1. \A s \in Signal : copies'[s] <= unsure'[s] + 1
        BY <1>3, <2>2 DEF Counts, Types
      <3>2. \A s \in Signal : send'[s] \in Before => copies'[s] <= unsure'[s]
        BY <1>2, <1>3, <2>2 DEF Counts, Types, Before
      <3>3. \A s \in Signal : status'[s] = "pending" /\ (\A x \in worker'.sent : x[2] # s)
                                => copies'[s] <= unsure'[s]
        BY <1>2, <1>3, <2>1, <2>2 DEF Counts, Types
      <3>4. \A x \in worker'.todo \cup worker'.failed : copies'[x[2]] <= unsure'[x[2]]
        <4>1. \A x \in worker'.todo \cup worker'.failed : x # r /\ x \in Batch
          BY <2>1 DEF Taken, Batch
        <4> QED BY <1>4, <2>1, <2>2, <4>1 DEF Counts, Types
      <3> QED BY <3>1, <3>2, <3>3, <3>4 DEF Counts
    <2>7. Arrived'
      <3>1. \A x \in worker.sent : x \in Batch
        BY DEF Batch
      <3> QED BY <1>3, <1>4, <2>1, <2>2, <3>1 DEF Arrived, Types
    <2>8. NotForgotten'
      BY <1>2, <2>2 DEF NotForgotten, Types
    <2> QED BY <1>5, <2>3, <2>5, <2>6, <2>7, <2>8
  <1>7. CASE /\ PostFails(r[2])
             /\ worker' = [worker EXCEPT !.todo = worker.todo \ {r},
                                         !.failed = worker.failed \cup {r}]
    <2>1. /\ worker'.pc = "work" /\ worker'.todo = worker.todo \ {r}
          /\ worker'.sent = worker.sent /\ worker'.failed = worker.failed \cup {r}
          /\ worker' \in Worker_
      BY <1>2, <1>3, <1>7 DEF Types, Worker_
    <2>2. /\ copies' \in [Signal -> Nat] /\ unsure' \in [Signal -> Nat]
          /\ \A x \in Signal : x # r[2] => copies'[x] = copies[x] /\ unsure'[x] = unsure[x]
          /\ copies'[r[2]] >= copies[r[2]]
          /\ \A k \in {0, 1} : copies[r[2]] <= unsure[r[2]] + k
                                 => copies'[r[2]] <= unsure'[r[2]] + k
      BY <1>3, <1>7, PostCounts
    <2>3. Types'
      BY <1>2, <2>1, <2>2 DEF Types
    <2>4. Batch' = Batch
      BY <1>3, <2>1 DEF Batch
    <2>5. Taken'
      BY <1>2, <2>1, <2>4 DEF Taken
    <2>6. copies'[r[2]] <= unsure'[r[2]]
      BY <1>3, <2>2 DEF Types
    <2>7. Counts'
      <3>1. \A s \in Signal : copies'[s] <= unsure'[s] + 1
        BY <1>3, <2>2, <2>6 DEF Counts, Types
      <3>2. \A s \in Signal : send'[s] \in Before => copies'[s] <= unsure'[s]
        BY <1>2, <1>3, <2>2, <2>6 DEF Counts, Types, Before
      <3>3. \A s \in Signal : status'[s] = "pending" /\ (\A x \in worker'.sent : x[2] # s)
                                => copies'[s] <= unsure'[s]
        BY <1>2, <1>3, <2>1, <2>2, <2>6 DEF Counts, Types
      <3>4. \A x \in worker'.todo \cup worker'.failed : copies'[x[2]] <= unsure'[x[2]]
        <4>1. \A x \in worker'.todo \cup worker'.failed : x = r \/ x \in worker.todo \cup worker.failed
          BY <2>1
        <4>2. \A x \in worker.todo \cup worker.failed : x \in Batch
          BY DEF Batch
        <4> QED BY <1>4, <2>1, <2>2, <2>6, <4>1, <4>2 DEF Counts, Types
      <3> QED BY <3>1, <3>2, <3>3, <3>4 DEF Counts
    <2>8. Arrived' /\ NotForgotten'
      <3>1. \A x \in Signal : copies[x] > 0 => copies'[x] > 0
        BY <1>3, <2>2 DEF Types
      <3>2. \A x \in worker.sent : x[2] \in Signal
        BY DEF Types, Worker_, RowId
      <3> QED BY <1>2, <2>1, <3>1, <3>2 DEF Arrived, NotForgotten
    <2> QED BY <1>5, <2>3, <2>5, <2>7, <2>8
  <1> QED BY <1>1, <1>6, <1>7

-----------------------------------------------------------------------------
(* The end of a batch.                                                     *)

\* What is written to a row, by whichever result.
LEMMA ResultFacts ==
  ASSUME IInv, NEW x \in Signal
  PROVE  /\ Result(x, worker.failed) # {} =>
              \E r \in worker.failed :
                 /\ r[1] = id[x] /\ x \in Rows
                 /\ NewAttempts(x) = attempts[r[2]] + 1
                 /\ r[2] \in Signal /\ attempts[r[2]] < max_attempts
         /\ Result(x, worker.failed) = {} => NewAttempts(x) = attempts[x]
  <1>1. CASE Result(x, worker.failed) # {}
    <2> DEFINE r == CHOOSE r \in Result(x, worker.failed) : TRUE
    <2>1. r \in Result(x, worker.failed)
      BY <1>1
    <2>2. NewAttempts(x) = attempts[r[2]] + 1
      BY <1>1 DEF NewAttempts
    <2> HIDE DEF r
    <2>3. r \in worker.failed /\ r[1] = id[x] /\ x \in Rows
      BY <2>1 DEF Result
    <2>4. r[2] \in Signal /\ attempts[r[2]] < max_attempts
      BY <2>3 DEF IInv, Types, Worker_, RowId, Taken, Batch
    <2> QED BY <1>1, <2>2, <2>3, <2>4
  <1>2. CASE Result(x, worker.failed) = {}
    BY <1>2 DEF NewAttempts
  <1> QED BY <1>1, <1>2

\* A row of the batch that is still there is the one its result is written to.
LEMMA OwnRow ==
  ASSUME IInv, NEW r \in Batch, NEW x \in Rows, r[1] = id[x], r[2] \in Rows
  PROVE  r[2] = x
  <1>1. r[1] = id[r[2]]
    BY DEF IInv, Taken
  <1> QED BY <1>1 DEF IInv, Queue

LEMMA Resting == ASSUME worker' = Rest PROVE worker' \in Worker_ /\ Taken' /\ Arrived'
  BY DEF Rest, Worker_, Taken, Arrived, Batch

\* The results are written.
LEMMA WrittenStep ==
  ASSUME IInv,
         status' = [x \in Signal |-> NewStatus(x)],
         attempts' = [x \in Signal |-> NewAttempts(x)],
         due' \subseteq due,
         mixed' = (mixed \/ \E r \in Read : r[2] \notin Rows),
         worker' = Rest, worker.todo = {},
         UNCHANGED <<send, copies, id, unsure, dropped, faults>>
  PROVE  IInv'
  <1> USE DEF IInv
  <1>1. \A x \in Signal : x \notin Rows =>
          Result(x, Sent) = {} /\ Result(x, worker.failed) = {} /\ status[x] = "none"
    BY DEF Result, Rows
  <1>2. ASSUME NEW x \in Signal
        PROVE  /\ status'[x] \in {"none", "pending", "sent", "dead"}
               /\ status'[x] = "none" <=> status[x] = "none"
               /\ status'[x] = "pending" =>
                    /\ status[x] = "pending" /\ Result(x, worker.sent) = {}
                    /\ attempts'[x] < max_attempts
               /\ attempts'[x] \in 0..max_attempts
    <2>1. attempts'[x] = NewAttempts(x) /\ status'[x] = NewStatus(x)
      OBVIOUS
    <2>2. status[x] \in {"none", "pending", "sent", "dead"}
      BY DEF Types
    <2>3. CASE Result(x, worker.failed) # {}
      <3>1. PICK r \in worker.failed :
              /\ r[1] = id[x] /\ x \in Rows
              /\ NewAttempts(x) = attempts[r[2]] + 1
              /\ r[2] \in Signal /\ attempts[r[2]] < max_attempts
        BY <2>3, ResultFacts
      <3>2. r \in Result(x, worker.failed)
        BY <3>1 DEF Result
      <3>3. attempts[r[2]] \in 0..max_attempts
        BY <3>1 DEF Types
      <3>4. status[x] # "none"
        BY <3>1 DEF Rows
      <3>5. /\ NewStatus(x) \in {"sent", "dead", status[x]}
            /\ NewStatus(x) = "pending" =>
                 /\ status[x] = "pending" /\ Result(x, worker.sent) = {}
                 /\ ~ Exhausted(r[2])
        BY <3>2 DEF NewStatus, Sent
      <3>6. ~ Exhausted(r[2]) => NewAttempts(x) < max_attempts
        BY <3>1, <3>3 DEF Exhausted
      <3>7. NewAttempts(x) \in 0..max_attempts
        BY <3>1, <3>3
      <3>8. status'[x] \in {"none", "pending", "sent", "dead"} /\ status'[x] # "none"
        BY <2>1, <2>2, <3>4, <3>5
      <3>9. attempts'[x] \in 0..max_attempts
        BY <2>1, <3>7
      <3>10. status'[x] = "pending" => /\ status[x] = "pending" /\ Result(x, worker.sent) = {}
                                       /\ attempts'[x] < max_attempts
        BY <2>1, <3>5, <3>6
      <3>11. status'[x] = "none" <=> status[x] = "none"
        BY <3>4, <3>8
      <3> QED BY <3>8, <3>9, <3>10, <3>11
    <2>4. CASE Result(x, worker.failed) = {}
      <3>1. NewAttempts(x) = attempts[x]
        BY <2>4, ResultFacts
      <3>2. /\ NewStatus(x) \in {"sent", status[x]}
            /\ NewStatus(x) = "pending" => Result(x, worker.sent) = {}
        BY <2>4 DEF NewStatus, Sent
      <3>3. status[x] = "none" => NewStatus(x) = "none"
        BY <1>1, <2>4 DEF NewStatus, Rows
      <3>4. attempts'[x] \in 0..max_attempts
        BY <2>1, <3>1 DEF Types
      <3>5. status[x] = "pending" => attempts'[x] < max_attempts
        BY <2>1, <3>1 DEF Queue
      <3>6. status'[x] = "pending" => status[x] = "pending" /\ Result(x, worker.sent) = {}
        BY <2>1, <3>2
      <3>7. status'[x] \in {"none", "pending", "sent", "dead"}
        BY <2>1, <2>2, <3>2
      <3>8. status'[x] = "none" <=> status[x] = "none"
        BY <2>1, <3>2, <3>3
      <3> QED BY <3>4, <3>5, <3>6, <3>7, <3>8
    <2> QED BY <2>3, <2>4
  <1>3. Rows' = Rows
    BY <1>2 DEF Rows
  <1>4. Types'
    <2>1. attempts' \in [Signal -> 0..max_attempts]
      BY <1>2
    <2>2. status' \in [Signal -> {"none", "pending", "sent", "dead"}]
      BY <1>2
    <2>3. mixed' \in BOOLEAN
      OBVIOUS
    <2>4. worker' \in Worker_
      BY Resting
    <2> QED BY <2>1, <2>2, <2>3, <2>4 DEF Types
  <1>5. Queue'
    <2>1. ASSUME NEW x \in Signal, send'[x] # "queued"
          PROVE  status'[x] = "none" /\ attempts'[x] = 0
      <3>1. status[x] = "none" /\ attempts[x] = 0
        BY <2>1 DEF Queue
      <3>2. NewAttempts(x) = 0
        BY <1>1, <3>1, ResultFacts DEF Rows
      <3> QED BY <1>2, <3>1, <3>2
    <2>2. \A x \in dropped' : send'[x] = "queued" /\ status'[x] = "none"
      BY <1>2 DEF Queue, Types
    <2>3. \A x, y \in Rows' : id'[x] = id'[y] => x = y
      BY <1>3 DEF Queue
    <2> QED BY <1>2, <2>1, <2>2, <2>3 DEF Queue
  <1>6. Counts'
    <2>1. ASSUME NEW x \in Signal, status'[x] = "pending" PROVE copies[x] <= unsure[x]
      <3>1. status[x] = "pending" /\ Result(x, worker.sent) = {}
        BY <1>2, <2>1
      <3>2. ASSUME NEW r \in worker.sent, r[2] = x PROVE FALSE
        <4>1. r[1] = id[x]
          BY <3>2 DEF Taken, Batch
        <4>2. r \in Result(x, worker.sent)
          BY <3>1, <4>1 DEF Result, Rows
        <4> QED BY <3>1, <4>2
      <3> QED BY <3>1, <3>2 DEF Counts
    <2>2. worker'.todo = {} /\ worker'.failed = {}
      BY DEF Rest
    <2> QED BY <2>1, <2>2 DEF Counts
  <1>7. NotForgotten'
    <2>1. SUFFICES ASSUME ~ mixed', NEW s \in Signal, send[s] = "queued", s \notin dropped
                   PROVE  \/ copies[s] > 0
                          \/ status'[s] = "pending"
                          \/ status'[s] = "dead" /\ attempts'[s] = max_attempts
      BY DEF NotForgotten, Types
    <2>2. ~ mixed /\ \A r \in Read : r[2] \in Rows
      BY <2>1
    <2>3. \/ copies[s] > 0
          \/ status[s] = "pending"
          \/ status[s] = "dead" /\ attempts[s] = max_attempts
      BY <2>1, <2>2 DEF NotForgotten
    <2>4. \A r \in Result(s, Read) : r[2] = s
      <3>1. \A r \in Result(s, Read) : r \in Batch /\ s \in Rows /\ r[1] = id[s] /\ r[2] \in Rows
        BY <2>2 DEF Result, Read, Batch
      <3> QED BY <3>1, OwnRow
    <2>5. status'[s] = NewStatus(s) /\ attempts'[s] = NewAttempts(s)
      OBVIOUS
    <2>6. CASE Result(s, Sent) # {}
      <3>1. PICK r \in Result(s, Sent) : TRUE
        BY <2>6
      <3>2. r \in worker.sent /\ r \in Result(s, Read)
        BY <3>1 DEF Result, Read, Sent
      <3> QED BY <2>4, <3>2 DEF Arrived
    <2>7. CASE Result(s, Sent) = {} /\ Result(s, worker.failed) # {}
      <3>1. PICK r \in worker.failed :
              r[1] = id[s] /\ s \in Rows /\ NewAttempts(s) = attempts[r[2]] + 1
        BY <2>7, ResultFacts
      <3>2. r \in Result(s, worker.failed) /\ r \in Result(s, Read) /\ r \in Batch
        BY <3>1 DEF Result, Read, Batch
      <3>3. r[2] = s
        BY <2>4, <3>2
      <3>4. status[s] = "pending" /\ attempts[s] < max_attempts
        BY <3>1, <3>2, <3>3 DEF Taken, Rows
      <3>5. attempts[s] \in Nat
        BY DEF Types
      <3>6. \A x \in Result(s, worker.failed) : x[2] = s
        BY <2>4 DEF Result, Read
      <3>7. CASE Exhausted(s)
        <4>1. status'[s] = "dead"
          BY <2>5, <2>7, <3>2, <3>3, <3>7 DEF NewStatus
        <4>2. attempts'[s] = max_attempts
          BY <2>5, <3>1, <3>3, <3>4, <3>5, <3>7 DEF Exhausted
        <4> QED BY <4>1, <4>2
      <3>8. CASE ~ Exhausted(s)
        BY <2>5, <2>7, <3>4, <3>6, <3>8 DEF NewStatus
      <3> QED BY <3>7, <3>8
    <2>8. CASE Result(s, Sent) = {} /\ Result(s, worker.failed) = {}
      <3>1. status'[s] = status[s] /\ attempts'[s] = attempts[s]
        BY <2>5, <2>8, ResultFacts DEF NewStatus
      <3> QED BY <2>3, <3>1
    <2> QED BY <2>6, <2>7, <2>8
  <1> QED BY <1>4, <1>5, <1>6, <1>7, Resting

\* A batch without a commit: its successes are posts nobody wrote down.
LEMMA LostBatch ==
  ASSUME IInv, Unrecorded, worker' = Rest,
         UNCHANGED <<copies, status, attempts, id, dropped, mixed>>,
         due' \subseteq due, faults' \in 0..MaxFaults,
         \/ send' = send
         \/ send' = [s \in Signal |-> IF send[s] = "enqueue" THEN "error" ELSE send[s]]
  PROVE  IInv'
  <1> USE DEF IInv
  <1>1. ASSUME NEW s \in Signal
        PROVE  /\ unsure'[s] \in Nat /\ unsure'[s] >= unsure[s]
               /\ (\E r \in worker.sent : r[2] = s) => unsure'[s] = unsure[s] + 1
    <2>1. unsure'[s] = unsure[s] + (IF \E r \in worker.sent : r[2] = s THEN 1 ELSE 0)
      BY DEF Unrecorded
    <2>2. unsure[s] \in Nat
      BY DEF Types
    <2>3. CASE \E r \in worker.sent : r[2] = s
      BY <2>1, <2>2, <2>3
    <2>4. CASE ~ \E r \in worker.sent : r[2] = s
      BY <2>1, <2>2, <2>4
    <2> QED BY <2>3, <2>4
  <1>2. \A s \in Signal : /\ send'[s] \in Before \cup {"stored", "queued"}
                          /\ send'[s] = "queued" <=> send[s] = "queued"
                          /\ send'[s] = "stored" <=> send[s] = "stored"
                          /\ send'[s] \in Before <=> send[s] \in Before
    BY DEF Types, Before
  <1>3. Types'
    <2>1. unsure' = [s \in Signal |-> unsure'[s]] /\ send' = [s \in Signal |-> send'[s]]
      BY DEF Unrecorded, Types
    <2>2. unsure' \in [Signal -> Nat] /\ send' \in [Signal -> Before \cup {"stored", "queued"}]
      BY <1>1, <1>2, <2>1
    <2> QED BY <2>2, Resting DEF Types
  <1>4. Queue'
    BY <1>2 DEF Queue, Rows, Types
  <1>5. Counts'
    <2>1. worker'.sent = {} /\ worker'.todo = {} /\ worker'.failed = {}
      BY DEF Rest
    <2>2. \A s \in Signal : copies[s] <= unsure[s] + 1 => copies[s] <= unsure'[s] + 1
      BY <1>1 DEF Types
    <2>3. \A s \in Signal : copies[s] <= unsure[s] => copies[s] <= unsure'[s]
      BY <1>1 DEF Types
    <2>4. ASSUME NEW s \in Signal, status[s] = "pending" PROVE copies[s] <= unsure'[s]
      <3>1. CASE \E r \in worker.sent : r[2] = s
        BY <1>1, <3>1 DEF Counts
      <3>2. CASE ~ \E r \in worker.sent : r[2] = s
        BY <2>3, <2>4, <3>2 DEF Counts
      <3> QED BY <3>1, <3>2
    <2> QED BY <1>2, <2>1, <2>2, <2>3, <2>4 DEF Counts
  <1>6. NotForgotten'
    BY <1>2 DEF NotForgotten
  <1> QED BY <1>3, <1>4, <1>5, <1>6, Resting

LEMMA CommitStep == ASSUME IInv, Commit PROVE IInv'
  <1>1. /\ worker.todo = {} /\ worker' = Rest
        /\ UNCHANGED <<send, copies, id, dropped, faults>>
    BY DEF Commit
  <1>2. CASE /\ status' = [x \in Signal |-> NewStatus(x)]
             /\ attempts' = [x \in Signal |-> NewAttempts(x)]
             /\ due' = {x \in due : Result(x, worker.failed) = {}}
             /\ mixed' = (mixed \/ \E r \in Read : r[2] \notin Rows)
             /\ UNCHANGED unsure
    BY <1>1, <1>2, WrittenStep
  <1>3. CASE Unrecorded /\ UNCHANGED <<status, attempts, due, mixed>>
    <2>1. faults' \in 0..MaxFaults
      BY <1>1 DEF IInv, Types
    <2> QED BY <1>1, <1>3, <2>1, LostBatch
  <1> QED BY <1>2, <1>3 DEF Commit

LEMMA CrashStep == ASSUME IInv, Crash PROVE IInv'
  <1>1. faults' \in 0..MaxFaults
    BY DEF Crash, Fault, IInv, Types
  <1> QED BY <1>1, LostBatch DEF Crash, queue

LEMMA FlushStep == ASSUME IInv, FlushQueue PROVE IInv'
  <1> USE DEF IInv
  <1>1. PICK S \in SUBSET Rows :
          /\ status' = [s \in Signal |-> IF s \in S THEN "none" ELSE status[s]]
          /\ due' = due \ S
          /\ dropped' = dropped \cup S
    <2>1. {s \in Signal : status[s] = "dead"} \subseteq Rows
      BY DEF Rows
    <2> QED BY <2>1 DEF FlushQueue
  <1>2. UNCHANGED <<send, copies, attempts, id, worker, unsure, mixed>>
    BY DEF FlushQueue
  <1>3. faults' \in 0..MaxFaults
    BY DEF FlushQueue, Fault, Types
  <1>4. Rows' \subseteq Rows /\ S \subseteq Signal /\ Batch' = Batch
    BY <1>1, <1>2 DEF Rows, Batch
  <1>5. \A s \in S : send[s] = "queued"
    BY <1>4 DEF Queue, Rows
  <1>6. Types'
    BY <1>1, <1>2, <1>3, <1>4 DEF Types
  <1>7. Queue'
    <2>1. \A s \in Signal : send'[s] # "queued" => status'[s] = "none" /\ attempts'[s] = 0
      BY <1>1, <1>2 DEF Queue
    <2>2. \A s \in dropped' : send'[s] = "queued" /\ status'[s] = "none"
      BY <1>1, <1>2, <1>4, <1>5 DEF Queue, Types
    <2>3. \A s \in Signal : status'[s] = "pending" => attempts'[s] < max_attempts
      BY <1>1, <1>2 DEF Queue
    <2>4. \A s, x \in Rows' : id'[s] = id'[x] => s = x
      BY <1>2, <1>4 DEF Queue
    <2> QED BY <2>1, <2>2, <2>3, <2>4 DEF Queue
  <1>8. Taken'
    <2>1. \A r \in Batch : r[2] \in Signal
      BY DEF Batch, Types, Worker_, RowId
    <2>2. \A r \in Batch : status'[r[2]] \in {"pending", "none"}
      BY <1>1, <2>1 DEF Taken
    <2> QED BY <1>2, <1>4, <2>2 DEF Taken
  <1>9. Counts'
    <2>1. \A s \in Signal : status'[s] = "pending" => status[s] = "pending"
      BY <1>1
    <2> QED BY <1>2, <2>1 DEF Counts
  <1>10. Arrived'
    BY <1>2 DEF Arrived
  <1>11. NotForgotten'
    BY <1>1, <1>2 DEF NotForgotten
  <1> QED BY <1>6, <1>7, <1>8, <1>9, <1>10, <1>11

LEMMA IInvStep == ASSUME IInv, [Next]_vars PROVE IInv'
  <1>1. CASE UNCHANGED vars
    <2>1. Rows' = Rows /\ Batch' = Batch
      BY <1>1 DEF vars, queue, Rows, Batch
    <2>2. Types' /\ Queue' /\ Taken'
      BY <1>1, <2>1 DEF vars, queue, IInv, Types, Queue, Taken
    <2>3. Counts' /\ Arrived' /\ NotForgotten'
      BY <1>1 DEF vars, queue, IInv, Counts, Arrived, NotForgotten
    <2> QED BY <2>2, <2>3 DEF IInv
  <1>2. CASE Next
    BY <1>2, SendStep, EnqueueStep, ElapseStep, BatchStep, WorkStep, CommitStep, FlushStep,
       CrashStep DEF Next, Worker
  <1> QED BY <1>1, <1>2

-----------------------------------------------------------------------------
(* The properties.                                                         *)

LEMMA Invariance == Spec => []IInv
  <1>1. IInv /\ [Next]_vars => IInv'
    BY IInvStep
  <1> QED BY <1>1, InitIInv, PTL DEF Spec

LEMMA Implied == IInv => TypeOK /\ NotForgotten /\ DuplicatesExplained
  BY DEF IInv, Types, Before, Worker_, TypeOK, Counts, DuplicatesExplained

\* TypeOK holds for any signals and bounds; no row is ever tried too often.
THEOREM TypeCorrect == Spec => []TypeOK
  BY Invariance, Implied, PTL

\* What was acknowledged is stored, waits, or has used all its attempts.
THEOREM NothingForgotten == Spec => []NotForgotten
  BY Invariance, Implied, PTL

\* Every copy beyond the first has a post behind it that nobody wrote down.
THEOREM CopiesExplained == Spec => []DuplicatesExplained
  BY Invariance, Implied, PTL

-----------------------------------------------------------------------------
(* Settled rows.  The batch may hold ids of rows that are gone, but a row that *)
(* has such an id now is one that waits.                                     *)

IdsWait == \A r \in Batch, x \in Rows : r[1] = id[x] => status[x] = "pending"

LEMMA IdsWaitStep == ASSUME IInv, IdsWait, [Next]_vars PROVE IdsWait'
  <1> USE DEF IInv
  <1>1. CASE UNCHANGED <<status, id, worker>>
    <2>1. Rows' = Rows /\ Batch' = Batch
      BY <1>1 DEF Rows, Batch
    <2> QED BY <1>1, <2>1 DEF IdsWait
  <1>2. ASSUME NEW s \in Signal, Enqueue(s) PROVE IdsWait'
    <2>1. /\ status' = [status EXCEPT ![s] = "pending"] /\ worker' = worker
          /\ \A x \in Signal : x # s => id'[x] = id[x]
      BY <1>2 DEF Enqueue, Types
    <2>2. Batch' = Batch /\ \A x \in Rows' : x # s => x \in Rows
      BY <2>1 DEF Batch, Rows, Types
    <2>3. \A x \in Rows : x \in Signal
      BY DEF Rows
    <2> QED BY <2>1, <2>2, <2>3 DEF IdsWait, Types
  <1>3. CASE BatchRead
    <2>1. PICK B \in SUBSET Signal :
            /\ B \subseteq DueRows
            /\ worker' = [pc |-> "work", todo |-> {<<id[s], s>> : s \in B},
                          sent |-> {}, failed |-> {}]
      BY <1>3 DEF BatchRead, IsBatch, Rest
    <2>2. UNCHANGED <<status, id>>
      BY <1>3 DEF BatchRead, queue
    <2>3. \A r \in Batch' : \E s \in B : r = <<id[s], s>>
      BY <2>1 DEF Batch
    <2>4. \A s \in B : s \in Rows /\ status[s] = "pending"
      BY <2>1 DEF DueRows, Rows
    <2>5. Rows' = Rows
      BY <2>2 DEF Rows
    <2>6. ASSUME NEW r \in Batch', NEW x \in Rows', r[1] = id'[x]
          PROVE  status'[x] = "pending"
      <3>1. PICK s \in B : r = <<id[s], s>>
        BY <2>3
      <3>2. s = x
        BY <2>2, <2>4, <2>5, <2>6, <3>1 DEF Queue
      <3> QED BY <2>2, <2>4, <3>2
    <2> QED BY <2>6 DEF IdsWait
  <1>4. CASE WorkPost
    <2>1. UNCHANGED <<status, id>>
      BY <1>4 DEF WorkPost, queue
    <2>2. PICK r \in worker.todo :
            \/ worker' = [worker EXCEPT !.todo = worker.todo \ {r},
                                        !.sent = worker.sent \cup {r}]
            \/ worker' = [worker EXCEPT !.todo = worker.todo \ {r},
                                        !.failed = worker.failed \cup {r}]
      BY <1>4 DEF WorkPost
    <2>3. /\ worker'.todo = worker.todo \ {r}
          /\ worker'.sent \subseteq worker.sent \cup {r}
          /\ worker'.failed \subseteq worker.failed \cup {r}
      BY <2>2 DEF Types, Worker_
    <2>4. Batch' \subseteq Batch
      BY <2>3 DEF Batch
    <2> QED BY <2>1, <2>4 DEF IdsWait, Rows
  <1>5. CASE worker' = Rest
    BY <1>5 DEF IdsWait, Batch, Rest
  <1>6. CASE FlushQueue
    <2>1. UNCHANGED <<id, worker>>
          /\ \A x \in Signal : status'[x] \in {"none", status[x]}
      BY <1>6 DEF FlushQueue
    <2>2. Batch' = Batch /\ Rows' \subseteq Rows
      BY <2>1 DEF Batch, Rows
    <2>3. \A x \in Rows' : x \in Rows /\ status'[x] = status[x]
      BY <2>1, <2>2 DEF Rows
    <2> QED BY <2>1, <2>2, <2>3 DEF IdsWait
  <1> QED
    BY <1>1, <1>2, <1>3, <1>4, <1>5, <1>6
    DEF Next, SendLocal, SendForward, Elapse, Worker, Commit, Crash, queue, vars

LEMMA SettledStep ==
  ASSUME IInv, IdsWait, [Next]_vars, NEW s \in Signal, status[s] \in {"sent", "dead"}
  PROVE  status'[s] \in {status[s], "none"}
  <1> USE DEF IInv
  <1>1. CASE UNCHANGED status
    BY <1>1
  <1>2. ASSUME NEW x \in Signal, Enqueue(x) PROVE status'[s] = status[s]
    <2>1. status[x] = "none"
      BY <1>2 DEF Enqueue, Queue
    <2> QED BY <1>2, <2>1 DEF Enqueue, Types
  <1>3. CASE Commit /\ status' = [x \in Signal |-> NewStatus(x)]
    <2>1. s \in Rows /\ status[s] # "pending"
      BY DEF Rows
    <2>2. \A r \in Read : r[1] # id[s]
      BY <2>1 DEF IdsWait, Batch, Read
    <2>3. Result(s, Sent) = {} /\ Result(s, worker.failed) = {}
      BY <2>2 DEF Result, Read, Sent
    <2> QED BY <1>3, <2>3 DEF NewStatus
  <1>4. CASE FlushQueue
    BY <1>4 DEF FlushQueue
  <1> QED
    BY <1>1, <1>2, <1>3, <1>4
    DEF Next, SendLocal, SendForward, Elapse, Worker, BatchRead, WorkPost, Commit, Crash,
        queue, vars

\* A settled row is settled for good: the worker never sends it again.
THEOREM SettledTheorem == Spec => SettledStays
  <1>1. Init => IdsWait
    BY DEF Init, IdsWait, Batch, Rest
  <1>2. IInv /\ IdsWait /\ [Next]_vars => IdsWait'
    BY IdsWaitStep
  <1>3. IInv /\ IdsWait /\ [Next]_vars =>
          [\A s \in Signal : status[s] \in {"sent", "dead"} =>
               status'[s] \in {status[s], "none"}]_vars
    BY SettledStep
  <1> QED BY <1>1, <1>2, <1>3, Invariance, PTL DEF Spec, SettledStays
=============================================================================
