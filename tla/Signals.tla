------------------------------ MODULE Signals -------------------------------
(***************************************************************************)
(* Call signals sent to another relay: POST /api/signaling/send at the     *)
(* sender's relay, which forwards to the relay that owns the recipient and *)
(* queues what it cannot forward, and the retry worker that posts queued   *)
(* signals again (forward_retry_worker.py).  The owner's relay appears as  *)
(* the number of rows it holds for each signal: it stores one for every    *)
(* post that reaches it, whether or not its answer comes back in time.     *)
(***************************************************************************)
EXTENDS Naturals, FiniteSets

CONSTANTS
    Signal,         \* the signals that clients send
    BatchLimit,     \* rows the worker takes at a time: 25 in the code
    max_attempts,   \* 10 in the code
    MaxFaults       \* bound on crashes of the sender's relay and on flushes

ASSUME SignalAssumption == IsFiniteSet(Signal)

ASSUME BoundAssumption == /\ BatchLimit \in Nat \ {0}
                          /\ max_attempts \in Nat \ {0}
                          /\ MaxFaults \in Nat

VARIABLES
    send,       \* where the handler of each signal's send request is
    copies,     \* the rows of call_signals at the recipient's relay, per signal
    status,     \* forward_retry_queue: status of each signal's row, or "none"
    attempts,   \* attempt_count
    id,         \* the id of each row, which is also their order of insertion
    due,        \* the rows whose next_attempt_at has passed
    worker,     \* local variables of process_retry_once
    unsure,     \* posts of each signal that arrived and were never written down
    dropped,    \* the signals whose row a flush has deleted
    mixed,      \* has a commit written to a row other than the one it had read?
    faults

queue == <<status, attempts, id, due>>
vars == <<send, copies, queue, worker, unsure, dropped, mixed, faults>>

Rest == [pc |-> "rest", todo |-> {}, sent |-> {}, failed |-> {}]

Init == /\ send = [s \in Signal |-> "idle"]
        /\ copies = [s \in Signal |-> 0]
        /\ status = [s \in Signal |-> "none"]
        /\ attempts = [s \in Signal |-> 0]
        /\ id = [s \in Signal |-> 0]
        /\ due = {}
        /\ worker = Rest
        /\ unsure = [s \in Signal |-> 0]
        /\ dropped = {} /\ mixed = FALSE /\ faults = 0

SendTo(s, pc) == send' = [send EXCEPT ![s] = pc]

\* A row for the post, without a look for an earlier copy.
Arrives(s) == copies' = [copies EXCEPT ![s] = copies[s] + 1]

\* requests.post: the row is stored and the answer comes; or no row, since the
\* relay is not reached or refuses; or a row whose answer comes too late.
PostOk(s) == Arrives(s) /\ UNCHANGED unsure
PostFails(s) == \/ UNCHANGED <<copies, unsure>>
                \/ Arrives(s) /\ unsure' = [unsure EXCEPT ![s] = unsure[s] + 1]

-----------------------------------------------------------------------------
(* POST /api/signaling/send at the sender's relay.  Which relay owns the      *)
(* recipient is what lookup_blankid says at that moment.                   *)

\* The recipient belongs to this relay: the row is inserted here.
SendLocal(s) ==
    /\ send[s] = "idle"
    /\ PostOk(s)
    /\ SendTo(s, "stored")
    /\ UNCHANGED <<queue, worker, dropped, mixed, faults>>

\* forward_post to the owner's relay, with 5 seconds for the answer.
SendForward(s) ==
    /\ send[s] = "idle"
    /\ \/ PostOk(s) /\ SendTo(s, "stored")
       \/ PostFails(s) /\ SendTo(s, "enqueue")
    /\ UNCHANGED <<queue, worker, dropped, mixed, faults>>

Rows == {s \in Signal : status[s] # "none"}

\* enqueue_forward_retry, and the answer "Signal queued for retry".  The id is
\* one more than the highest there is: after a flush the ids begin anew.
Enqueue(s) ==
    /\ send[s] = "enqueue"
    /\ status' = [status EXCEPT ![s] = "pending"]
    /\ \E i \in {1} \cup {id[x] + 1 : x \in Rows} :
         /\ \A x \in Rows : id[x] < i
         /\ id' = [id EXCEPT ![s] = i]
    /\ SendTo(s, "queued")
    /\ UNCHANGED <<copies, attempts, due, worker, unsure, dropped, mixed, faults>>

-----------------------------------------------------------------------------
(* The retry worker.                                                       *)

\* Time passes.
Elapse(s) ==
    /\ status[s] = "pending" /\ s \notin due
    /\ due' = due \cup {s}
    /\ UNCHANGED <<send, copies, status, attempts, id, worker, unsure, dropped, mixed, faults>>

\* Mutant: whatever its status.
DueAny == due
DueRows == {s \in due : status[s] = "pending"}

\* Mutant: the limit is applied before the filter on status and time.
IsBatchOfOldest(B) == /\ B # {}
                      /\ B = {s \in DueRows :
                                Cardinality({x \in Rows : id[x] < id[s]}) < BatchLimit}

\* The oldest rows that are due, as many as the limit allows.
IsBatch(B) == /\ B \subseteq DueRows /\ B # {}
              /\ \A s \in B, x \in DueRows \ B : id[s] < id[x]
              /\ Cardinality(B) <= BatchLimit
              /\ B # DueRows => Cardinality(B) = BatchLimit

BatchRead ==
    /\ worker.pc = "rest"
    /\ \E B \in SUBSET Signal :
         IsBatch(B) /\ worker' = [Rest EXCEPT !.pc = "work", !.todo = {<<id[s], s>> : s \in B}]
    /\ UNCHANGED <<send, copies, queue, unsure, dropped, mixed, faults>>

\* The rows in turn; each result stays in the session until the batch is done.
WorkPost ==
    /\ worker.pc = "work"
    /\ \E r \in worker.todo :
         /\ \A x \in worker.todo : r[1] <= x[1]
         /\ \/ /\ PostOk(r[2])
               /\ worker' = [worker EXCEPT !.todo = worker.todo \ {r},
                                           !.sent = worker.sent \cup {r}]
            \/ /\ PostFails(r[2])
               /\ worker' = [worker EXCEPT !.todo = worker.todo \ {r},
                                           !.failed = worker.failed \cup {r}]
    /\ UNCHANGED <<send, queue, dropped, mixed, faults>>

\* The results R that are written to x: a row is found by the id that was read.
Read == worker.sent \cup worker.failed
Result(x, R) == {r \in R : x \in Rows /\ r[1] = id[x]}

\* Mutants: one attempt more.
ExhaustedLate(s) == attempts[s] >= max_attempts
Exhausted(s) == attempts[s] + 1 >= max_attempts

\* Mutants: whatever was posted counts as sent; a success is not written down.
SentOrNot == Read
SentNever == {}
Sent == worker.sent

NewStatus(x) == IF Result(x, Sent) # {} THEN "sent"
                ELSE IF \E r \in Result(x, worker.failed) : Exhausted(r[2]) THEN "dead"
                ELSE status[x]

\* attempt_count as it was read, plus one.
NewAttempts(x) == IF Result(x, worker.failed) = {} THEN attempts[x]
                  ELSE attempts[(CHOOSE r \in Result(x, worker.failed) : TRUE)[2]] + 1

\* The successes of the batch are forgotten.
Unrecorded == unsure' = [s \in Signal |->
    unsure[s] + (IF \E r \in worker.sent : r[2] = s THEN 1 ELSE 0)]

\* A result without a row, since a flush, fails the commit of the whole batch.
Commit ==
    /\ worker.pc = "work" /\ worker.todo = {}
    /\ \/ /\ \A r \in Read : \E x \in Rows : id[x] = r[1]
          /\ status' = [x \in Signal |-> NewStatus(x)]
          /\ attempts' = [x \in Signal |-> NewAttempts(x)]
          /\ due' = {x \in due : Result(x, worker.failed) = {}}
          /\ mixed' = (mixed \/ \E r \in Read : r[2] \notin Rows)
          /\ UNCHANGED unsure
       \/ /\ \E r \in Read : \A x \in Rows : id[x] # r[1]
          /\ Unrecorded
          /\ UNCHANGED <<status, attempts, due, mixed>>
    /\ worker' = Rest
    /\ UNCHANGED <<send, copies, id, dropped, faults>>

Fault == faults < MaxFaults /\ faults' = faults + 1

\* POST /relay/forward-queue/flush deletes every row, dead-letter/flush those
\* of status "dead".
FlushQueue ==
    /\ Fault
    /\ \E S \in {Rows, {s \in Signal : status[s] = "dead"}} :
         /\ status' = [s \in Signal |-> IF s \in S THEN "none" ELSE status[s]]
         /\ due' = due \ S
         /\ dropped' = dropped \cup S
    /\ UNCHANGED <<send, copies, attempts, id, worker, unsure, mixed>>

\* The sender's relay restarts in the middle of a batch or of a request.
Crash ==
    /\ Fault
    /\ Unrecorded
    /\ worker' = Rest
    /\ send' = [s \in Signal |-> IF send[s] = "enqueue" THEN "error" ELSE send[s]]
    /\ UNCHANGED <<copies, queue, dropped, mixed>>

Worker == BatchRead \/ WorkPost \/ Commit

Next == \/ \E s \in Signal : SendLocal(s) \/ SendForward(s) \/ Enqueue(s) \/ Elapse(s)
        \/ Worker \/ FlushQueue \/ Crash

Spec == Init /\ [][Next]_vars

\* retry_loop runs for ever on a thread of its own and swallows every
\* exception; a post ends by an answer or after 8 seconds; time passes.
FairSpec == Spec /\ WF_vars(Worker) /\ \A s \in Signal : WF_vars(Elapse(s))

-----------------------------------------------------------------------------
(* Properties.                                                             *)

RowId == Nat \X Signal

TypeOK ==
    /\ send \in [Signal -> {"idle", "enqueue", "stored", "queued", "error"}]
    /\ copies \in [Signal -> Nat]
    /\ status \in [Signal -> {"none", "pending", "sent", "dead"}]
    /\ attempts \in [Signal -> 0..max_attempts]
    /\ id \in [Signal -> Nat]
    /\ due \subseteq Signal
    /\ worker \in [pc : {"rest", "work"}, todo : SUBSET RowId, sent : SUBSET RowId,
                   failed : SUBSET RowId]
    /\ unsure \in [Signal -> Nat]
    /\ dropped \subseteq Signal
    /\ mixed \in BOOLEAN
    /\ faults \in 0..MaxFaults

\* Whoever is told that a signal was stored or queued can count on it: it is at
\* the recipient's relay, or its row waits or was given up after max_attempts
\* failures and never earlier - unless an operator flushed the row, or the
\* commit of a batch hit a row that had taken over the id of a flushed one.
NotForgotten ==
    ~ mixed => \A s \in Signal :
        /\ send[s] = "stored" => copies[s] > 0
        /\ send[s] = "queued" /\ s \notin dropped =>
             copies[s] > 0 \/ status[s] = "pending"
                \/ (status[s] = "dead" /\ attempts[s] = max_attempts)

\* A signal is at the recipient's relay once, and once more for every post that
\* arrived but timed out, or whose success was lost with its batch: nothing
\* else rings twice, however rows are flushed and their ids are used again.
DuplicatesExplained == \A s \in Signal : copies[s] <= 1 + unsure[s]

\* A row that the worker has settled it never touches again: it is neither sent
\* a second time nor revived, also when a flush has let a waiting row take over
\* an id of the batch under way.  Only an operator's flush removes it.
SettledStays ==
    [][\A s \in Signal : status[s] \in {"sent", "dead"} =>
           status'[s] \in {status[s], "none"}]_vars

\* No row waits for ever: the worker brings each one to an end, whatever the
\* owner's relay does, also when the limit leaves it behind a full batch.
RetrySettles == \A s \in Signal : []<>(status[s] # "pending")
=============================================================================
