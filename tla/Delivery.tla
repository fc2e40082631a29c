------------------------------ MODULE Delivery ------------------------------
(***************************************************************************)
(* Messages between relays: POST /api/envelopes/send, which stores an      *)
(* envelope or hands it to another relay by the same request, POST         *)
(* /api/envelopes/relay-forward, polling, receipts and flush (main.py).    *)
(*                                                                         *)
(* A Call is one request to /api/envelopes/send with the handler that      *)
(* serves it, from the moment it is posted; the handler may post further   *)
(* calls and waits for each of them, but never longer than a timeout.      *)
(* Every relay runs the same code, and relays know each other, so that a   *)
(* call can come back to a relay which is already handling the envelope.   *)
(***************************************************************************)
EXTENDS Naturals, Sequences, FiniteSets

CONSTANTS
    Relay,
    Account, Home,      \* Blank IDs and the relay that has each one's user row
    Device, Owner,      \* devices and their Blank IDs
    Active,             \* the devices with an active row in user_devices
    Envelope, To,       \* envelopes and the device each is for
    Known,              \* relay_registry.json of each relay, without the relay itself
    PEER_RELAYS,        \* of each relay
    Call,               \* bound on the send requests under way at once
    Poll,               \* bound on the poll requests under way at once
    Client, Nobody,     \* who waits for a call's answer, if it is no other call
    None,
    MaxSends,           \* bound on the requests from outside
    MaxFaults           \* bound on flushes and on crashes of a relay

HomeOf(e) == Home[Owner[To[e]]]

ASSUME AddressAssumption == /\ Home \in [Account -> Relay]
                            /\ Owner \in [Device -> Account]
                            /\ Active \subseteq Device
                            /\ To \in [Envelope -> Device]

ASSUME RelayAssumption ==
    /\ PEER_RELAYS \in [Relay -> Seq(Relay)]
    /\ Known \in [Relay -> Seq(Relay)]
    \* Every relay knows every other relay: the registry is complete.
    /\ \A r, s \in Relay : r # s <=> \E i \in 1..Len(Known[r]) : Known[r][i] = s

ASSUME CallAssumption == /\ Client \notin Call /\ Nobody \notin Call
                         /\ Client # Nobody
                         /\ None \notin Relay \cup Envelope \cup Device

ASSUME BoundAssumption == MaxSends \in Nat /\ MaxFaults \in Nat

VARIABLES
    row,      \* message_envelopes of each relay: what each envelope's row says
    call,     \* the send requests
    poll,     \* the poll requests
    kept,     \* the envelopes some relay has ever stored
    told,     \* those whose sender got "Envelope sent successfully"
    given,    \* those that have reached a device
    again,    \* those that have reached a device more than once
    got,      \* the envelopes that the device they are for has received
    calm,     \* has every forward been answered so far, with every registry read?
    clashed,  \* has an insert met the UNIQUE envelope_id?
    raced,    \* has a poll marked a row that was marked after it had read it?
    flushed,  \* has a relay's mailbox been emptied?
    sends, faults

tables == <<row, kept>>
outcome == <<told, given, again, got>>
history == <<calm, clashed, raced>>
bounds == <<flushed, sends, faults>>
vars == <<tables, call, poll, outcome, history, bounds>>

FreeCall == [pc |-> "free", at |-> None, env |-> None, todo |-> <<>>, caller |-> Nobody]
FreePoll == [pc |-> "free", device |-> None, rows |-> {}, lost |-> FALSE]

\* A call to relay r that has been posted and has not arrived.
Request(r, e, who) ==
    [pc |-> "sent", at |-> r, env |-> e, todo |-> <<>>, caller |-> who]

Init == /\ row = [r \in Relay |-> [e \in Envelope |-> "none"]]
        /\ call = [c \in Call |-> FreeCall]
        /\ poll = [p \in Poll |-> FreePoll]
        /\ kept = {} /\ told = {}
        /\ given = {} /\ again = {} /\ got = {}
        /\ calm = TRUE /\ clashed = FALSE /\ raced = FALSE
        /\ flushed = FALSE /\ sends = 0 /\ faults = 0

At(c, pc) == call[c].pc = pc
GoTo(c, pc) == call' = [call EXCEPT ![c].pc = pc]

\* Which of the idle slots a new request gets does not matter.
Idle == {c \in Call : At(c, "free")}
Unused == CHOOSE c \in Idle : TRUE

\* Mutant: the device's row is enough, wherever the account is.
LocalAnywhere(r, e) == To[e] \in Active
Local(r, e) == To[e] \in Active /\ HomeOf(e) = r

\* The envelope's row at the relay.
RowAt(c) == row[call[c].at][call[c].env]

\* envelope_id is UNIQUE.
Store(r, e) == /\ row' = [row EXCEPT ![r][e] = "queued"]
               /\ kept' = kept \cup {e}

-----------------------------------------------------------------------------
(* The handler of POST /api/envelopes/send.                                *)

Sent == sends < MaxSends /\ sends' = sends + 1

\* A client sends an envelope, or sends it again, to some relay.
Submit(r, e) ==
    /\ Sent
    /\ Idle # {}
    /\ call' = [call EXCEPT ![Unused] = Request(r, e, Client)]
    /\ UNCHANGED <<tables, poll, outcome, history, flushed, faults>>

\* The two loops over relays: "route" looks for one that takes the envelope,
\* "push" hands a stored envelope to every peer.  An envelope no relay took is
\* stored here, where its recipient may never poll.
\* Mutants: such an envelope is not stored; the same relay is tried for ever.
RouteNoStore(r, relays) == [r EXCEPT !.pc = IF relays = <<>> THEN "ok" ELSE "route",
                                     !.todo = relays]
Route(r, relays) == [r EXCEPT !.pc = IF relays = <<>> THEN "check" ELSE "route",
                              !.todo = relays]
Push(r, relays) == [r EXCEPT !.pc = IF relays = <<>> THEN "ok" ELSE "push",
                             !.todo = relays]

MoveOnAgain(r) == IF r.pc \in {"route", "forward"} THEN Route(r, r.todo)
                                                   ELSE Push(r, Tail(r.todo))
MoveOn(r) == IF r.pc \in {"route", "forward"} THEN Route(r, Tail(r.todo))
                                              ELSE Push(r, Tail(r.todo))

Continue(c, r) == call' = [call EXCEPT ![c] = r]

\* Is the recipient's device here?  If not, get_known_relays reads the
\* registry; a file that cannot be read knows no relay.
Arrive(c) ==
    /\ At(c, "sent")
    /\ \/ /\ Local(call[c].at, call[c].env)
          /\ GoTo(c, "check")
          /\ UNCHANGED calm
       \/ /\ ~ Local(call[c].at, call[c].env)
          /\ \/ Continue(c, Route(call[c], Known[call[c].at])) /\ UNCHANGED calm
             \/ Continue(c, Route(call[c], <<>>)) /\ calm' = FALSE
    /\ UNCHANGED <<tables, poll, outcome, clashed, raced, bounds>>

\* requests.post to the next relay; the handler's thread waits.
Post(c) ==
    /\ call[c].pc \in {"route", "push"}
    /\ Idle # {}
    /\ call' = [call EXCEPT
         ![c].pc = IF call[c].pc = "route" THEN "forward" ELSE "pushed",
         ![Unused] = Request(Head(call[c].todo), call[c].env, c)]
    /\ UNCHANGED <<tables, poll, outcome, history, bounds>>

Answers(c, d) == /\ call[c].pc \in {"forward", "pushed"}
                 /\ call[d].caller = c /\ call[d].pc \in {"ok", "failed"}

\* Mutant: no return after a success.
TakesNone(c, d) == FALSE
Takes(c, d) == At(c, "forward") /\ At(d, "ok")

\* The answer arrives.  Status 200 ends the first loop, and its caller gets
\* the same answer; the second loop prints it and goes on.
Collect(c, d) ==
    /\ Answers(c, d)
    /\ call' = [call EXCEPT
         ![c] = IF Takes(c, d) THEN [call[c] EXCEPT !.pc = "ok"] ELSE MoveOn(call[c]),
         ![d] = FreeCall]
    /\ UNCHANGED <<tables, poll, outcome, history, bounds>>

Orphan(r, gone) == IF r.caller \in gone THEN [r EXCEPT !.caller = Nobody] ELSE r

\* The connection is refused, the request is lost, or no answer comes within 3
\* or 5 seconds: the handler goes on, and so does whoever was called.
GiveUp(c) ==
    /\ call[c].pc \in {"route", "push", "forward", "pushed"}
    /\ call' = [x \in Call |-> IF x = c THEN MoveOn(call[c]) ELSE Orphan(call[x], {c})]
    /\ calm' = FALSE
    /\ UNCHANGED <<tables, poll, outcome, clashed, raced, bounds>>

\* The row is looked up, and inserted in a later statement.
Check(c) ==
    /\ At(c, "check")
    /\ IF RowAt(c) = "none" THEN GoTo(c, "insert")
                            ELSE Continue(c, Push(call[c], PEER_RELAYS[call[c].at]))
    /\ UNCHANGED <<tables, poll, outcome, history, bounds>>

Insert(c) ==
    /\ At(c, "insert")
    /\ \/ /\ RowAt(c) = "none"
          /\ Store(call[c].at, call[c].env)
          /\ Continue(c, Push(call[c], PEER_RELAYS[call[c].at]))
          /\ UNCHANGED clashed
       \/ /\ RowAt(c) # "none"
          /\ GoTo(c, "failed")
          /\ clashed' = TRUE
          /\ UNCHANGED tables
    /\ UNCHANGED <<poll, outcome, calm, raced, bounds>>

\* The answer to a client, or to nobody any more.
Answer(c) ==
    /\ call[c].pc \in {"ok", "failed"} /\ call[c].caller \notin Call
    /\ told' = IF At(c, "ok") /\ call[c].caller = Client THEN told \cup {call[c].env}
                                                         ELSE told
    /\ call' = [call EXCEPT ![c] = FreeCall]
    /\ UNCHANGED <<tables, poll, given, again, got, history, bounds>>

-----------------------------------------------------------------------------
(* The other handlers.                                                     *)

\* POST /api/envelopes/relay-forward: the user has a row here, and so far the
\* envelope has none; a second copy fails on the UNIQUE id.
RelayForward(e) ==
    /\ row[HomeOf(e)][e] = "none"
    /\ Sent
    /\ Store(HomeOf(e), e)
    /\ UNCHANGED <<call, poll, outcome, history, flushed, faults>>

\* Everything queued for the Blank ID, whichever device polls.
Queued(d) == {e \in Envelope : Owner[To[e]] = Owner[d] /\ row[HomeOf(e)][e] = "queued"}

Resting == {p \in Poll : poll[p].pc = "free"}
Spare == CHOOSE p \in Resting : TRUE

\* GET /api/envelopes/poll reads the rows ...
PollRead(d) ==
    /\ Resting # {} /\ Queued(d) # {}
    /\ poll' = [poll EXCEPT ![Spare] =
                  [pc |-> "mark", device |-> d, rows |-> Queued(d), lost |-> FALSE]]
    /\ UNCHANGED <<tables, call, outcome, history, bounds>>

\* Mutants: the rows are handed out and stay queued; a status of its own.
KeepStatus == "queued"
OtherStatus == "delivered"
Marked == "taken"

\* The answer reaches the device that polled, or is lost with all rows in it.
PollAnswer(d, rows) ==
    \/ /\ given' = given \cup rows
       /\ again' = again \cup (given \cap rows)
       /\ got' = got \cup {e \in rows : To[e] = d}
    \/ UNCHANGED <<given, again, got>>

HomeOfPoll(p) == Home[Owner[poll[p].device]]
StoredFor(p) == {e \in Envelope : row[HomeOfPoll(p)][e] # "none"}

\* What the ids that a poll has read stand for now: the same rows or, once a
\* flush has deleted those, any rows that have got the ids since.
Found(p, rows) == IF poll[p].lost THEN Cardinality(rows) = Cardinality(poll[p].rows)
                                  ELSE rows = poll[p].rows

\* ... and marks them before it answers, with what the ids then stand for.  An
\* id that a flush has left without a row fails the whole UPDATE.
PollMark(p) ==
    /\ poll[p].pc = "mark"
    /\ \/ /\ poll[p].lost
          /\ UNCHANGED <<row, raced, given, again, got>>
       \/ \E rows \in SUBSET StoredFor(p) :
            /\ Found(p, rows)
            /\ row' = [row EXCEPT ![HomeOfPoll(p)] = [e \in Envelope |->
                         IF e \in rows /\ @[e] = "queued" THEN Marked ELSE @[e]]]
            /\ raced' = (raced \/ \E e \in rows : row[HomeOfPoll(p)][e] # "queued")
            /\ PollAnswer(poll[p].device, rows)
    /\ poll' = [poll EXCEPT ![p] = FreePoll]
    /\ UNCHANGED <<kept, call, told, calm, clashed, bounds>>

\* Mutant: the receipt counts whatever the row's flag says.
AnyStatus(e) == row[HomeOf(e)][e] # "none"
NotYet(e) == row[HomeOf(e)][e] = "queued"

\* POST /api/envelopes/receipt from the device the envelope is for: only a
\* row not yet marked gets delivered_at and processed_at, and counts.
Receipt(e) ==
    /\ e \in got /\ NotYet(e)
    /\ row' = [row EXCEPT ![HomeOf(e)][e] = "processed"]
    /\ UNCHANGED <<kept, call, poll, outcome, history, bounds>>

Fault == faults < MaxFaults /\ faults' = faults + 1

\* POST /api/envelopes/flush deletes every row of the relay.
Flush(r) ==
    /\ Fault
    /\ flushed' = TRUE
    /\ row' = [row EXCEPT ![r] = [e \in Envelope |-> "none"]]
    /\ poll' = [p \in Poll |-> IF poll[p].pc = "mark" /\ HomeOfPoll(p) = r
                               THEN [poll[p] EXCEPT !.lost = TRUE] ELSE poll[p]]
    /\ UNCHANGED <<kept, call, outcome, history, sends>>

\* A relay restarts: its handlers are gone, and whom they called is on its own.
Crash(r) ==
    /\ Fault
    /\ LET gone == {c \in Call : call[c].at = r} IN
       call' = [c \in Call |-> IF c \in gone THEN FreeCall ELSE Orphan(call[c], gone)]
    /\ poll' = [p \in Poll |->
                  IF poll[p].pc # "free" /\ HomeOfPoll(p) = r THEN FreePoll
                                                               ELSE poll[p]]
    /\ calm' = FALSE
    /\ UNCHANGED <<tables, outcome, clashed, raced, flushed, sends>>

Step(c) == \/ Arrive(c) \/ Post(c) \/ GiveUp(c)
           \/ Check(c) \/ Insert(c) \/ Answer(c)
           \/ \E d \in Call : Collect(c, d)

Next == \/ \E c \in Call : Step(c)
        \/ \E e \in Envelope : RelayForward(e) \/ Receipt(e)
        \/ \E r \in Relay : Flush(r) \/ Crash(r) \/ \E e \in Envelope : Submit(r, e)
        \/ \E d \in Device : PollRead(d)
        \/ \E p \in Poll : PollMark(p)

Spec == Init /\ [][Next]_vars

\* A handler's thread runs on, and every wait ends by an answer or a timeout.
FairSpec == Spec /\ \A c \in Call : WF_vars(Step(c))

-----------------------------------------------------------------------------
(* Properties.                                                             *)

CallPCs == {"free", "sent", "route", "forward", "check", "insert", "push", "pushed",
            "ok", "failed"}

TypeOK ==
    /\ row \in [Relay -> [Envelope -> {"none", "queued", "taken", "processed"}]]
    /\ call \in [Call -> [pc : CallPCs, at : Relay \cup {None}, env : Envelope \cup {None},
                          todo : Seq(Relay), caller : Call \cup {Client, Nobody}]]
    /\ poll \in [Poll -> [pc : {"free", "mark"}, device : Device \cup {None},
                          rows : SUBSET Envelope, lost : BOOLEAN]]
    /\ kept \subseteq Envelope /\ told \subseteq Envelope
    /\ given \subseteq Envelope /\ again \subseteq given /\ got \subseteq given
    /\ calm \in BOOLEAN /\ clashed \in BOOLEAN /\ raced \in BOOLEAN
    /\ flushed \in BOOLEAN /\ sends \in 0..MaxSends /\ faults \in 0..MaxFaults

\* "Envelope sent successfully", from whichever relay at the end of whichever
\* chain of forwards, is never said of an envelope no relay has stored, and a
\* device gets only stored ones; neither is ever taken back.
MB == INSTANCE Mailbox
MailboxSpec == MB!Spec

\* Until a mailbox is emptied, an envelope reported as sent is stored at some
\* relay, wherever the chain of forwards ended; and while no forward has failed
\* or timed out, at the relay where its recipient polls, even when sends of one
\* envelope run into each other at the UNIQUE id.
AckedAtHome ==
    ~ flushed =>
        \A e \in told :
            /\ \E r \in Relay : row[r][e] # "none"
            /\ calm /\ To[e] \in Active => row[HomeOf(e)][e] # "none"

\* While besides no insert has clashed, no relay keeps a stray copy which its
\* recipient can never poll.
NoStray ==
    calm /\ ~ clashed =>
        \A r \in Relay, e \in Envelope :
            To[e] \in Active /\ row[r][e] # "none" => r = HomeOf(e)

\* However many devices poll, and whichever relays handed an envelope on, it
\* reaches one device once, unless two polls overlap or a flush forgets it.
AtMostOnce == ~ raced /\ ~ flushed => again = {}

\* A receipt always comes too late: polling has already marked the row, so
\* processed_at is never set as long as nothing is flushed.
ReceiptsTooLate == ~ flushed => \A r \in Relay, e \in Envelope : row[r][e] # "processed"

\* A client waits for the answer to a send of the envelope.
Waiting(e) == \E c \in Call : call[c].pc # "free" /\ call[c].env = e /\ call[c].caller = Client

\* Although relays can hand one envelope round in a circle, a client's request
\* comes to its end.
SendAnswered == \A e \in Envelope : Waiting(e) ~> ~ Waiting(e)
=============================================================================
