--------------------------- MODULE DeliveryProofs ---------------------------
(***************************************************************************)
(* Proofs about Delivery, for any relays, accounts, devices, envelopes and *)
(* bounds: type correctness, the mailbox the relays implement, that an     *)
(* acknowledged envelope is at home, that no stray copy is kept, and that  *)
(* a device gets an envelope once.                                         *)
(***************************************************************************)
EXTENDS Delivery, SequenceTheorems, TLAPS

USE CallAssumption, BoundAssumption DEF CallAssumption, BoundAssumption

Status == {"none", "queued", "taken", "processed"}

CallRec == [pc : CallPCs, at : Relay \cup {None}, env : Envelope \cup {None},
            todo : Seq(Relay), caller : Call \cup {Client, Nobody}]
PollRec == [pc : {"free", "mark"}, device : Device \cup {None}, rows : SUBSET Envelope,
            lost : BOOLEAN]

\* A request has a relay and an envelope, a loop has a relay left to try, and
\* nobody waits for a free slot.
Fit(r) == /\ r \in CallRec
          /\ r.pc # "free" => r.at \in Relay /\ r.env \in Envelope
          /\ r.pc = "free" => r.caller = Nobody
          /\ r.pc \in {"route", "forward", "push", "pushed"} => r.todo # <<>>

\* A handler that has got past the insert, and one about to say "sent".
KeptBy(r, kp) == r.pc \in {"push", "pushed", "ok"} => r.env \in kp

\* The envelopes that are stored where their recipients poll.
Held == {e \in Envelope : row[HomeOf(e)][e] # "none"}

\* While every forward is answered, a handler elsewhere has tried nobody yet,
\* or has heard from a relay where the envelope clashed with itself.
HomeBy(r, held) ==
    r.pc # "free" /\ To[r.env] \in Active =>
        /\ r.pc \in {"push", "pushed", "ok", "failed"} => r.env \in held
        /\ r.pc \in {"check", "insert"} => r.at = HomeOf(r.env) \/ r.env \in held
        /\ r.pc \in {"route", "forward"} =>
             r.at # HomeOf(r.env) /\ (r.todo = Known[r.at] \/ r.env \in held)

\* While besides nothing clashed, only the recipient's relay inserts.
CleanBy(r) ==
    r.pc # "free" =>
        /\ r.pc # "failed"
        /\ To[r.env] \in Active =>
             /\ r.pc \in {"check", "insert"} => r.at = HomeOf(r.env)
             /\ r.pc \in {"route", "forward"} =>
                  r.at # HomeOf(r.env) /\ r.todo = Known[r.at]

Types == /\ row \in [Relay -> [Envelope -> Status]]
         /\ call = [c \in Call |-> call[c]]
         /\ poll \in [Poll -> PollRec]
         /\ kept \subseteq Envelope /\ told \subseteq Envelope
         /\ given \subseteq Envelope /\ again \subseteq given /\ got \subseteq given
         /\ calm \in BOOLEAN /\ clashed \in BOOLEAN /\ raced \in BOOLEAN
         /\ flushed \in BOOLEAN /\ sends \in 0..MaxSends /\ faults \in 0..MaxFaults

\* A request waits for at most one answer, about the envelope it has itself.
Links == /\ \A c, d \in Call : call[d].caller = c =>
              c # d /\ call[c].pc \in {"forward", "pushed"} /\ call[c].env = call[d].env
         /\ \A c, d, x \in Call : call[d].caller = c /\ call[x].caller = c => d = x

Stored == /\ \A r \in Relay, e \in Envelope : row[r][e] # "none" => e \in kept
          /\ \A p \in Poll : poll[p].rows \subseteq kept
          /\ told \subseteq kept /\ given \subseteq kept

-----------------------------------------------------------------------------
(* How a step changes the calls.                                           *)

\* A slot that stays, loses its caller, is freed or gets a new request.
Harmless(new, old) ==
    \/ new = old
    \/ new = [old EXCEPT !.caller = Nobody]
    \/ new = FreeCall
    \/ \E r \in Relay, e \in Envelope, w \in Call \cup {Client} : new = Request(r, e, w)

LEMMA HomeOfType == \A e \in Envelope : HomeOf(e) \in Relay
  BY AddressAssumption DEF AddressAssumption, HomeOf

LEMMA HarmlessKeeps ==
  ASSUME NEW new, NEW old, Harmless(new, old), Fit(old), NEW kp, NEW held
  PROVE  /\ Fit(new)
         /\ KeptBy(old, kp) => KeptBy(new, kp)
         /\ HomeBy(old, held) => HomeBy(new, held)
         /\ CleanBy(old) => CleanBy(new)
  <1>1. CASE new = old
    BY <1>1
  <1>2. CASE new = [old EXCEPT !.caller = Nobody]
    <2>1. /\ new.pc = old.pc /\ new.at = old.at /\ new.env = old.env /\ new.todo = old.todo
          /\ new.caller = Nobody /\ new \in CallRec
      BY <1>2 DEF Fit, CallRec
    <2> QED BY <2>1 DEF Fit, KeptBy, HomeBy, CleanBy
  <1>3. CASE new = FreeCall
    <2>1. new.pc = "free" /\ new.caller = Nobody /\ new \in CallRec
      BY <1>3 DEF FreeCall, CallRec, CallPCs
    <2> QED BY <2>1 DEF Fit, KeptBy, HomeBy, CleanBy
  <1>4. ASSUME NEW r \in Relay, NEW e \in Envelope, NEW w \in Call \cup {Client},
               new = Request(r, e, w)
        PROVE  Fit(new) /\ KeptBy(new, kp) /\ HomeBy(new, held) /\ CleanBy(new)
    <2>1. new.pc = "sent" /\ new.at = r /\ new.env = e /\ new \in CallRec
      BY <1>4 DEF Request, CallRec, CallPCs
    <2> QED BY <2>1 DEF Fit, KeptBy, HomeBy, CleanBy
  <1> QED BY <1>1, <1>2, <1>3, <1>4 DEF Harmless

LEMMA HeldGrows ==
  ASSUME NEW r, NEW A, NEW B, A \subseteq B
  PROVE  (KeptBy(r, A) => KeptBy(r, B)) /\ (HomeBy(r, A) => HomeBy(r, B))
  BY DEF KeptBy, HomeBy

LEMMA UnusedIdle == Idle # {} => Unused \in Call /\ call[Unused].pc = "free"
  BY DEF Idle, Unused, At

\* What the two loops make of a record.
LEMMA LoopShape ==
  ASSUME NEW r, Fit(r), r.pc # "free", NEW relays, relays \in Seq(Relay)
  PROVE  /\ Fit(Route(r, relays)) /\ Fit(Push(r, relays))
         /\ Route(r, relays).env = r.env /\ Route(r, relays).at = r.at
         /\ Route(r, relays).todo = relays /\ Route(r, relays).caller = r.caller
         /\ Route(r, relays).pc = "check" \/ Route(r, relays).pc = "route"
         /\ Route(r, relays).pc = "check" <=> relays = <<>>
         /\ Push(r, relays).env = r.env /\ Push(r, relays).at = r.at
         /\ Push(r, relays).caller = r.caller
         /\ Push(r, relays).pc = "ok" \/ Push(r, relays).pc = "push"
  BY DEF Fit, CallRec, CallPCs, Route, Push

LEMMA MoveOnShape ==
  ASSUME NEW r, Fit(r), r.pc \in {"route", "forward", "push", "pushed"}
  PROVE  /\ Fit(MoveOn(r))
         /\ MoveOn(r).env = r.env /\ MoveOn(r).at = r.at /\ MoveOn(r).caller = r.caller
         /\ r.pc \in {"route", "forward"} => MoveOn(r).pc \in {"check", "route"}
         /\ r.pc \in {"push", "pushed"} => MoveOn(r).pc \in {"ok", "push"}
  <1> DEFINE t == Tail(r.todo)
  <1>1. t \in Seq(Relay) /\ r.pc # "free"
    BY DEF Fit, CallRec
  <1>2. MoveOn(r) = IF r.pc \in {"route", "forward"} THEN Route(r, t) ELSE Push(r, t)
    BY DEF MoveOn
  <1> HIDE DEF t
  <1>3. /\ Fit(Route(r, t)) /\ Fit(Push(r, t))
        /\ Route(r, t).env = r.env /\ Route(r, t).at = r.at /\ Route(r, t).caller = r.caller
        /\ Push(r, t).env = r.env /\ Push(r, t).at = r.at /\ Push(r, t).caller = r.caller
        /\ Route(r, t).pc \in {"check", "route"} /\ Push(r, t).pc \in {"ok", "push"}
    BY <1>1, LoopShape
  <1>4. CASE r.pc \in {"route", "forward"}
    BY <1>2, <1>3, <1>4
  <1>5. CASE r.pc \in {"push", "pushed"}
    BY <1>2, <1>3, <1>5
  <1> QED BY <1>4, <1>5

\* All that the invariants say of one call.
Good(r, kp, held, sure, clean) == /\ Fit(r) /\ KeptBy(r, kp)
                                  /\ sure = TRUE => HomeBy(r, held)
                                  /\ clean = TRUE => CleanBy(r)

Sure == calm /\ ~ flushed
Clean == calm /\ ~ clashed
Calls == \A c \in Call : Good(call[c], kept, Held, Sure, Clean)

\* What has been said and handed out.
ToldHome == Sure => \A e \in told : To[e] \in Active => e \in Held

GivenInv == ~ flushed => \A e \in given : row[HomeOf(e)][e] \in {"taken", "processed"}

IInv == /\ Types /\ Calls /\ Links /\ Stored
        /\ ToldHome /\ NoStray /\ GivenInv /\ AtMostOnce /\ ReceiptsTooLate

\* The state only ever makes it easier for a call to be good.
Easier == /\ kept \subseteq kept'
          /\ Sure' => Sure /\ Held \subseteq Held'
          /\ Clean' => Clean

LEMMA StaysGood ==
  ASSUME NEW new, NEW old, Harmless(new, old), Easier,
         Good(old, kept, Held, Sure, Clean)
  PROVE  Good(new, kept', Held', Sure', Clean')
  <1>1. Fit(old) /\ KeptBy(old, kept)
    BY DEF Good
  <1>2. Fit(new) /\ KeptBy(new, kept')
    BY <1>1, HarmlessKeeps, HeldGrows DEF Easier
  <1>3. ASSUME Sure' = TRUE PROVE HomeBy(new, Held')
    <2>1. Sure = TRUE /\ Held \subseteq Held'
      BY <1>3 DEF Easier, Sure
    <2> QED BY <1>1, <2>1, HarmlessKeeps, HeldGrows DEF Good
  <1>4. ASSUME Clean' = TRUE PROVE CleanBy(new)
    <2>1. Clean = TRUE
      BY <1>4 DEF Easier, Clean
    <2> QED BY <1>1, <2>1, HarmlessKeeps DEF Good
  <1> QED BY <1>2, <1>3, <1>4 DEF Good

\* A step of one call, or of none.
LEMMA NoCallStep ==
  ASSUME Calls, Easier, \A x \in Call : Harmless(call'[x], call[x])
  PROVE  Calls'
  <1>1. ASSUME NEW x \in Call PROVE Good(call'[x], kept', Held', Sure', Clean')
    BY StaysGood DEF Calls
  <1> QED BY <1>1 DEF Calls

LEMMA OneCallStep ==
  ASSUME Calls, Easier, NEW c \in Call,
         \A x \in Call : x # c => Harmless(call'[x], call[x]) \/ call'[x] = call[x],
         Good(call'[c], kept', Held', Sure', Clean')
  PROVE  Calls'
  <1>1. ASSUME NEW x \in Call, x # c PROVE Good(call'[x], kept', Held', Sure', Clean')
    <2>1. Harmless(call'[x], call[x])
      BY <1>1 DEF Harmless
    <2> QED BY <2>1, StaysGood DEF Calls
  <1> QED BY <1>1 DEF Calls

\* Callers wait as before, except where a call is answered or given up.
LEMMA LinksStep ==
  ASSUME Links,
         \A x, w \in Call : call'[x].caller = w =>
            /\ call[x].caller = w /\ call'[x].env = call[x].env
            /\ call'[w].pc \in {"forward", "pushed"} /\ call'[w].env = call[w].env
  PROVE  Links'
  <1>1. ASSUME NEW x \in Call, NEW w \in Call, call'[x].caller = w
        PROVE  w # x /\ call'[w].pc \in {"forward", "pushed"} /\ call'[w].env = call'[x].env
    BY <1>1 DEF Links
  <1>2. ASSUME NEW x \in Call, NEW y \in Call, NEW w \in Call,
               call'[x].caller = w, call'[y].caller = w
        PROVE  x = y
    <2>1. call[x].caller = w /\ call[y].caller = w
      BY <1>2
    <2> QED BY <2>1 DEF Links
  <1> QED BY <1>1, <1>2 DEF Links

\* A handler's own move leaves the links alone if it waits for nobody.
LEMMA OwnMoveLinks ==
  ASSUME Types, Links, NEW c \in Call, NEW n, call' = [call EXCEPT ![c] = n],
         n.caller = call[c].caller \/ n.caller \notin Call,
         n.env = call[c].env \/ n.caller \notin Call,
         call[c].pc \notin {"forward", "pushed"}
  PROVE  Links'
  <1>1. call'[c] = n /\ \A x \in Call : x # c => call'[x] = call[x]
    BY DEF Types
  <1>2. \A x \in Call : call[x].caller # c
    BY DEF Links
  <1>3. ASSUME NEW x \in Call, NEW w \in Call, call'[x].caller = w
        PROVE  /\ call[x].caller = w /\ call'[x].env = call[x].env
               /\ call'[w].pc \in {"forward", "pushed"} /\ call'[w].env = call[w].env
    <2>1. call[x].caller = w /\ call'[x].env = call[x].env
      BY <1>1, <1>3
    <2>2. w # c
      BY <1>2, <2>1
    <2> QED BY <1>1, <2>1, <2>2 DEF Links
  <1> QED BY <1>3, LinksStep

\* What a step of the calls alone leaves as it was, and what it may add.
Elsewhere == /\ UNCHANGED <<row, kept, given, again, got, raced, flushed>>
             /\ poll' \in [Poll -> PollRec] /\ \A p \in Poll : poll'[p].rows \subseteq kept
             /\ told' \subseteq kept
             /\ Sure => \A e \in told' : To[e] \in Active => e \in Held
             /\ calm' \in BOOLEAN /\ (calm' = TRUE => calm = TRUE)
             /\ clashed' \in BOOLEAN /\ (clashed = TRUE => clashed' = TRUE)
             /\ sends' \in 0..MaxSends /\ faults' \in 0..MaxFaults
             /\ call' = [c \in Call |-> call'[c]]

LEMMA ElsewhereStep ==
  ASSUME IInv, Elsewhere
  PROVE  /\ Easier
         /\ Types' /\ Stored' /\ ToldHome' /\ NoStray' /\ GivenInv' /\ AtMostOnce'
         /\ ReceiptsTooLate'
  <1> USE DEF IInv, Elsewhere
  <1>1. Types'
    BY DEF Types
  <1>2. Stored' /\ GivenInv' /\ AtMostOnce' /\ ReceiptsTooLate'
    BY DEF Stored, GivenInv, AtMostOnce, ReceiptsTooLate
  <1>3. Held' = Held /\ (Sure' => Sure) /\ (Clean' => Clean)
    <2>1. Held' = Held
      BY DEF Held
    <2>2. (Sure' => Sure) /\ (Clean' => Clean)
      BY Zenon DEF Sure, Clean, Types
    <2> QED BY <2>1, <2>2
  <1>4. ToldHome' /\ NoStray'
    BY <1>3 DEF ToldHome, NoStray, Clean
  <1> QED BY <1>1, <1>2, <1>3, <1>4 DEF Easier

\* The common case: only calls and a bound change.
LEMMA OnlyCalls ==
  ASSUME IInv, UNCHANGED <<row, kept, given, again, got, raced, flushed, poll, told>>
  PROVE  /\ poll' \in [Poll -> PollRec] /\ \A p \in Poll : poll'[p].rows \subseteq kept
         /\ told' \subseteq kept
         /\ Sure => \A e \in told' : To[e] \in Active => e \in Held
  BY DEF IInv, Types, Stored, ToldHome

-----------------------------------------------------------------------------
(* The handler of /api/envelopes/send.                                     *)

LEMMA SubmitStep ==
  ASSUME IInv, NEW r \in Relay, NEW e \in Envelope, Submit(r, e) PROVE IInv'
  <1> DEFINE n == Request(r, e, Client)
  <1>1. Unused \in Call /\ call[Unused].pc = "free" /\ call' = [call EXCEPT ![Unused] = n]
    BY UnusedIdle DEF Submit
  <1>2. n.caller \notin Call
    BY DEF Request
  <1>3. Harmless(n, call[Unused])
    BY DEF Harmless
  <1> HIDE DEF n
  <1>4. call'[Unused] = n /\ \A x \in Call : x # Unused => call'[x] = call[x]
    BY <1>1 DEF IInv, Types
  <1>5. Elsewhere
    <2>1. sends' \in 0..MaxSends
      BY DEF Submit, Sent, IInv, Types
    <2>2. call' = [c \in Call |-> call'[c]]
      BY <1>1 DEF IInv, Types
    <2>3. UNCHANGED <<row, kept, given, again, got, raced, flushed, poll, told>>
      BY DEF Submit, tables, outcome, history
    <2> QED BY <2>1, <2>2, <2>3, OnlyCalls
            DEF Submit, Elsewhere, tables, outcome, history, IInv, Types
  <1>6. ASSUME NEW x \in Call PROVE Harmless(call'[x], call[x])
    <2>1. CASE x = Unused
      BY <1>3, <1>4, <2>1
    <2>2. CASE x # Unused
      BY <1>4, <2>2 DEF Harmless
    <2> QED BY <2>1, <2>2
  <1>7. Calls'
    BY <1>5, <1>6, ElsewhereStep, NoCallStep DEF IInv
  <1>8. Links'
    BY <1>1, <1>2, OwnMoveLinks DEF IInv
  <1> QED BY <1>5, <1>7, <1>8, ElsewhereStep DEF IInv

\* A relay other than the recipient's has a relay to try.
LEMMA HomeKnown ==
  ASSUME NEW r \in Relay, NEW e \in Envelope, HomeOf(e) # r
  PROVE  Known[r] # <<>> /\ Known[r] \in Seq(Relay)
  <1>1. PICK i \in 1..Len(Known[r]) : Known[r][i] = HomeOf(e)
    BY HomeOfType, RelayAssumption DEF RelayAssumption
  <1> QED BY <1>1, RelayAssumption DEF RelayAssumption

LEMMA ArriveStep == ASSUME IInv, NEW c \in Call, Arrive(c) PROVE IInv'
  <1> DEFINE old == call[c]
  <1>1. /\ old.pc = "sent" /\ Fit(old) /\ old.at \in Relay /\ old.env \in Envelope
        /\ Known[old.at] \in Seq(Relay)
    BY RelayAssumption DEF RelayAssumption, Arrive, At, IInv, Calls, Good, Fit
  <1>2. PICK n :
          /\ call' = [call EXCEPT ![c] = n]
          /\ n.caller = old.caller /\ n.env = old.env /\ Fit(n)
          /\ n.pc \in {"check", "route"}
          /\ calm' \in {calm, FALSE}
          /\ calm' = TRUE /\ To[n.env] \in Active =>
               \/ n.pc = "check" /\ n.at = HomeOf(n.env)
               \/ n.pc = "route" /\ n.at # HomeOf(n.env) /\ n.todo = Known[n.at]
    <2>1. CASE Local(old.at, old.env) /\ GoTo(c, "check") /\ UNCHANGED calm
      <3> DEFINE n == [old EXCEPT !.pc = "check"]
      <3>1. call' = [call EXCEPT ![c] = n]
        BY <2>1 DEF GoTo
      <3>2. /\ n.caller = old.caller /\ n.env = old.env /\ Fit(n)
            /\ n.pc = "check" /\ n.at = old.at
        BY <1>1 DEF Fit, CallRec, CallPCs
      <3>3. HomeOf(old.env) = old.at
        BY <2>1 DEF Local
      <3> HIDE DEF n
      <3> QED BY <2>1, <3>1, <3>2, <3>3
    <2>2. CASE ~ Local(old.at, old.env) /\ Continue(c, Route(old, Known[old.at])) /\ UNCHANGED calm
      <3> DEFINE k == Known[old.at]
                 n == Route(old, k)
      <3>1. call' = [call EXCEPT ![c] = n]
        BY <2>2 DEF Continue
      <3>2. k \in Seq(Relay)
        BY <1>1
      <3>3. To[old.env] \in Active => k # <<>> /\ old.at # HomeOf(old.env)
        BY <1>1, <2>2, HomeKnown DEF Local
      <3> HIDE DEF k
      <3>4. /\ n.caller = old.caller /\ n.env = old.env /\ Fit(n) /\ n.at = old.at
            /\ n.todo = k
            /\ n.pc \in {"check", "route"} /\ (k # <<>> => n.pc = "route")
        BY <1>1, <3>2, LoopShape
      <3> HIDE DEF n
      <3>5. k = Known[n.at]
        BY <3>4 DEF k
      <3> QED BY <2>2, <3>1, <3>3, <3>4, <3>5
    <2>3. CASE Continue(c, Route(old, <<>>)) /\ calm' = FALSE
      <3> DEFINE n == Route(old, <<>>)
      <3>1. call' = [call EXCEPT ![c] = n]
        BY <2>3 DEF Continue
      <3>2. n.caller = old.caller /\ n.env = old.env /\ Fit(n) /\ n.pc = "check"
        <4>1. <<>> \in Seq(Relay)
          OBVIOUS
        <4> QED BY <1>1, <4>1, LoopShape
      <3> HIDE DEF n
      <3> QED BY <2>3, <3>1, <3>2
    <2> QED BY <2>1, <2>2, <2>3 DEF Arrive
  <1>3. call'[c] = n /\ \A x \in Call : x # c => call'[x] = call[x]
    BY <1>2 DEF IInv, Types
  <1>4. Elsewhere
    <2>1. call' = [x \in Call |-> call'[x]]
      BY <1>2 DEF IInv, Types
    <2>2. calm' \in {calm, FALSE} /\ calm \in BOOLEAN
      BY <1>2 DEF IInv, Types
    <2>3. (calm' = TRUE => calm = TRUE) /\ calm' \in BOOLEAN
      BY <2>2, Zenon
    <2>4. UNCHANGED <<row, kept, given, again, got, raced, flushed, poll, told>>
      BY DEF Arrive, tables, outcome, bounds
    <2> QED BY <2>1, <2>3, <2>4, OnlyCalls
            DEF Arrive, Elsewhere, tables, outcome, bounds, IInv, Types
  <1>5. Good(n, kept', Held', Sure', Clean')
    BY <1>2 DEF Good, KeptBy, HomeBy, CleanBy, Sure, Clean
  <1>6. Calls'
    BY <1>3, <1>4, <1>5, ElsewhereStep, OneCallStep DEF IInv
  <1>7. Links'
    BY <1>1, <1>2, OwnMoveLinks DEF IInv
  <1> QED BY <1>4, <1>6, <1>7, ElsewhereStep DEF IInv

LEMMA PostStep == ASSUME IInv, NEW c \in Call, Post(c) PROVE IInv'
  <1> DEFINE old == call[c]
             n == [old EXCEPT !.pc = IF old.pc = "route" THEN "forward" ELSE "pushed"]
             new == Request(Head(old.todo), old.env, c)
  <1>1. /\ old.pc \in {"route", "push"} /\ Good(old, kept, Held, Sure, Clean) /\ Fit(old)
        /\ old.env \in Envelope
    BY DEF Post, IInv, Calls, Good, Fit
  <1>2. Head(old.todo) \in Relay
    BY <1>1 DEF Fit, CallRec
  <1>3. Unused \in Call /\ call[Unused].pc = "free" /\ Unused # c
    BY <1>1, UnusedIdle DEF Post
  <1>4. /\ call'[c] = n /\ call'[Unused] = new
        /\ \A x \in Call : x # c /\ x # Unused => call'[x] = call[x]
        /\ call' = [x \in Call |-> call'[x]]
    BY <1>3 DEF Post, IInv, Types
  <1>5. /\ n.at = old.at /\ n.env = old.env /\ n.todo = old.todo /\ n.caller = old.caller
        /\ old.pc = "route" => n.pc = "forward"
        /\ old.pc = "push" => n.pc = "pushed"
        /\ n \in CallRec
    BY <1>1 DEF Fit, CallRec, CallPCs
  <1>6. Harmless(new, call[Unused]) /\ new.caller = c /\ new.env = old.env
    BY <1>1, <1>2 DEF Harmless, Request
  <1> HIDE DEF n, new
  <1>7. Good(n, kept, Held, Sure, Clean)
    BY <1>1, <1>5 DEF Good, Fit, KeptBy, HomeBy, CleanBy
  <1>8. Elsewhere /\ UNCHANGED <<kept, Held, Sure, Clean>>
    <2>1. UNCHANGED <<row, kept, given, again, got, raced, flushed, poll, told>>
      BY DEF Post, tables, outcome, history, bounds
    <2> QED BY <1>4, <2>1, OnlyCalls
            DEF Post, Elsewhere, tables, outcome, history, bounds, IInv, Types, Held, Sure, Clean
  <1>9. Calls'
    <2>1. ASSUME NEW x \in Call, x # c
          PROVE  Harmless(call'[x], call[x]) \/ call'[x] = call[x]
      BY <1>4, <1>6, <2>1
    <2>2. Good(call'[c], kept', Held', Sure', Clean')
      BY <1>4, <1>7, <1>8
    <2> QED BY <1>8, <2>1, <2>2, ElsewhereStep, OneCallStep DEF IInv
  <1>10. Links'
    <2>1. \A x \in Call : call[x].caller # c /\ call[x].caller # Unused
      BY <1>1, <1>3 DEF IInv, Links
    <2>2. ASSUME NEW w \in Call, NEW x \in Call, call'[x].caller = w
          PROVE  \/ x = Unused /\ w = c
                 \/ /\ x # Unused /\ w # c /\ w # Unused
                    /\ call[x].caller = w /\ call'[x].env = call[x].env
                    /\ call'[w] = call[w]
      <3>1. CASE x = Unused
        BY <1>4, <1>6, <2>2, <3>1
      <3>2. CASE x # Unused
        <4>1. call[x].caller = w /\ call'[x].env = call[x].env
          BY <1>4, <1>5, <2>2, <3>2
        <4> QED BY <1>4, <2>1, <3>2, <4>1
      <3> QED BY <3>1, <3>2
    <2>3. ASSUME NEW w \in Call, NEW x \in Call, call'[x].caller = w
          PROVE  /\ w # x /\ call'[w].pc \in {"forward", "pushed"}
                 /\ call'[w].env = call'[x].env
      <3>1. CASE x = Unused /\ w = c
        BY <1>1, <1>3, <1>4, <1>5, <1>6, <3>1
      <3>2. CASE call[x].caller = w /\ call'[x].env = call[x].env /\ call'[w] = call[w]
        BY <3>2 DEF IInv, Links
      <3> QED BY <2>2, <2>3, <3>1, <3>2
    <2>4. ASSUME NEW w \in Call, NEW x \in Call, NEW y \in Call,
                 call'[x].caller = w, call'[y].caller = w
          PROVE  x = y
      <3>1. \/ x = Unused /\ y = Unused
            \/ call[x].caller = w /\ call[y].caller = w
        BY <2>2, <2>4
      <3> QED BY <3>1 DEF IInv, Links
    <2> QED BY <2>3, <2>4 DEF Links
  <1> QED BY <1>8, <1>9, <1>10, ElsewhereStep DEF IInv

\* The answer counts for what the callee's handler has made sure of.
LEMMA CollectStep ==
  ASSUME IInv, NEW c \in Call, NEW d \in Call, Collect(c, d) PROVE IInv'
  <1> DEFINE old == call[c]
             ans == call[d]
             n == IF Takes(c, d) THEN [old EXCEPT !.pc = "ok"] ELSE MoveOn(old)
  <1>1. /\ old.pc \in {"forward", "pushed"} /\ ans.pc \in {"ok", "failed"}
        /\ ans.caller = c /\ c # d /\ old.env = ans.env
    BY DEF Collect, Answers, IInv, Links
  <1>2. /\ Good(old, kept, Held, Sure, Clean) /\ Fit(old)
        /\ Good(ans, kept, Held, Sure, Clean)
    BY DEF IInv, Calls, Good
  <1>3. /\ call'[c] = n /\ call'[d] = FreeCall
        /\ \A x \in Call : x # c /\ x # d => call'[x] = call[x]
        /\ call' = [x \in Call |-> call'[x]]
    BY <1>1 DEF Collect, IInv, Types
  <1>4. /\ n.env = old.env /\ n.caller = old.caller /\ n.at = old.at
        /\ Good(n, kept, Held, Sure, Clean)
    <2>1. CASE old.pc = "forward" /\ ans.pc = "ok"
      <3>1. n = [old EXCEPT !.pc = "ok"]
        BY <2>1 DEF Takes, At
      <3>2. /\ n.pc = "ok" /\ n.env = old.env /\ n.caller = old.caller /\ n.at = old.at
            /\ n \in CallRec
        BY <1>2, <3>1 DEF Fit, CallRec, CallPCs
      <3> HIDE DEF n
      <3> QED BY <1>1, <1>2, <2>1, <3>2 DEF Good, Fit, KeptBy, HomeBy, CleanBy
    <2>2. CASE old.pc = "forward" /\ ans.pc = "failed"
      <3>1. n = MoveOn(old)
        BY <2>2 DEF Takes, At
      <3> HIDE DEF n
      <3>2. /\ Fit(n) /\ n.env = old.env /\ n.caller = old.caller /\ n.at = old.at
            /\ n.pc \in {"check", "route"}
        BY <1>2, <2>2, <3>1, MoveOnShape
      <3> QED BY <1>1, <1>2, <2>2, <3>2 DEF Good, KeptBy, HomeBy, CleanBy
    <2>3. CASE old.pc = "pushed"
      <3>1. n = MoveOn(old)
        BY <2>3 DEF Takes, At
      <3> HIDE DEF n
      <3>2. /\ Fit(n) /\ n.env = old.env /\ n.caller = old.caller /\ n.at = old.at
            /\ n.pc \in {"ok", "push"}
        BY <1>2, <2>3, <3>1, MoveOnShape
      <3> QED BY <1>1, <1>2, <2>3, <3>2 DEF Good, KeptBy, HomeBy, CleanBy
    <2> QED BY <1>1, <2>1, <2>2, <2>3
  <1> HIDE DEF n
  <1>5. Elsewhere /\ UNCHANGED <<kept, Held, Sure, Clean>>
    <2>1. UNCHANGED <<row, kept, given, again, got, raced, flushed, poll, told>>
      BY DEF Collect, tables, outcome, history, bounds
    <2> QED BY <1>3, <2>1, OnlyCalls
            DEF Collect, Elsewhere, tables, outcome, history, bounds, IInv, Types, Held, Sure, Clean
  <1>6. Calls'
    <2>1. ASSUME NEW x \in Call, x # c
          PROVE  Harmless(call'[x], call[x]) \/ call'[x] = call[x]
      BY <1>3, <2>1 DEF Harmless
    <2>2. Good(call'[c], kept', Held', Sure', Clean')
      BY <1>3, <1>4, <1>5
    <2> QED BY <1>5, <2>1, <2>2, ElsewhereStep, OneCallStep DEF IInv
  <1>7. Links'
    <2>1. \A x \in Call : call[x].caller # d /\ (call[x].caller = c => x = d)
      BY <1>1 DEF IInv, Links
    <2>2. ASSUME NEW x \in Call, NEW w \in Call, call'[x].caller = w
          PROVE  /\ call[x].caller = w /\ call'[x].env = call[x].env
                 /\ call'[w].pc \in {"forward", "pushed"} /\ call'[w].env = call[w].env
      <3>1. x # d
        BY <1>3, <2>2 DEF FreeCall
      <3>2. call[x].caller = w /\ call'[x].env = call[x].env
        BY <1>3, <1>4, <2>2, <3>1
      <3>3. w # c /\ w # d
        BY <2>1, <3>1, <3>2
      <3> QED BY <1>3, <3>2, <3>3 DEF IInv, Links
    <2> QED BY <2>2, LinksStep DEF IInv
  <1> QED BY <1>5, <1>6, <1>7, ElsewhereStep DEF IInv

LEMMA GiveUpStep == ASSUME IInv, NEW c \in Call, GiveUp(c) PROVE IInv'
  <1> DEFINE old == call[c]
             n == MoveOn(old)
  <1>1. old.pc \in {"route", "push", "forward", "pushed"} /\ Fit(old) /\ KeptBy(old, kept)
    BY DEF GiveUp, IInv, Calls, Good
  <1>2. /\ Fit(n) /\ n.env = old.env /\ n.caller = old.caller
        /\ old.pc \in {"route", "forward"} => n.pc \in {"check", "route"}
        /\ old.pc \in {"push", "pushed"} => n.pc \in {"ok", "push"}
    BY <1>1, MoveOnShape
  <1>3. /\ call'[c] = n /\ \A x \in Call : x # c => call'[x] = Orphan(call[x], {c})
        /\ call' = [x \in Call |-> call'[x]] /\ calm' = FALSE
    BY DEF GiveUp
  <1> HIDE DEF n
  <1>4. KeptBy(n, kept)
    BY <1>1, <1>2 DEF KeptBy
  <1>5. Elsewhere
    <2>1. UNCHANGED <<row, kept, given, again, got, raced, flushed, poll, told>>
      BY DEF GiveUp, tables, outcome, bounds
    <2> QED BY <1>3, <2>1, OnlyCalls DEF GiveUp, Elsewhere, tables, outcome, bounds, IInv, Types
  <1>6. Calls'
    <2>1. ASSUME NEW x \in Call, x # c
          PROVE  Harmless(call'[x], call[x]) \/ call'[x] = call[x]
      BY <1>3, <2>1 DEF Harmless, Orphan
    <2>2. kept' = kept /\ Sure' # TRUE /\ Clean' # TRUE
      BY <1>3, <1>5 DEF Elsewhere, Sure, Clean
    <2>3. Good(call'[c], kept', Held', Sure', Clean')
      BY <1>2, <1>3, <1>4, <2>2 DEF Good
    <2> QED BY <1>5, <2>1, <2>3, ElsewhereStep, OneCallStep DEF IInv
  <1>7. Links'
    <2>1. ASSUME NEW x \in Call, x # c
          PROVE  /\ call'[x].pc = call[x].pc /\ call'[x].env = call[x].env
                 /\ call'[x].caller = call[x].caller \/ call'[x].caller = Nobody
                 /\ call'[x].caller # c
      <3>1. call[x] \in CallRec
        BY DEF IInv, Calls, Good, Fit
      <3> QED BY <1>3, <2>1, <3>1 DEF Orphan, CallRec
    <2>2. call[c].caller # c
      BY DEF IInv, Links
    <2>3. ASSUME NEW x \in Call, NEW w \in Call, call'[x].caller = w
          PROVE  /\ call[x].caller = w /\ call'[x].env = call[x].env
                 /\ call'[w].pc \in {"forward", "pushed"} /\ call'[w].env = call[w].env
      <3>1. call[x].caller = w /\ call'[x].env = call[x].env /\ w # c
        <4>1. CASE x = c
          BY <1>2, <1>3, <2>2, <2>3, <4>1
        <4>2. CASE x # c
          BY <2>1, <2>3, <4>2
        <4> QED BY <4>1, <4>2
      <3> QED BY <2>1, <3>1 DEF IInv, Links
    <2> QED BY <2>3, LinksStep DEF IInv
  <1> QED BY <1>5, <1>6, <1>7, ElsewhereStep DEF IInv

LEMMA PeersType == \A r \in Relay : PEER_RELAYS[r] \in Seq(Relay)
  BY RelayAssumption DEF RelayAssumption

LEMMA CheckStep == ASSUME IInv, NEW c \in Call, Check(c) PROVE IInv'
  <1> DEFINE old == call[c]
             peers == PEER_RELAYS[old.at]
             n == IF RowAt(c) = "none" THEN [old EXCEPT !.pc = "insert"] ELSE Push(old, peers)
  <1>1. /\ old.pc = "check" /\ Good(old, kept, Held, Sure, Clean) /\ Fit(old)
        /\ old.at \in Relay /\ old.env \in Envelope /\ peers \in Seq(Relay)
    BY PeersType DEF Check, At, IInv, Calls, Good, Fit
  <1>2. call' = [call EXCEPT ![c] = n]
    BY DEF Check, GoTo, Continue
  <1>3. n.env = old.env /\ n.caller = old.caller /\ Good(n, kept, Held, Sure, Clean)
    <2>1. CASE RowAt(c) = "none"
      <3>1. n = [old EXCEPT !.pc = "insert"]
        BY <2>1
      <3>2. /\ n.pc = "insert" /\ n.env = old.env /\ n.caller = old.caller /\ n.at = old.at
            /\ n \in CallRec
        BY <1>1, <3>1 DEF Fit, CallRec, CallPCs
      <3> HIDE DEF n
      <3> QED BY <1>1, <3>2 DEF Good, Fit, KeptBy, HomeBy, CleanBy
    <2>2. CASE RowAt(c) # "none"
      <3>1. n = Push(old, peers)
        BY <2>2
      <3>2. row[old.at][old.env] # "none"
        BY <2>2 DEF RowAt
      <3>3. old.env \in kept /\ (old.at = HomeOf(old.env) => old.env \in Held)
        BY <1>1, <3>2 DEF IInv, Stored, Held
      <3> HIDE DEF n, peers
      <3>4. /\ n.env = old.env /\ n.caller = old.caller /\ n.at = old.at /\ Fit(n)
            /\ n.pc \in {"ok", "push"}
        BY <1>1, <3>1, LoopShape
      <3> QED BY <1>1, <3>3, <3>4 DEF Good, KeptBy, HomeBy, CleanBy
    <2> QED BY <2>1, <2>2
  <1> HIDE DEF n
  <1>4. /\ call'[c] = n /\ \A x \in Call : x # c => call'[x] = call[x]
        /\ call' = [x \in Call |-> call'[x]]
    BY <1>2 DEF IInv, Types
  <1>5. Elsewhere /\ UNCHANGED <<kept, Held, Sure, Clean>>
    <2>1. UNCHANGED <<row, kept, given, again, got, raced, flushed, poll, told>>
      BY DEF Check, tables, outcome, history, bounds
    <2> QED BY <1>4, <2>1, OnlyCalls
            DEF Check, Elsewhere, tables, outcome, history, bounds, IInv, Types, Held, Sure, Clean
  <1>6. Calls'
    BY <1>3, <1>4, <1>5, ElsewhereStep, OneCallStep DEF IInv
  <1>7. Links'
    BY <1>1, <1>2, <1>3, OwnMoveLinks DEF IInv
  <1> QED BY <1>5, <1>6, <1>7, ElsewhereStep DEF IInv

\* A new row, at home if nothing went wrong so far.
LEMMA StoreStep ==
  ASSUME IInv, NEW r \in Relay, NEW e \in Envelope, row[r][e] = "none", Store(r, e),
         Clean /\ To[e] \in Active => r = HomeOf(e),
         UNCHANGED <<poll, told, given, again, got, calm, clashed, raced, flushed, faults>>,
         sends' \in 0..MaxSends, call' = [x \in Call |-> call'[x]]
  PROVE  /\ Easier
         /\ Types' /\ Stored' /\ ToldHome' /\ NoStray' /\ GivenInv' /\ AtMostOnce'
         /\ ReceiptsTooLate'
         /\ e \in kept' /\ (r = HomeOf(e) => e \in Held')
  <1>1. /\ row'[r][e] = "queued" /\ kept' = kept \cup {e}
        /\ \A s \in Relay, f \in Envelope : s # r \/ f # e => row'[s][f] = row[s][f]
        /\ row' \in [Relay -> [Envelope -> Status]]
    BY DEF Store, IInv, Types, Status
  <1>2. Types'
    BY <1>1 DEF IInv, Types
  <1>3. Stored'
    BY <1>1 DEF IInv, Stored
  <1>4. Held \subseteq Held' /\ (r = HomeOf(e) => e \in Held')
    BY <1>1, HomeOfType DEF Held
  <1>5. Easier
    BY <1>1, <1>4 DEF Easier, Sure, Clean
  <1>6. ToldHome'
    BY <1>4 DEF IInv, ToldHome, Sure
  <1>7. NoStray'
    BY <1>1 DEF IInv, NoStray, Clean
  <1>8. GivenInv'
    BY <1>1, HomeOfType DEF IInv, GivenInv, Types
  <1>9. AtMostOnce' /\ ReceiptsTooLate'
    BY <1>1 DEF IInv, AtMostOnce, ReceiptsTooLate
  <1> QED BY <1>1, <1>2, <1>3, <1>4, <1>5, <1>6, <1>7, <1>8, <1>9

LEMMA InsertStep == ASSUME IInv, NEW c \in Call, Insert(c) PROVE IInv'
  <1> DEFINE old == call[c]
             peers == PEER_RELAYS[old.at]
  <1>1. /\ old.pc = "insert" /\ Good(old, kept, Held, Sure, Clean) /\ Fit(old)
        /\ old.at \in Relay /\ old.env \in Envelope /\ peers \in Seq(Relay)
    BY PeersType DEF Insert, At, IInv, Calls, Good, Fit
  <1>2. CASE /\ RowAt(c) = "none" /\ Store(old.at, old.env)
             /\ Continue(c, Push(old, peers)) /\ UNCHANGED clashed
    <2> DEFINE n == Push(old, peers)
    <2>1. call' = [call EXCEPT ![c] = n]
      BY <1>2 DEF Continue
    <2> HIDE DEF peers
    <2>2. /\ n.env = old.env /\ n.caller = old.caller /\ n.at = old.at /\ Fit(n)
          /\ n.pc \in {"ok", "push"}
      BY <1>1, LoopShape
    <2> HIDE DEF n
    <2>3. /\ call'[c] = n /\ \A x \in Call : x # c => call'[x] = call[x]
          /\ call' = [x \in Call |-> call'[x]]
      BY <2>1 DEF IInv, Types
    <2>4. Clean /\ To[old.env] \in Active => old.at = HomeOf(old.env)
      <3>1. CASE Clean = TRUE
        BY <1>1, <3>1 DEF Good, CleanBy
      <3>2. CASE Clean = FALSE
        BY <3>2
      <3> QED BY <3>1, <3>2 DEF Clean, IInv, Types
    <2>5. /\ Easier
          /\ Types' /\ Stored' /\ ToldHome' /\ NoStray' /\ GivenInv' /\ AtMostOnce'
          /\ ReceiptsTooLate'
          /\ old.env \in kept' /\ (old.at = HomeOf(old.env) => old.env \in Held')
      <3>1. row[old.at][old.env] = "none"
        BY <1>2 DEF RowAt
      <3>2. /\ UNCHANGED <<poll, told, given, again, got, calm, clashed, raced, flushed, faults>>
            /\ sends' \in 0..MaxSends
        BY <1>2 DEF Insert, outcome, bounds, IInv, Types
      <3> QED BY <1>1, <1>2, <2>3, <2>4, <3>1, <3>2, StoreStep
    <2>6. Sure' => (To[old.env] \in Active => old.env \in Held')
      <3>1. CASE Sure = TRUE
        BY <1>1, <2>5, <3>1 DEF Good, HomeBy, Easier
      <3>2. CASE Sure = FALSE
        BY <2>5, <3>2 DEF Easier
      <3> QED BY <3>1, <3>2 DEF Sure, IInv, Types
    <2>7. Good(n, kept', Held', Sure', Clean')
      BY <2>2, <2>5, <2>6 DEF Good, KeptBy, HomeBy, CleanBy
    <2>8. Calls'
      BY <2>3, <2>5, <2>7, OneCallStep DEF IInv
    <2>9. Links'
      BY <1>1, <2>1, <2>2, OwnMoveLinks DEF IInv
    <2> QED BY <2>5, <2>8, <2>9 DEF IInv
  <1>3. CASE RowAt(c) # "none" /\ GoTo(c, "failed") /\ clashed' = TRUE /\ UNCHANGED tables
    <2> DEFINE n == [old EXCEPT !.pc = "failed"]
    <2>1. call' = [call EXCEPT ![c] = n]
      BY <1>3 DEF GoTo
    <2>2. /\ n.env = old.env /\ n.caller = old.caller /\ n.at = old.at /\ n \in CallRec
          /\ n.pc = "failed"
      BY <1>1 DEF Fit, CallRec, CallPCs
    <2> HIDE DEF n
    <2>3. /\ call'[c] = n /\ \A x \in Call : x # c => call'[x] = call[x]
          /\ call' = [x \in Call |-> call'[x]]
      BY <2>1 DEF IInv, Types
    <2>4. old.at = HomeOf(old.env) => old.env \in Held
      BY <1>1, <1>3 DEF RowAt, Held
    <2>5. Elsewhere /\ UNCHANGED <<kept, Held, Sure>> /\ Clean' # TRUE
      <3>1. UNCHANGED <<row, kept, given, again, got, raced, flushed, poll, told>>
        BY <1>3 DEF Insert, tables, outcome, bounds
      <3>2. Clean' # TRUE
        BY <1>3, Zenon DEF Clean
      <3>3. UNCHANGED <<Held, Sure>> /\ calm' = calm
        BY <3>1 DEF Insert, Held, Sure
      <3>4. Elsewhere
        BY <1>3, <2>3, <3>1, <3>3, OnlyCalls DEF Insert, Elsewhere, bounds, IInv, Types
      <3> QED BY <3>1, <3>2, <3>3, <3>4
    <2>6. Good(n, kept', Held', Sure', Clean')
      <3>1. Fit(n) /\ KeptBy(n, kept)
        BY <1>1, <2>2 DEF Fit, KeptBy
      <3>2. Sure = TRUE => HomeBy(n, Held)
        BY <1>1, <2>2, <2>4 DEF Good, HomeBy
      <3> QED BY <2>5, <3>1, <3>2 DEF Good
    <2>7. Calls'
      BY <2>3, <2>5, <2>6, ElsewhereStep, OneCallStep DEF IInv
    <2>8. Links'
      BY <1>1, <2>1, <2>2, OwnMoveLinks DEF IInv
    <2> QED BY <2>5, <2>7, <2>8, ElsewhereStep DEF IInv
  <1> QED BY <1>2, <1>3 DEF Insert

\* "Sent" is said at the end of a handler that has the envelope stored.
LEMMA AnswerStep == ASSUME IInv, NEW c \in Call, Answer(c) PROVE IInv'
  <1>1. /\ call[c].pc \in {"ok", "failed"} /\ Good(call[c], kept, Held, Sure, Clean)
        /\ call' = [call EXCEPT ![c] = FreeCall]
        /\ FreeCall.caller \notin Call
    BY DEF Answer, IInv, Calls, FreeCall
  <1>2. /\ call'[c] = FreeCall /\ \A x \in Call : x # c => call'[x] = call[x]
        /\ call' = [x \in Call |-> call'[x]]
    BY <1>1 DEF IInv, Types
  <1>3. \/ told' = told
        \/ call[c].pc = "ok" /\ told' = told \cup {call[c].env}
    BY DEF Answer, At
  <1>4. told' \subseteq kept
    BY <1>1, <1>3 DEF Good, KeptBy, IInv, Stored
  <1>5. Sure => \A e \in told' : To[e] \in Active => e \in Held
    <2>1. CASE Sure = TRUE
      BY <1>1, <1>3, <2>1 DEF Good, HomeBy, IInv, ToldHome
    <2>2. CASE Sure = FALSE
      BY <2>2
    <2> QED BY <2>1, <2>2 DEF Sure, IInv, Types
  <1>6. Elsewhere
    BY <1>2, <1>4, <1>5 DEF Answer, Elsewhere, tables, history, bounds, IInv, Types, Stored
  <1>7. Calls'
    <2>1. \A x \in Call : Harmless(call'[x], call[x])
      BY <1>2 DEF Harmless
    <2> QED BY <1>6, <2>1, ElsewhereStep, NoCallStep DEF IInv
  <1>8. Links'
    BY <1>1, OwnMoveLinks DEF IInv
  <1> QED BY <1>6, <1>7, <1>8, ElsewhereStep DEF IInv

-----------------------------------------------------------------------------
(* The other handlers.                                                     *)

LEMMA SameCalls ==
  ASSUME IInv, Easier, UNCHANGED call PROVE Calls' /\ Links'
  <1>1. Calls'
    <2>1. \A x \in Call : Harmless(call'[x], call[x])
      BY DEF Harmless
    <2> QED BY <2>1, NoCallStep DEF IInv
  <1>2. Links'
    BY DEF IInv, Links
  <1> QED BY <1>1, <1>2

LEMMA RelayForwardStep == ASSUME IInv, NEW e \in Envelope, RelayForward(e) PROVE IInv'
  <1>1. /\ HomeOf(e) \in Relay /\ row[HomeOf(e)][e] = "none" /\ Store(HomeOf(e), e)
        /\ UNCHANGED <<call, poll, told, given, again, got, calm, clashed, raced, flushed, faults>>
        /\ sends' \in 0..MaxSends /\ call' = [x \in Call |-> call'[x]]
    BY HomeOfType DEF RelayForward, Sent, outcome, history, IInv, Types
  <1> DEFINE h == HomeOf(e)
  <1> HIDE DEF h
  <1>2. /\ Easier
        /\ Types' /\ Stored' /\ ToldHome' /\ NoStray' /\ GivenInv' /\ AtMostOnce'
        /\ ReceiptsTooLate'
    BY <1>1, StoreStep DEF h
  <1> QED BY <1>1, <1>2, SameCalls DEF IInv

\* A poll that is about to mark has read rows of its device's account, and
\* loses them to a flush only.
PollsFit == /\ poll = [p \in Poll |-> poll[p]]
            /\ flushed \in BOOLEAN
            /\ \A p \in Poll : poll[p].pc = "mark" =>
                 /\ poll[p].device \in Device
                 /\ \A e \in poll[p].rows : HomeOf(e) = HomeOfPoll(p)
                 /\ poll[p].lost => flushed

LEMMA PollsStep == ASSUME PollsFit, [Next]_vars PROVE PollsFit'
  <1> USE DEF tables, outcome, history, bounds
  <1>1. CASE UNCHANGED <<poll, flushed>>
    BY <1>1 DEF PollsFit, HomeOfPoll
  <1>2. ASSUME NEW d \in Device, PollRead(d) PROVE PollsFit'
    <2>1. /\ Spare \in Poll /\ UNCHANGED flushed
          /\ poll' = [poll EXCEPT ![Spare] =
                        [pc |-> "mark", device |-> d, rows |-> Queued(d), lost |-> FALSE]]
      BY <1>2 DEF PollRead, Resting, Spare
    <2>2. \A e \in Queued(d) : HomeOf(e) = Home[Owner[d]]
      BY DEF Queued, HomeOf
    <2> QED BY <2>1, <2>2 DEF PollsFit, HomeOfPoll
  <1>3. ASSUME NEW p \in Poll, PollMark(p) PROVE PollsFit'
    <2>1. poll' = [poll EXCEPT ![p] = FreePoll] /\ UNCHANGED flushed
      BY <1>3 DEF PollMark
    <2> QED BY <2>1 DEF PollsFit, HomeOfPoll, FreePoll
  <1>4. ASSUME NEW r \in Relay, Flush(r) PROVE PollsFit'
    <2>1. /\ flushed' = TRUE
          /\ poll' = [p \in Poll |-> IF poll[p].pc = "mark" /\ HomeOfPoll(p) = r
                                     THEN [poll[p] EXCEPT !.lost = TRUE] ELSE poll[p]]
      BY <1>4 DEF Flush
    <2>2. \A p \in Poll : /\ poll'[p].pc = poll[p].pc /\ poll'[p].device = poll[p].device
                          /\ poll'[p].rows = poll[p].rows
      BY <2>1
    <2> QED BY <2>1, <2>2 DEF PollsFit, HomeOfPoll
  <1>5. ASSUME NEW r \in Relay, Crash(r) PROVE PollsFit'
    <2>1. /\ UNCHANGED flushed /\ poll' = [p \in Poll |-> poll'[p]]
          /\ \A p \in Poll : poll'[p] = FreePoll \/ poll'[p] = poll[p]
      BY <1>5 DEF Crash
    <2> QED BY <2>1 DEF PollsFit, HomeOfPoll, FreePoll
  <1>6. ASSUME NEW c \in Call, Step(c) PROVE UNCHANGED <<poll, flushed>>
    BY <1>6 DEF Step, Arrive, Post, GiveUp, Check, Insert, Answer, Collect
  <1>7. ASSUME NEW e \in Envelope,
               RelayForward(e) \/ Receipt(e) \/ \E r \in Relay : Submit(r, e)
        PROVE  UNCHANGED <<poll, flushed>>
    BY <1>7 DEF RelayForward, Receipt, Submit
  <1>8. CASE UNCHANGED vars
    BY <1>1, <1>8 DEF vars
  <1> QED BY <1>1, <1>2, <1>3, <1>4, <1>5, <1>6, <1>7, <1>8 DEF Next

LEMMA PollsInvariance == Spec => []PollsFit
  <1>1. Init => PollsFit
    <2> SUFFICES ASSUME Init PROVE PollsFit
      OBVIOUS
    <2>1. \A p \in Poll : poll[p].pc = "free"
      BY DEF Init, FreePoll
    <2>2. poll = [p \in Poll |-> poll[p]] /\ flushed \in BOOLEAN
      BY DEF Init
    <2> QED BY <2>1, <2>2 DEF PollsFit
  <1> QED BY <1>1, PollsStep, PTL DEF Spec

\* A poll marks stored rows of one relay; without a flush, those it has read.
LEMMA PollHits ==
  ASSUME IInv, PollsFit, NEW p \in Poll, poll[p].pc = "mark",
         NEW rows \in SUBSET StoredFor(p), Found(p, rows)
  PROVE  /\ HomeOfPoll(p) \in Relay
         /\ rows \subseteq Envelope /\ rows \subseteq kept
         /\ \A e \in rows : row[HomeOfPoll(p)][e] # "none"
         /\ flushed = FALSE => \A e \in rows : HomeOf(e) = HomeOfPoll(p)
  <1>1. HomeOfPoll(p) \in Relay
    BY AddressAssumption DEF AddressAssumption, PollsFit, HomeOfPoll
  <1>2. /\ rows \subseteq Envelope /\ \A e \in rows : row[HomeOfPoll(p)][e] # "none"
    BY DEF StoredFor
  <1>3. rows \subseteq kept
    BY <1>1, <1>2 DEF IInv, Stored
  <1>4. flushed = FALSE => rows = poll[p].rows
    BY DEF Found, PollsFit, IInv, Types, PollRec
  <1> QED BY <1>1, <1>2, <1>3, <1>4 DEF PollsFit

LEMMA PollReadStep == ASSUME IInv, NEW d \in Device, PollRead(d) PROVE IInv'
  <1> DEFINE new == [pc |-> "mark", device |-> d, rows |-> Queued(d), lost |-> FALSE]
  <1>1. Spare \in Poll
    BY DEF PollRead, Resting, Spare
  <1>2. new \in PollRec /\ new.rows \subseteq kept
    <2>1. Queued(d) \subseteq kept
      BY HomeOfType DEF Queued, IInv, Stored
    <2>2. Queued(d) \subseteq Envelope
      BY DEF Queued
    <2> QED BY <2>1, <2>2 DEF PollRec
  <1>3. poll' = [poll EXCEPT ![Spare] = new]
    BY DEF PollRead
  <1> HIDE DEF new
  <1>4. poll' \in [Poll -> PollRec] /\ \A p \in Poll : poll'[p].rows \subseteq kept
    BY <1>1, <1>2, <1>3 DEF IInv, Types, Stored
  <1>5. Elsewhere
    <2>1. UNCHANGED <<row, kept, given, again, got, raced, flushed, told, calm, clashed, call, sends, faults>>
      BY DEF PollRead, tables, outcome, history, bounds
    <2> QED BY <1>4, <2>1 DEF Elsewhere, IInv, Types, Stored, ToldHome
  <1> QED BY <1>5, ElsewhereStep, SameCalls DEF IInv, PollRead

LEMMA FreedPoll ==
  ASSUME IInv, NEW p \in Poll, poll' = [poll EXCEPT ![p] = FreePoll]
  PROVE  poll' \in [Poll -> PollRec] /\ \A x \in Poll : poll'[x].rows \subseteq kept
  <1>1. FreePoll \in PollRec /\ FreePoll.rows \subseteq kept
    BY DEF FreePoll, PollRec
  <1> QED BY <1>1 DEF IInv, Types, Stored

\* Marked rows count as handed out; unless polls overlap, for the first time.
LEMMA PollMarkStep == ASSUME IInv, PollsFit, NEW p \in Poll, PollMark(p) PROVE IInv'
  <1> DEFINE h == HomeOfPoll(p)
  <1>1. /\ poll[p].pc = "mark" /\ poll' = [poll EXCEPT ![p] = FreePoll]
        /\ UNCHANGED <<kept, call, told, calm, clashed, flushed, sends, faults>>
    BY DEF PollMark, bounds
  <1>2. poll' \in [Poll -> PollRec] /\ \A x \in Poll : poll'[x].rows \subseteq kept
    BY <1>1, FreedPoll
  <1>3. CASE UNCHANGED <<row, raced, given, again, got>>
    <2>1. Elsewhere
      BY <1>1, <1>2, <1>3 DEF Elsewhere, IInv, Types, Stored, ToldHome
    <2> QED BY <1>1, <2>1, ElsewhereStep, SameCalls DEF IInv
  <1>4. ASSUME NEW rows \in SUBSET StoredFor(p), Found(p, rows),
               row' = [row EXCEPT ![h] = [e \in Envelope |->
                        IF e \in rows /\ @[e] = "queued" THEN Marked ELSE @[e]]],
               raced' = (raced \/ \E e \in rows : row[h][e] # "queued"),
               PollAnswer(poll[p].device, rows)
        PROVE  IInv'
    <2>0. /\ h \in Relay
          /\ rows \subseteq Envelope /\ rows \subseteq kept
          /\ \A e \in rows : row[h][e] # "none"
          /\ flushed = FALSE => \A e \in rows : HomeOf(e) = h
      BY <1>1, <1>4, PollHits
    <2>1. \A r \in Relay, e \in Envelope :
            row'[r][e] = IF r = h /\ e \in rows /\ row[h][e] = "queued" THEN "taken"
                                                                   ELSE row[r][e]
      BY <1>4, <2>0 DEF Marked, IInv, Types
    <2>3. /\ given \subseteq given' /\ given' \subseteq given \cup rows
          /\ again' \subseteq again \cup (given \cap rows) /\ again' \subseteq given'
          /\ got' \subseteq given'
      BY <1>4 DEF PollAnswer, IInv, Types
    <2>4. raced' \in BOOLEAN /\ (raced' = FALSE => raced = FALSE)
      BY <1>4, Zenon DEF IInv, Types
    <2>5. raced' = FALSE => \A e \in rows : row[h][e] = "queued"
      BY <1>4, Zenon
    <2> HIDE DEF h
    <2>6. \A r \in Relay, e \in Envelope : row'[r][e] = "none" <=> row[r][e] = "none"
      BY <2>1
    <2>7. Held' = Held /\ UNCHANGED <<Sure, Clean>>
      <3>1. Held' = Held
        BY <2>6, HomeOfType DEF Held
      <3>2. UNCHANGED <<Sure, Clean>>
        BY <1>1 DEF Sure, Clean
      <3> QED BY <3>1, <3>2
    <2>8. Types'
      <3>1. row' \in [Relay -> [Envelope -> Status]]
        BY <1>4, <2>0 DEF IInv, Types, Status, Marked
      <3>2. given' \subseteq Envelope
        BY <2>0, <2>3 DEF IInv, Types
      <3> QED BY <1>1, <1>2, <2>3, <2>4, <3>1, <3>2 DEF IInv, Types
    <2>9. Stored'
      <3>1. given' \subseteq kept
        BY <2>0, <2>3 DEF IInv, Stored
      <3> QED BY <1>1, <1>2, <2>6, <3>1 DEF IInv, Stored
    <2>10. ToldHome' /\ NoStray'
      BY <1>1, <2>6, <2>7 DEF IInv, ToldHome, NoStray, Clean
    <2>11. GivenInv'
      <3>1. ASSUME flushed = FALSE, NEW e \in given'
            PROVE  row'[HomeOf(e)][e] \in {"taken", "processed"}
        <4>1. e \in Envelope /\ HomeOf(e) \in Relay
          BY <2>0, <2>3, HomeOfType DEF IInv, Types
        <4>2. e \in rows \/ row[HomeOf(e)][e] \in {"taken", "processed"}
          BY <2>3, <3>1 DEF IInv, GivenInv
        <4>3. row[HomeOf(e)][e] \in Status
          BY <4>1 DEF IInv, Types
        <4> QED BY <2>0, <2>1, <3>1, <4>1, <4>2, <4>3 DEF Status
      <3> QED BY <1>1, <3>1 DEF GivenInv, IInv, Types
    <2>12. AtMostOnce'
      <3>1. ASSUME raced' = FALSE, flushed = FALSE PROVE again' = {}
        <4>1. given \cap rows = {}
          <5> SUFFICES ASSUME NEW e \in given, e \in rows PROVE FALSE
            OBVIOUS
          <5> QED BY <2>0, <2>5, <3>1 DEF IInv, GivenInv
        <4>2. again = {}
          BY <2>4, <3>1 DEF IInv, AtMostOnce
        <4> QED BY <2>3, <4>1, <4>2
      <3> QED BY <1>1, <2>4, <3>1 DEF AtMostOnce, IInv, Types
    <2>13. ReceiptsTooLate'
      BY <1>1, <2>1 DEF IInv, ReceiptsTooLate
    <2>14. Easier
      BY <1>1, <2>7 DEF Easier
    <2> QED BY <1>1, <2>8, <2>9, <2>10, <2>11, <2>12, <2>13, <2>14, SameCalls DEF IInv
  <1> QED BY <1>3, <1>4 DEF PollMark

\* What has reached a device is marked, so a receipt only counts after a flush.
LEMMA ReceiptStep == ASSUME IInv, NEW e \in Envelope, Receipt(e) PROVE IInv'
  <1> DEFINE h == HomeOf(e)
  <1>1. /\ row[h][e] = "queued" /\ e \in given /\ h \in Relay
        /\ row' = [row EXCEPT ![h][e] = "processed"]
        /\ UNCHANGED <<kept, call, poll, told, given, again, got, calm, clashed, raced, flushed, sends, faults>>
    BY HomeOfType DEF Receipt, NotYet, outcome, history, bounds, IInv, Types
  <1>2. flushed = TRUE
    BY <1>1 DEF IInv, GivenInv, Types
  <1> HIDE DEF h
  <1>3. /\ \A r \in Relay, f \in Envelope : row'[r][f] = "none" <=> row[r][f] = "none"
        /\ row' \in [Relay -> [Envelope -> Status]]
    BY <1>1 DEF IInv, Types, Status
  <1>4. Easier
    BY <1>1, <1>2 DEF Easier, Sure, Clean
  <1>5. Types' /\ Stored' /\ ToldHome' /\ NoStray'
    BY <1>1, <1>2, <1>3 DEF IInv, Types, Stored, ToldHome, NoStray, Sure
  <1>6. GivenInv' /\ AtMostOnce' /\ ReceiptsTooLate'
    BY <1>1, <1>2 DEF GivenInv, AtMostOnce, ReceiptsTooLate
  <1> QED BY <1>1, <1>4, <1>5, <1>6, SameCalls DEF IInv

LEMMA FlushStep == ASSUME IInv, NEW r \in Relay, Flush(r) PROVE IInv'
  <1>1. /\ row' = [row EXCEPT ![r] = [e \in Envelope |-> "none"]] /\ flushed' = TRUE
        /\ poll' = [p \in Poll |-> IF poll[p].pc = "mark" /\ HomeOfPoll(p) = r
                                   THEN [poll[p] EXCEPT !.lost = TRUE] ELSE poll[p]]
        /\ UNCHANGED <<kept, call, told, given, again, got, calm, clashed, raced, sends>>
        /\ faults' \in 0..MaxFaults
    BY DEF Flush, Fault, outcome, history, IInv, Types
  <1>2. /\ \A s \in Relay, f \in Envelope : row'[s][f] # "none" => row[s][f] # "none"
        /\ row' \in [Relay -> [Envelope -> Status]]
    BY <1>1 DEF IInv, Types, Status
  <1>3. Easier
    BY <1>1 DEF Easier, Sure, Clean
  <1>4. poll' \in [Poll -> PollRec] /\ \A p \in Poll : poll'[p].rows = poll[p].rows
    BY <1>1 DEF IInv, Types, PollRec
  <1>5. Types' /\ Stored' /\ ToldHome' /\ NoStray'
    BY <1>1, <1>2, <1>4 DEF IInv, Types, Stored, ToldHome, NoStray, Sure
  <1>6. GivenInv' /\ AtMostOnce' /\ ReceiptsTooLate'
    BY <1>1 DEF GivenInv, AtMostOnce, ReceiptsTooLate
  <1> QED BY <1>1, <1>3, <1>5, <1>6, SameCalls DEF IInv

LEMMA CrashStep == ASSUME IInv, NEW r \in Relay, Crash(r) PROVE IInv'
  <1> DEFINE gone == {c \in Call : call[c].at = r}
  <1>1. /\ \A c \in Call : call'[c] = IF c \in gone THEN FreeCall ELSE Orphan(call[c], gone)
        /\ call' = [c \in Call |-> call'[c]]
        /\ \A p \in Poll : poll'[p] = FreePoll \/ poll'[p] = poll[p]
        /\ poll' = [p \in Poll |-> poll'[p]]
        /\ calm' = FALSE /\ faults' \in 0..MaxFaults
        /\ UNCHANGED <<row, kept, told, given, again, got, clashed, raced, flushed, sends>>
    BY DEF Crash, Fault, tables, outcome, IInv, Types
  <1> HIDE DEF gone
  <1>2. poll' \in [Poll -> PollRec] /\ \A p \in Poll : poll'[p].rows \subseteq kept
    <2>1. FreePoll \in PollRec /\ FreePoll.rows \subseteq kept
      BY DEF FreePoll, PollRec
    <2> QED BY <1>1, <2>1 DEF IInv, Types, Stored
  <1>3. Elsewhere
    BY <1>1, <1>2 DEF Elsewhere, IInv, Types, Stored, ToldHome
  <1>4. \A x \in Call : Harmless(call'[x], call[x])
    BY <1>1 DEF Harmless, Orphan
  <1>5. Calls'
    BY <1>3, <1>4, ElsewhereStep, NoCallStep DEF IInv
  <1>6. Links'
    <2>1. ASSUME NEW x \in Call, x \notin gone
          PROVE  /\ call'[x].pc = call[x].pc /\ call'[x].env = call[x].env
                 /\ call'[x].caller = call[x].caller \/ call'[x].caller = Nobody
                 /\ call'[x].caller \notin gone \/ call'[x].caller = Nobody
      <3>1. call[x] \in CallRec
        BY DEF IInv, Calls, Good, Fit
      <3> QED BY <1>1, <2>1, <3>1 DEF Orphan, CallRec
    <2>2. ASSUME NEW x \in Call, NEW w \in Call, call'[x].caller = w
          PROVE  /\ call[x].caller = w /\ call'[x].env = call[x].env
                 /\ call'[w].pc \in {"forward", "pushed"} /\ call'[w].env = call[w].env
      <3>1. x \notin gone
        BY <1>1, <2>2 DEF FreeCall
      <3>2. call[x].caller = w /\ call'[x].env = call[x].env /\ w \notin gone
        BY <2>1, <2>2, <3>1
      <3> QED BY <2>1, <3>2 DEF IInv, Links
    <2> QED BY <2>2, LinksStep DEF IInv
  <1> QED BY <1>3, <1>5, <1>6, ElsewhereStep DEF IInv

-----------------------------------------------------------------------------
(* The theorems.                                                           *)

LEMMA InitIInv == Init => IInv
  <1> SUFFICES ASSUME Init PROVE IInv
    OBVIOUS
  <1> USE DEF Init
  <1>1. FreeCall \in CallRec /\ FreeCall.pc = "free" /\ FreeCall.caller = Nobody
    BY DEF FreeCall, CallRec, CallPCs
  <1>2. FreePoll \in PollRec /\ FreePoll.rows = {}
    BY DEF FreePoll, PollRec
  <1>3. Types
    <2>1. row \in [Relay -> [Envelope -> Status]]
      BY DEF Status
    <2>2. call = [c \in Call |-> call[c]]
      OBVIOUS
    <2>3. poll \in [Poll -> PollRec]
      BY <1>2
    <2>4. sends \in 0..MaxSends /\ faults \in 0..MaxFaults
      OBVIOUS
    <2> QED BY <2>1, <2>2, <2>3, <2>4 DEF Types
  <1>4. Calls
    BY <1>1 DEF Calls, Good, Fit, KeptBy, HomeBy, CleanBy
  <1>5. Links
    BY <1>1 DEF Links
  <1>6. Stored /\ ToldHome /\ NoStray
    BY <1>2 DEF Stored, ToldHome, NoStray
  <1>7. GivenInv /\ AtMostOnce /\ ReceiptsTooLate
    BY DEF GivenInv, AtMostOnce, ReceiptsTooLate
  <1> QED BY <1>3, <1>4, <1>5, <1>6, <1>7 DEF IInv

LEMMA StutterStep == ASSUME IInv, UNCHANGED vars PROVE IInv'
  <1> USE DEF vars, tables, outcome, history, bounds
  <1>1. Elsewhere
    BY DEF Elsewhere, IInv, Types, Stored, ToldHome
  <1> QED BY <1>1, ElsewhereStep, SameCalls DEF IInv

LEMMA NextStep == ASSUME IInv, PollsFit, [Next]_vars PROVE IInv'
  <1>1. ASSUME NEW c \in Call, Step(c) PROVE IInv'
    BY <1>1, ArriveStep, PostStep, GiveUpStep, CheckStep, InsertStep, AnswerStep, CollectStep
       DEF Step
  <1>2. ASSUME NEW e \in Envelope, RelayForward(e) \/ Receipt(e) PROVE IInv'
    BY <1>2, RelayForwardStep, ReceiptStep
  <1>3. ASSUME NEW r \in Relay, Flush(r) \/ Crash(r) \/ \E e \in Envelope : Submit(r, e)
        PROVE  IInv'
    BY <1>3, FlushStep, CrashStep, SubmitStep
  <1>4. ASSUME NEW d \in Device, PollRead(d) PROVE IInv'
    BY <1>4, PollReadStep
  <1>5. ASSUME NEW p \in Poll, PollMark(p) PROVE IInv'
    BY <1>5, PollMarkStep
  <1> QED BY <1>1, <1>2, <1>3, <1>4, <1>5, StutterStep DEF Next

LEMMA Invariance == Spec => []IInv
  <1> QED BY InitIInv, NextStep, PollsInvariance, PTL DEF Spec

\* The tables, the handlers and the polls keep to their types, for any relays.
THEOREM TypeCorrect == Spec => []TypeOK
<1>1. IInv => TypeOK
  <2> SUFFICES ASSUME IInv PROVE TypeOK
    OBVIOUS
  <2>1. call \in [Call -> CallRec]
    BY DEF IInv, Types, Calls, Good, Fit
  <2> QED BY <2>1 DEF IInv, Types, TypeOK, CallRec, PollRec, Status
<1> QED BY <1>1, Invariance, PTL

\* Until a flush, what was stored once is still stored somewhere.
KeptThere == ~ flushed => \A e \in kept : \E r \in Relay : row[r][e] # "none"

LEMMA RowSteps ==
  ASSUME IInv, [Next]_vars
  PROVE  \/ flushed' = TRUE
         \/ /\ flushed' = flushed
            /\ \A r \in Relay, e \in Envelope : row[r][e] # "none" => row'[r][e] # "none"
            /\ \A e \in kept' : e \in kept \/ \E r \in Relay : row'[r][e] # "none"
  <1> USE DEF vars, tables, outcome, history, bounds
  <1>1. CASE UNCHANGED <<row, kept, flushed>>
    BY <1>1
  <1>2. ASSUME NEW r \in Relay, NEW e \in Envelope, Store(r, e)
        PROVE  /\ \A q \in Relay, f \in Envelope : row[q][f] # "none" => row'[q][f] # "none"
               /\ \A f \in kept' : f \in kept \/ \E q \in Relay : row'[q][f] # "none"
    <2>1. /\ row'[r][e] = "queued" /\ kept' = kept \cup {e}
          /\ \A q \in Relay, f \in Envelope : <<q, f>> # <<r, e>> => row'[q][f] = row[q][f]
      BY <1>2 DEF Store, IInv, Types
    <2> QED BY <2>1
  <1>3. ASSUME NEW c \in Call, Insert(c), ~ UNCHANGED tables
        PROVE  Store(call[c].at, call[c].env) /\ flushed' = flushed
    BY <1>3 DEF Insert
  <1>4. ASSUME NEW c \in Call, Insert(c)
        PROVE  call[c].at \in Relay /\ call[c].env \in Envelope
    BY <1>4 DEF Insert, At, IInv, Calls, Good, Fit
  <1>5. ASSUME NEW e \in Envelope, RelayForward(e)
        PROVE  Store(HomeOf(e), e) /\ flushed' = flushed
    BY <1>5 DEF RelayForward
  <1>6. ASSUME NEW e \in Envelope, Receipt(e)
        PROVE  /\ flushed' = flushed /\ kept' = kept
               /\ \A r \in Relay, f \in Envelope : row[r][f] # "none" => row'[r][f] # "none"
    BY <1>6 DEF Receipt, IInv, Types
  <1>7. ASSUME NEW p \in Poll, PollMark(p)
        PROVE  /\ flushed' = flushed /\ kept' = kept
               /\ \A r \in Relay, f \in Envelope : row[r][f] # "none" => row'[r][f] # "none"
    <2>1. flushed' = flushed /\ kept' = kept
      BY <1>7 DEF PollMark
    <2>2. \/ row' = row
          \/ \E rows : row' = [row EXCEPT ![HomeOfPoll(p)] = [e \in Envelope |->
                                IF e \in rows /\ @[e] = "queued" THEN "taken" ELSE @[e]]]
      BY <1>7 DEF PollMark, Marked
    <2> QED BY <2>1, <2>2 DEF IInv, Types
  <1>8. ASSUME NEW r \in Relay, Flush(r)
        PROVE  flushed' = TRUE
    BY <1>8 DEF Flush
  <1>9. ASSUME NEW c \in Call, Step(c), ~ Insert(c)
        PROVE  UNCHANGED <<row, kept, flushed>>
    BY <1>9 DEF Step, Arrive, Post, GiveUp, Check, Answer, Collect
  <1>10. ASSUME NEW r \in Relay, Crash(r) \/ \E e \in Envelope : Submit(r, e)
         PROVE  UNCHANGED <<row, kept, flushed>>
    BY <1>10 DEF Crash, Submit
  <1>11. ASSUME NEW d \in Device, PollRead(d)
         PROVE  UNCHANGED <<row, kept, flushed>>
    BY <1>11 DEF PollRead
  <1>12. ASSUME NEW c \in Call, Insert(c)
         PROVE  /\ UNCHANGED <<row, kept>> \/ Store(call[c].at, call[c].env)
                /\ flushed' = flushed
    BY <1>3, <1>12 DEF Insert
  <1> QED
    BY <1>1, <1>2, <1>4, <1>5, <1>6, <1>7, <1>8, <1>9, <1>10, <1>11, <1>12, HomeOfType
    DEF Next

LEMMA KeptInvariance == Spec => []KeptThere
<1>1. Init => KeptThere
  BY DEF Init, KeptThere
<1>2. IInv /\ KeptThere /\ [Next]_vars => KeptThere'
  <2> SUFFICES ASSUME IInv, KeptThere, [Next]_vars, ~ flushed', NEW e \in kept'
               PROVE  \E r \in Relay : row'[r][e] # "none"
    BY DEF KeptThere
  <2>1. kept \subseteq Envelope
    BY DEF IInv, Types
  <2>2. CASE e \in kept /\ ~ flushed
    BY <2>1, <2>2, RowSteps DEF KeptThere
  <2>3. CASE e \notin kept
    BY <2>3, RowSteps
  <2>4. CASE flushed
    BY <2>4, RowSteps
  <2> QED BY <2>2, <2>3, <2>4
<1> QED BY <1>1, <1>2, Invariance, PTL DEF Spec

\* Until a flush what was reported as sent is stored somewhere, and as long as
\* every forward is answered, at home.
THEOREM AckedIsHome == Spec => []AckedAtHome
<1>1. IInv /\ KeptThere => AckedAtHome
  BY DEF IInv, ToldHome, Sure, Held, AckedAtHome, Types, KeptThere, Stored
<1> QED BY <1>1, Invariance, KeptInvariance, PTL

\* Handlers never wait for each other in a circle, although relays may hand an
\* envelope round in one: among any requests there is one that no other of them
\* was posted by, so every wait ends with a request that waits for nobody.
NoWaitCycle == \A S \in SUBSET Call :
    S # {} => \E c \in S : \A d \in S : call[d].caller # c

\* A step adds one link at most, to a request that nobody was posted by.
LEMMA CallerSteps ==
  ASSUME IInv, [Next]_vars
  PROVE  \/ \A d \in Call : call'[d].caller \in Call => call'[d].caller = call[d].caller
         \/ \E u \in Call :
              /\ \A d \in Call : call'[d].caller # u
              /\ \A d \in Call : d # u => call'[d].caller = call[d].caller
  <1> USE DEF vars, tables, outcome, history, bounds
  <1> DEFINE Same == \A d \in Call : call'[d].caller \in Call => call'[d].caller = call[d].caller
  <1>0. /\ call = [c \in Call |-> call[c]]
        /\ \A c \in Call : call[c] \in CallRec
    BY DEF IInv, Types, Calls, Good, Fit
  <1>1. CASE UNCHANGED call
    BY <1>1
  <1>2. ASSUME NEW r \in Relay, NEW e \in Envelope, Submit(r, e)
        PROVE  Same
    BY <1>0, <1>2, UnusedIdle DEF Submit, Request
  <1>3. ASSUME NEW c \in Call, Post(c)
        PROVE  \E u \in Call :
                 /\ \A d \in Call : call'[d].caller # u
                 /\ \A d \in Call : d # u => call'[d].caller = call[d].caller
    <2>1. Unused \in Call /\ call[Unused].pc = "free" /\ c # Unused
      BY <1>3, UnusedIdle DEF Post
    <2>2. \A d \in Call : call[d].caller # Unused
      BY <2>1 DEF IInv, Links
    <2>3. call'[Unused].caller = c
      BY <1>0, <1>3, <2>1 DEF Post, Request
    <2>4. \A d \in Call : d # Unused => call'[d].caller = call[d].caller
      BY <1>0, <1>3, <2>1 DEF Post, CallRec
    <2> QED BY <2>1, <2>2, <2>3, <2>4
  <1>4. ASSUME NEW c \in Call, NEW n, call' = [call EXCEPT ![c] = n],
               n.caller = call[c].caller \/ n.caller \notin Call
        PROVE  Same
    BY <1>0, <1>4
  <1>5. ASSUME NEW c \in Call, Arrive(c)
        PROVE  Same
    <2>1. \A q : Route(call[c], q).caller = call[c].caller
          /\ [call[c] EXCEPT !.pc = "check"].caller = call[c].caller
      BY <1>0 DEF Route, CallRec
    <2> QED BY <1>4, <1>5, <2>1 DEF Arrive, GoTo, Continue
  <1>6. ASSUME NEW c \in Call, Check(c) \/ Insert(c)
        PROVE  Same
    <2>1. /\ \A q : Push(call[c], q).caller = call[c].caller
          /\ \A q : [call[c] EXCEPT !.pc = q].caller = call[c].caller
      BY <1>0 DEF Push, CallRec
    <2> QED BY <1>4, <1>6, <2>1 DEF Check, Insert, GoTo, Continue
  <1>7. ASSUME NEW c \in Call, Answer(c)
        PROVE  Same
    BY <1>4, <1>7 DEF Answer, FreeCall
  <1>8. ASSUME NEW c \in Call, GiveUp(c)
        PROVE  Same
    <2>1. MoveOn(call[c]).caller = call[c].caller
      BY <1>0 DEF MoveOn, Route, Push, CallRec
    <2> QED BY <1>0, <1>8, <2>1 DEF GiveUp, Orphan, CallRec
  <1>9. ASSUME NEW c \in Call, NEW d \in Call, Collect(c, d)
        PROVE  Same
    <2>1. /\ MoveOn(call[c]).caller = call[c].caller
          /\ [call[c] EXCEPT !.pc = "ok"].caller = call[c].caller
      BY <1>0 DEF MoveOn, Route, Push, CallRec
    <2> QED BY <1>0, <1>9, <2>1 DEF Collect, FreeCall
  <1>10. ASSUME NEW r \in Relay, Crash(r)
         PROVE  Same
    BY <1>0, <1>10 DEF Crash, Orphan, FreeCall, CallRec
  <1>11. ASSUME NEW c \in Call, Step(c)
         PROVE  \/ Same
                \/ \E u \in Call :
                     /\ \A d \in Call : call'[d].caller # u
                     /\ \A d \in Call : d # u => call'[d].caller = call[d].caller
    BY <1>3, <1>5, <1>6, <1>7, <1>8, <1>9, <1>11 DEF Step
  <1> QED
    BY <1>1, <1>2, <1>10, <1>11
    DEF Next, RelayForward, Receipt, Flush, PollRead, PollMark

LEMMA NoWaitCycleStep ==
  ASSUME IInv, NoWaitCycle, [Next]_vars
  PROVE  NoWaitCycle'
  <1> SUFFICES ASSUME NEW S \in SUBSET Call, S # {},
                      \A c \in S : \E d \in S : call'[d].caller = c
               PROVE  FALSE
    BY DEF NoWaitCycle
  <1>1. CASE \A d \in Call : call'[d].caller \in Call => call'[d].caller = call[d].caller
    <2>1. \A c \in S : \E d \in S : call[d].caller = c
      BY <1>1
    <2> QED BY <2>1 DEF NoWaitCycle
  <1>2. ASSUME NEW u \in Call, \A d \in Call : call'[d].caller # u,
               \A d \in Call : d # u => call'[d].caller = call[d].caller
        PROVE  FALSE
    <2>1. u \notin S
      BY <1>2
    <2>2. \A c \in S : \E d \in S : call[d].caller = c
      BY <1>2, <2>1
    <2> QED BY <2>2 DEF NoWaitCycle
  <1> QED BY <1>1, <1>2, CallerSteps

\* No circle of waiting handlers, however the requests are forwarded.
THEOREM NoCircle == Spec => []NoWaitCycle
<1>1. Init => NoWaitCycle
  BY DEF Init, NoWaitCycle, FreeCall
<1>2. IInv /\ NoWaitCycle /\ [Next]_vars => NoWaitCycle'
  BY NoWaitCycleStep
<1> QED BY <1>1, <1>2, Invariance, PTL DEF Spec

\* If besides nothing clashes, the only copies are where they can be polled.
THEOREM NoStrays == Spec => []NoStray
  BY Invariance, PTL DEF IInv

\* Without overlapping polls and flushes an envelope reaches one device once.
THEOREM GivenOnce == Spec => []AtMostOnce
  BY Invariance, PTL DEF IInv

\* No receipt is ever counted as long as nothing is flushed.
THEOREM TooLate == Spec => []ReceiptsTooLate
  BY Invariance, PTL DEF IInv

\* All the forwarding, retrying and crashing of relays comes down to the
\* abstract mailbox: keep, tell, give.
THEOREM ActsAsMailbox == Spec => MailboxSpec
<1> USE DEF MB!vars, MB!Keep, MB!Tell, MB!Give
<1>1. Init => MB!Init
  BY DEF Init, MB!Init
<1>2. ASSUME IInv, PollsFit, [Next]_vars PROVE [MB!Next]_(MB!vars)
  <2> USE DEF tables, outcome, history, bounds
  <2>1. ASSUME NEW c \in Call, Step(c) PROVE [MB!Next]_(MB!vars)
    <3>0. Good(call[c], kept, Held, Sure, Clean)
      BY <1>2 DEF IInv, Calls
    <3>1. CASE Arrive(c) \/ Post(c) \/ GiveUp(c) \/ Check(c) \/ \E d \in Call : Collect(c, d)
      BY <3>1 DEF Arrive, Post, GiveUp, Check, Collect
    <3>2. CASE Insert(c)
      <4>1. call[c].env \in Envelope
        BY <3>0, <3>2 DEF Good, Fit, Insert, At
      <4>2. UNCHANGED <<kept, told, given>> \/ MB!Keep(call[c].env)
        BY <3>2 DEF Insert, Store
      <4> QED BY <4>1, <4>2 DEF MB!Next
    <3>3. CASE Answer(c)
      <4>1. told' = told \/ (call[c].pc = "ok" /\ told' = told \cup {call[c].env})
        BY <3>3 DEF Answer, At
      <4>2. UNCHANGED <<kept, given>>
        BY <3>3 DEF Answer
      <4>3. call[c].pc = "ok" => call[c].env \in Envelope /\ call[c].env \in kept
        BY <3>0 DEF Good, Fit, KeptBy
      <4> QED BY <4>1, <4>2, <4>3 DEF MB!Next
    <3> QED BY <2>1, <3>1, <3>2, <3>3 DEF Step
  <2>2. ASSUME NEW e \in Envelope, RelayForward(e) \/ Receipt(e)
        PROVE  [MB!Next]_(MB!vars)
    <3>1. UNCHANGED <<kept, told, given>> \/ MB!Keep(e)
      BY <2>2 DEF RelayForward, Receipt, Store
    <3> QED BY <3>1 DEF MB!Next
  <2>3. ASSUME NEW r \in Relay, Flush(r) \/ Crash(r) \/ \E e \in Envelope : Submit(r, e)
        PROVE  [MB!Next]_(MB!vars)
    BY <2>3 DEF Flush, Crash, Submit
  <2>4. ASSUME NEW d \in Device, PollRead(d) PROVE [MB!Next]_(MB!vars)
    BY <2>4 DEF PollRead
  <2>5. ASSUME NEW p \in Poll, PollMark(p) PROVE [MB!Next]_(MB!vars)
    <3>1. UNCHANGED <<kept, told>>
      BY <2>5 DEF PollMark
    <3>2. CASE given' = given
      BY <3>1, <3>2
    <3>3. ASSUME NEW rows \in SUBSET StoredFor(p), Found(p, rows), PollAnswer(poll[p].device, rows)
          PROVE  [MB!Next]_(MB!vars)
      <4>1. rows \in SUBSET Envelope /\ rows \subseteq kept
        BY <1>2, <2>5, <3>3, PollHits DEF PollMark
      <4>2. given' = given \/ given' = given \cup rows
        BY <3>3 DEF PollAnswer
      <4> QED BY <3>1, <4>1, <4>2 DEF MB!Next
    <3> QED BY <2>5, <3>2, <3>3 DEF PollMark
  <2>6. CASE UNCHANGED vars
    BY <2>6 DEF vars
  <2> QED BY <1>2, <2>1, <2>2, <2>3, <2>4, <2>5, <2>6 DEF Next
<1> QED BY <1>1, <1>2, Invariance, PollsInvariance, PTL DEF Spec, MailboxSpec, MB!Spec
=============================================================================
