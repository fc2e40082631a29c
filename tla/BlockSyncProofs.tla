-------------------------- MODULE BlockSyncProofs ---------------------------
(***************************************************************************)
(* Proofs about BlockSync, for any peers, ledgers, runs and bounds.        *)
(***************************************************************************)
EXTENDS BlockSync, TLAPS

\* What a run holds is fit for what it does next.
Fit(r) == /\ r \in Run
          /\ r.pc \in {"head", "fetch", "file"} => r.peer \in Peer
          /\ r.pc = "file" => r.next <= r.top

Fits == run \in [Runner -> Run] /\ \A t \in Runner : Fit(run[t])

\* TypeOK without the runs.
RestOK ==
    /\ ledger \in [Index -> Maker \cup {None}]
    /\ headIdx \in 0..MaxIndex
    /\ isSynced \in BOOLEAN /\ isSyncing \in BOOLEAN /\ joinMode \in BOOLEAN
    /\ peerTop \in [Peer -> 0..MaxIndex]
    /\ slots \subseteq Join
    /\ skipped \in BOOLEAN
    /\ faults \in 0..MaxFaults

-----------------------------------------------------------------------------
(* The runs' locals.                                                       *)

LEMMA SetRun ==
    ASSUME Fits, NEW t \in Runner, NEW r, Fit(r), run' = [run EXCEPT ![t] = r]
    PROVE  Fits'
  BY DEF Fits, Fit

LEMMA EndFits ==
    ASSUME Fits, NEW t \in Runner, NEW pc \in PCs \ {"head", "fetch", "file"},
           End(t, pc)
    PROVE  Fits'
<1>1. Fit(NoRun(pc))
  BY ConfigAssumption DEF Fit, Run, NoRun
<1> QED
  BY <1>1, SetRun DEF End

LEMMA GoFits ==
    ASSUME Fits, NEW t \in Runner, NEW pc \in PCs \ {"head", "fetch", "file"},
           GoTo(t, pc)
    PROVE  Fits'
<1> DEFINE r == [run[t] EXCEPT !.pc = pc]
<1>1. Fit(r)
  BY DEF Fits, Fit, Run
<1>2. run' = [run EXCEPT ![t] = r]
  BY DEF GoTo
<1> QED
  BY <1>1, <1>2, SetRun

LEMMA JoinFits ==
    ASSUME Fits, NEW t \in Join, JoinStep(t)
    PROVE  Fits'
<1>0. t \in Runner
  BY DEF Runner
<1> USE <1>0 DEF PCs
<1>1. CASE JoinStart(t)
  BY <1>1, GoFits DEF JoinStart
<1>2. CASE JoinChoose(t)
  BY <1>2, GoFits DEF JoinChoose
<1>3. CASE JoinAcquire(t)
  BY <1>3, GoFits DEF JoinAcquire
<1>4. CASE JoinGiveUp(t)
  BY <1>4, EndFits DEF JoinGiveUp
<1>5. CASE JoinRelease(t)
  BY <1>5, EndFits DEF JoinRelease
<1>6. CASE JoinLeave(t)
  BY <1>6, EndFits DEF JoinLeave
<1> QED
  BY <1>1, <1>2, <1>3, <1>4, <1>5, <1>6 DEF JoinStep

LEMMA SyncFits ==
    ASSUME Fits, RestOK, NEW t \in Runner, SyncStep(t)
    PROVE  Fits'
<1> USE DEF PCs
<1>0. Fit(run[t]) /\ run[t] \in Run
  BY DEF Fits, Fit
<1>1. CASE Begin(t)
  BY <1>1, GoFits DEF Begin
<1>2. CASE Pick(t)
  <2>1. CASE GoTo(t, "stop")
    BY <2>1, GoFits
  <2>2. ASSUME NEW p \in Peer, NEW i \in 0..MaxIndex,
               run' = [run EXCEPT ![t] = [@ EXCEPT !.pc = "head", !.peer = p,
                                                   !.next = First(i)]]
        PROVE  Fits'
    <3> DEFINE r == [run[t] EXCEPT !.pc = "head", !.peer = p, !.next = First(i)]
    <3>1. First(i) \in 1..MaxIndex + 1
      BY ConfigAssumption DEF First
    <3>2. Fit(r)
      BY <1>0, <3>1 DEF Fit, Run
    <3>3. run' = [run EXCEPT ![t] = r]
      BY <2>2
    <3> HIDE DEF r
    <3> QED
      BY <3>2, <3>3, SetRun
  <2> QED
    BY <1>2, <2>1, <2>2 DEF Pick
<1>3. CASE PeerHead(t)
  <2> PICK top \in {0, peerTop[run[t].peer]} :
         run' = [run EXCEPT ![t] = [@ EXCEPT !.pc = IF top < run[t].next THEN "stop"
                                                                         ELSE "fetch",
                                             !.top = top]]
    BY <1>3 DEF PeerHead
  <2>1. run[t].peer \in Peer
    BY <1>0, <1>3 DEF Fit, PeerHead, At
  <2>2. top \in 0..MaxIndex
    BY <2>1, ConfigAssumption DEF RestOK
  <2> DEFINE pc == IF top < run[t].next THEN "stop" ELSE "fetch"
             r == [run[t] EXCEPT !.pc = pc, !.top = top]
  <2>3. pc \in {"stop", "fetch"}
    OBVIOUS
  <2>4. run' = [run EXCEPT ![t] = r]
    OBVIOUS
  <2> HIDE DEF pc
  <2>5. Fit(r)
    BY <1>0, <2>1, <2>2, <2>3 DEF Fit, Run
  <2> HIDE DEF r
  <2> QED
    BY <2>4, <2>5, SetRun
<1>4. CASE Stop(t)
  BY <1>4, EndFits DEF Stop, After
<1>5. CASE Fetch(t) \/ File(t)
  <2>1. run[t].next <= run[t].top /\ run[t].peer \in Peer
    BY <1>0, <1>5 DEF Fetch, File, At, Fit
  <2>2. CASE Advance(t)
    <3> DEFINE r == [run[t] EXCEPT !.pc = "fetch", !.next = run[t].next + 1]
    <3>1. run[t].next + 1 \in 1..MaxIndex + 1
      <4>1. run[t].next \in 1..MaxIndex + 1 /\ run[t].top \in 0..MaxIndex
        BY <1>0 DEF Run
      <4> QED
        BY <2>1, <4>1, ConfigAssumption
    <3>2. Fit(r)
      BY <1>0, <2>1, <3>1 DEF Fit, Run
    <3>3. run' = [run EXCEPT ![t] = r]
      BY <2>2 DEF Advance
    <3> HIDE DEF r
    <3> QED
      BY <3>2, <3>3, SetRun
  <2>3. CASE GoTo(t, "file")
    <3> DEFINE r == [run[t] EXCEPT !.pc = "file"]
    <3>1. Fit(r)
      BY <1>0, <2>1 DEF Fit, Run
    <3>2. run' = [run EXCEPT ![t] = r]
      BY <2>3 DEF GoTo
    <3> HIDE DEF r
    <3> QED
      BY <3>1, <3>2, SetRun
  <2>4. CASE GoTo(t, "raise")
    BY <2>4, GoFits
  <2> QED
    BY <1>5, <2>2, <2>3, <2>4 DEF Fetch, File
<1>6. CASE Finish(t)
  BY <1>6, EndFits DEF Finish, After
<1>7. CASE Raise(t)
  BY <1>7, EndFits DEF Raise, JoinRaiseTo
<1> QED
  BY <1>1, <1>2, <1>3, <1>4, <1>5, <1>6, <1>7 DEF SyncStep

LEMMA OtherFits ==
    ASSUME Fits, RestOK, [Next]_vars
    PROVE  Fits'
<1>1. CASE CheckRead
  <2> DEFINE r == [NoRun("compare") EXCEPT !.head = headIdx]
  <2>1. Fit(r)
    BY ConfigAssumption DEF Fit, Run, PCs, NoRun, RestOK
  <2>2. run' = [run EXCEPT ![SyncLoop] = r] /\ SyncLoop \in Runner
    BY <1>1 DEF CheckRead, Runner
  <2> HIDE DEF r
  <2> QED
    BY <2>1, <2>2, SetRun
<1>2. CASE CheckWrite
  <2>1. End(SyncLoop, "idle") /\ SyncLoop \in Runner
    BY <1>2 DEF CheckWrite, Runner
  <2> QED
    BY <2>1, EndFits DEF PCs
<1>3. CASE Crash
  <2>1. Fit(NoRun("idle"))
    BY ConfigAssumption DEF Fit, Run, PCs, NoRun
  <2>2. run' = [t \in Runner |-> NoRun("idle")]
    BY <1>3 DEF Crash
  <2> QED
    BY <2>1, <2>2 DEF Fits, Fit
<1>4. CASE UNCHANGED run
  BY <1>4 DEF Fits
<1> QED
  BY <1>1, <1>2, <1>3, <1>4, JoinFits, SyncFits
  DEF Next, Check, LocalCommit, PeerFiles, SetJoinMode, vars

-----------------------------------------------------------------------------
(* The tables and the flags.                                               *)

LEMMA JoinRest ==
    ASSUME RestOK, NEW t \in Join, JoinStep(t)
    PROVE  RestOK'
<1> USE ConfigAssumption DEF RestOK, Fault, exceptRun, outside, flags
<1>1. CASE JoinStart(t)
  BY <1>1 DEF JoinStart
<1>2. CASE JoinChoose(t)
  BY <1>2 DEF JoinChoose
<1>3. CASE JoinAcquire(t)
  BY <1>3 DEF JoinAcquire
<1>4. CASE JoinGiveUp(t)
  BY <1>4 DEF JoinGiveUp
<1>5. CASE JoinRelease(t)
  BY <1>5 DEF JoinRelease
<1>6. CASE JoinLeave(t)
  BY <1>6 DEF JoinLeave, ExitJoinMode
<1> QED
  BY <1>1, <1>2, <1>3, <1>4, <1>5, <1>6 DEF JoinStep

LEMMA SyncRest ==
    ASSUME Fits, RestOK, NEW t \in Runner, SyncStep(t)
    PROVE  RestOK'
<1> USE ConfigAssumption DEF RestOK, Fault, exceptRun, outside, flags
<1>1. CASE Begin(t)
  BY <1>1 DEF Begin
<1>2. CASE Pick(t) \/ PeerHead(t)
  BY <1>2 DEF Pick, PeerHead
<1>3. CASE Stop(t)
  BY <1>3 DEF Stop, StopFlag
<1>4. CASE Fetch(t)
  <2>1. CASE UNCHANGED <<skipped, faults>>
    BY <1>4, <2>1 DEF Fetch
  <2>2. CASE Fault /\ skipped' = TRUE
    BY <1>4, <2>2 DEF Fetch
  <2> QED
    BY <1>4, <2>1, <2>2 DEF Fetch
<1>5. CASE File(t)
  <2>1. run[t] \in Run /\ run[t].next <= run[t].top /\ run[t].peer \in Peer
    BY <1>5 DEF File, At, Fits, Fit
  <2>2. run[t].next \in Index
    BY <2>1 DEF Run, Index
  <2>3. Served(t) \in Peer
    BY <2>1, <2>2, PeerAssumption DEF Served
  <2> QED
    BY <1>5, <2>2, <2>3 DEF Maker, File
<1>6. CASE Finish(t)
  BY <1>6 DEF Finish, ExitJoinMode
<1>7. CASE Raise(t)
  BY <1>7 DEF Raise
<1> QED
  BY <1>1, <1>2, <1>3, <1>4, <1>5, <1>6, <1>7 DEF SyncStep

LEMMA OtherRest ==
    ASSUME Fits, RestOK, [Next]_vars
    PROVE  RestOK'
<1> USE ConfigAssumption DEF RestOK, Fault, exceptRun, outside, flags
<1>1. CASE CheckRead
  BY <1>1 DEF CheckRead
<1>2. CASE CheckWrite
  <2>1. isSynced' \in BOOLEAN
    BY <1>2 DEF CheckWrite
  <2> QED
    BY <1>2, <2>1 DEF CheckWrite
<1>3. CASE LocalCommit
  BY <1>3 DEF Unique, Maker, LocalCommit, Index
<1>4. ASSUME NEW p \in Peer, PeerFiles(p)
      PROVE  RestOK'
  BY <1>4 DEF PeerFiles
<1>5. CASE SetJoinMode
  BY <1>5 DEF SetJoinMode
<1>6. CASE Crash
  BY <1>6 DEF Crash
<1>7. CASE UNCHANGED vars
  BY <1>7 DEF vars
<1> QED
  BY <1>1, <1>2, <1>3, <1>4, <1>5, <1>6, <1>7, JoinRest, SyncRest DEF Next, Check

TypeInv == Fits /\ RestOK

LEMMA TypeInvariance == Spec => []TypeInv
<1>1. Init => TypeInv
  <2> SUFFICES ASSUME Init PROVE TypeInv
    OBVIOUS
  <2>1. Fit(NoRun("idle"))
    BY ConfigAssumption DEF Fit, Run, PCs, NoRun
  <2>2. Fits
    BY <2>1 DEF Init, Fits, Fit
  <2>3. RestOK
    <3>1. isSynced \in BOOLEAN /\ isSyncing \in BOOLEAN /\ joinMode \in BOOLEAN
          /\ skipped \in BOOLEAN
      BY ConfigAssumption, Zenon DEF Init
    <3>2. ledger \in [Index -> Maker \cup {None}]
      BY DEF Init
    <3>3. peerTop \in [Peer -> 0..MaxIndex]
      BY ConfigAssumption DEF Init
    <3>4. headIdx \in 0..MaxIndex /\ slots \subseteq Join /\ faults \in 0..MaxFaults
      BY ConfigAssumption DEF Init
    <3> QED
      BY <3>1, <3>2, <3>3, <3>4 DEF RestOK
  <2> QED
    BY <2>2, <2>3 DEF TypeInv
<1>2. TypeInv /\ [Next]_vars => TypeInv'
  BY OtherFits, OtherRest DEF TypeInv
<1> QED
  BY <1>1, <1>2, PTL DEF Spec

\* The tables, flags and locals keep to their ranges.
THEOREM SyncTypesTheorem == Spec => []TypeOK
<1>1. TypeInv => TypeOK
  BY DEF TypeInv, Fits, RestOK, TypeOK
<1> QED
  BY <1>1, TypeInvariance, PTL

-----------------------------------------------------------------------------
(* The ledger.                                                             *)

\* Two steps write the ledger, and each finds the index vacant.
LEMMA LedgerSteps ==
    ASSUME [Next]_vars
    PROVE  \/ UNCHANGED ledger
           \/ \E t \in Runner : /\ File(t)
                                /\ ledger[run[t].next] = None
                                /\ ledger' = [ledger EXCEPT ![run[t].next] = Served(t)]
           \/ LocalCommit
<1> USE DEF exceptRun
<1>1. ASSUME NEW t \in Join, JoinStep(t)
      PROVE  UNCHANGED ledger
  BY <1>1 DEF JoinStep, JoinStart, JoinChoose, JoinAcquire, JoinGiveUp, JoinRelease,
              JoinLeave
<1>2. ASSUME NEW t \in Runner, SyncStep(t)
      PROVE  \/ UNCHANGED ledger
             \/ /\ File(t)
                /\ ledger[run[t].next] = None
                /\ ledger' = [ledger EXCEPT ![run[t].next] = Served(t)]
  BY <1>2 DEF SyncStep, Begin, Pick, PeerHead, Stop, Fetch, File, Unique, Finish, Raise
<1> QED
  BY <1>1, <1>2
  DEF Next, Check, CheckRead, CheckWrite, PeerFiles, SetJoinMode, Crash, vars

LEMMA LedgerGrows ==
    ASSUME TypeInv, [Next]_vars
    PROVE  \A i \in Index : ledger[i] # None => ledger'[i] = ledger[i]
<1>0. ledger \in [Index -> Maker \cup {None}]
  BY DEF TypeInv, RestOK
<1>1. CASE \E t \in Runner :
             /\ ledger[run[t].next] = None
             /\ ledger' = [ledger EXCEPT ![run[t].next] = Served(t)]
  BY <1>0, <1>1
<1>2. CASE LocalCommit
  BY <1>0, <1>2 DEF Unique, LocalCommit
<1> QED
  BY <1>1, <1>2, LedgerSteps

\* A run fetches no block above the head its peer has told it, and a peer's head
\* only rises.
HeadKnown(r) == r.pc \in {"fetch", "file"} => r.top <= peerTop[r.peer]

HeadsKnown == \A t \in Runner : HeadKnown(run[t])

LEMMA PeerTopStep ==
    ASSUME TypeInv, [Next]_vars
    PROVE  \/ UNCHANGED peerTop
           \/ \E p \in Peer : PeerFiles(p)
<1> USE DEF exceptRun, outside
<1>1. ASSUME NEW t \in Join, JoinStep(t)
      PROVE  UNCHANGED peerTop
  BY <1>1 DEF JoinStep, JoinStart, JoinChoose, JoinAcquire, JoinGiveUp, JoinRelease,
              JoinLeave
<1>2. ASSUME NEW t \in Runner, SyncStep(t)
      PROVE  UNCHANGED peerTop
  BY <1>2 DEF SyncStep, Begin, Pick, PeerHead, Stop, Fetch, File, Finish, Raise
<1> QED
  BY <1>1, <1>2
  DEF Next, Check, CheckRead, CheckWrite, LocalCommit, SetJoinMode, Crash, vars

LEMMA PeerTopGrows ==
    ASSUME TypeInv, [Next]_vars
    PROVE  \A p \in Peer : peerTop[p] <= peerTop'[p]
<1>1. peerTop \in [Peer -> 0..MaxIndex]
  BY DEF TypeInv, RestOK
<1> QED
  BY <1>1, ConfigAssumption, PeerTopStep DEF PeerFiles

\* The step of one run: the others keep what they hold.
LEMMA SetHeads ==
    ASSUME TypeInv, TypeInv', HeadsKnown, [Next]_vars,
           NEW t \in Runner, NEW r, run' = [run EXCEPT ![t] = r],
           r.pc \in {"fetch", "file"} => r.top <= peerTop'[r.peer]
    PROVE  HeadsKnown'
<1> SUFFICES ASSUME NEW u \in Runner, run'[u].pc \in {"fetch", "file"}
             PROVE  run'[u].top <= peerTop'[run'[u].peer]
  BY DEF HeadsKnown, HeadKnown
<1>1. CASE u = t
  BY <1>1 DEF TypeInv, Fits
<1>2. CASE u # t
  <2>1. run'[u] = run[u]
    BY <1>2 DEF TypeInv, Fits
  <2>2. run[u].top <= peerTop[run[u].peer] /\ run[u].peer \in Peer
    BY <2>1 DEF HeadsKnown, HeadKnown, TypeInv, Fits, Fit
  <2>3. run[u].top \in Nat /\ peerTop[run[u].peer] \in Nat /\ peerTop'[run[u].peer] \in Nat
    BY <2>2, ConfigAssumption DEF TypeInv, Fits, Run, RestOK
  <2> QED
    BY <2>1, <2>2, <2>3, PeerTopGrows
<1> QED
  BY <1>1, <1>2

\* What a run of JoinStep, Begin, Stop, Finish or Raise goes on with.
LEMMA MoveHeads ==
    ASSUME TypeInv, TypeInv', HeadsKnown, [Next]_vars, NEW t \in Runner,
           NEW pc \in PCs \ {"fetch", "file"}, End(t, pc) \/ GoTo(t, pc)
    PROVE  HeadsKnown'
<1>1. CASE End(t, pc)
  <2>1. NoRun(pc).pc \notin {"fetch", "file"}
    BY DEF NoRun
  <2> QED
    BY <1>1, <2>1, SetHeads DEF End
<1>2. CASE GoTo(t, pc)
  <2> DEFINE r == [run[t] EXCEPT !.pc = pc]
  <2>1. r.pc \notin {"fetch", "file"}
    BY DEF TypeInv, Fits, Run
  <2>2. run' = [run EXCEPT ![t] = r]
    BY <1>2 DEF GoTo
  <2> HIDE DEF r
  <2> QED
    BY <2>1, <2>2, SetHeads
<1> QED
  BY <1>1, <1>2

LEMMA SyncHeads ==
    ASSUME TypeInv, TypeInv', HeadsKnown, [Next]_vars, NEW t \in Runner, SyncStep(t)
    PROVE  HeadsKnown'
<1> USE DEF PCs
<1>0. run[t] \in Run
  BY DEF TypeInv, Fits
<1>1. CASE Begin(t)
  BY <1>1, MoveHeads DEF Begin
<1>2. CASE Pick(t)
  <2>1. CASE GoTo(t, "stop")
    BY <2>1, MoveHeads
  <2>2. ASSUME NEW p \in Peer, NEW i \in 0..MaxIndex,
               run' = [run EXCEPT ![t] = [@ EXCEPT !.pc = "head", !.peer = p,
                                                   !.next = First(i)]]
        PROVE  HeadsKnown'
    <3> DEFINE r == [run[t] EXCEPT !.pc = "head", !.peer = p, !.next = First(i)]
    <3>1. r.pc = "head"
      BY <1>0 DEF Run
    <3>2. run' = [run EXCEPT ![t] = r]
      BY <2>2
    <3> HIDE DEF r
    <3> QED
      BY <3>1, <3>2, SetHeads
  <2> QED
    BY <1>2, <2>1, <2>2 DEF Pick
<1>3. CASE PeerHead(t)
  <2> PICK top \in {0, peerTop[run[t].peer]} :
         run' = [run EXCEPT ![t] = [@ EXCEPT !.pc = IF top < run[t].next THEN "stop"
                                                                         ELSE "fetch",
                                             !.top = top]]
    BY <1>3 DEF PeerHead
  <2> DEFINE pc == IF top < run[t].next THEN "stop" ELSE "fetch"
             r == [run[t] EXCEPT !.pc = pc, !.top = top]
  <2>1. run[t].peer \in Peer
    BY <1>3 DEF PeerHead, At, TypeInv, Fits, Fit
  <2>2. peerTop[run[t].peer] \in Nat
    BY <2>1, ConfigAssumption DEF TypeInv, RestOK
  <2>3. run' = [run EXCEPT ![t] = r]
    OBVIOUS
  <2>4. r.top = top /\ r.peer = run[t].peer
    BY <1>0 DEF Run
  <2>5. UNCHANGED peerTop
    BY <1>3 DEF PeerHead, exceptRun, outside
  <2>6. top <= peerTop[run[t].peer]
    BY <2>2
  <2> HIDE DEF r
  <2> QED
    BY <2>3, <2>4, <2>5, <2>6, SetHeads
<1>4. CASE Stop(t)
  BY <1>4, MoveHeads DEF Stop, After
<1>5. CASE Fetch(t) \/ File(t)
  <2>1. run[t].top <= peerTop[run[t].peer] /\ UNCHANGED peerTop
    BY <1>5 DEF Fetch, File, At, HeadsKnown, HeadKnown, outside
  <2>2. CASE Advance(t)
    <3> DEFINE r == [run[t] EXCEPT !.pc = "fetch", !.next = run[t].next + 1]
    <3>1. r.top = run[t].top /\ r.peer = run[t].peer
      BY <1>0 DEF Run
    <3>2. run' = [run EXCEPT ![t] = r]
      BY <2>2 DEF Advance
    <3> HIDE DEF r
    <3> QED
      BY <2>1, <3>1, <3>2, SetHeads
  <2>3. CASE GoTo(t, "file")
    <3> DEFINE r == [run[t] EXCEPT !.pc = "file"]
    <3>1. r.top = run[t].top /\ r.peer = run[t].peer
      BY <1>0 DEF Run
    <3>2. run' = [run EXCEPT ![t] = r]
      BY <2>3 DEF GoTo
    <3> HIDE DEF r
    <3> QED
      BY <2>1, <3>1, <3>2, SetHeads
  <2>4. CASE GoTo(t, "raise")
    BY <2>4, MoveHeads
  <2> QED
    BY <1>5, <2>2, <2>3, <2>4 DEF Fetch, File
<1>6. CASE Finish(t)
  BY <1>6, MoveHeads DEF Finish, After
<1>7. CASE Raise(t)
  BY <1>7, MoveHeads DEF Raise, JoinRaiseTo
<1> QED
  BY <1>1, <1>2, <1>3, <1>4, <1>5, <1>6, <1>7 DEF SyncStep

LEMMA HeadsKnownStep ==
    ASSUME TypeInv, TypeInv', HeadsKnown, [Next]_vars
    PROVE  HeadsKnown'
<1>1. ASSUME NEW t \in Join, JoinStep(t)
      PROVE  HeadsKnown'
  <2>1. \E pc \in PCs \ {"fetch", "file"} : End(t, pc) \/ GoTo(t, pc)
    BY <1>1 DEF JoinStep, JoinStart, JoinChoose, JoinAcquire, JoinGiveUp, JoinRelease,
                JoinLeave, PCs
  <2>2. t \in Runner
    BY DEF Runner
  <2> QED
    BY <2>1, <2>2, MoveHeads
<1>2. CASE CheckRead
  <2> DEFINE r == [NoRun("compare") EXCEPT !.head = headIdx]
  <2>1. r.pc = "compare"
    BY DEF NoRun
  <2>2. run' = [run EXCEPT ![SyncLoop] = r] /\ SyncLoop \in Runner
    BY <1>2 DEF CheckRead, Runner
  <2> HIDE DEF r
  <2> QED
    BY <2>1, <2>2, SetHeads
<1>3. CASE CheckWrite
  <2>1. End(SyncLoop, "idle") /\ SyncLoop \in Runner
    BY <1>3 DEF CheckWrite, Runner
  <2> QED
    BY <2>1, MoveHeads DEF PCs
<1>4. CASE Crash
  BY <1>4 DEF Crash, HeadsKnown, HeadKnown, NoRun
<1>5. CASE UNCHANGED run
  <2> SUFFICES ASSUME NEW t \in Runner, run[t].pc \in {"fetch", "file"}
               PROVE  run[t].top <= peerTop'[run[t].peer]
    BY <1>5 DEF HeadsKnown, HeadKnown
  <2>1. run[t].top <= peerTop[run[t].peer] /\ run[t].peer \in Peer
    BY DEF HeadsKnown, HeadKnown, TypeInv, Fits, Fit
  <2>2. run[t].top \in Nat /\ peerTop[run[t].peer] \in Nat /\ peerTop'[run[t].peer] \in Nat
    BY <2>1, ConfigAssumption DEF TypeInv, Fits, Run, RestOK
  <2> QED
    BY <2>1, <2>2, PeerTopGrows
<1> QED
  BY <1>1, <1>2, <1>3, <1>4, <1>5, SyncHeads
  DEF Next, Check, LocalCommit, PeerFiles, SetJoinMode, vars

\* A block that appears fills a vacant index and is genuine.
LEMMA GenuineStep ==
    ASSUME TypeInv, HeadsKnown, [Next]_vars, NEW i \in Index, ledger'[i] # ledger[i]
    PROVE  ledger[i] = None /\ Genuine(i, ledger'[i])
<1>0. ledger \in [Index -> Maker \cup {None}]
  BY DEF TypeInv, RestOK
<1>1. ASSUME NEW t \in Runner, File(t), ledger[run[t].next] = None,
             ledger' = [ledger EXCEPT ![run[t].next] = Served(t)]
      PROVE  ledger[i] = None /\ Genuine(i, ledger'[i])
  <2>1. i = run[t].next /\ ledger'[i] = Served(t)
    BY <1>0, <1>1
  <2>2. run[t].peer \in Peer /\ run[t].next <= run[t].top
    BY <1>1 DEF File, At, TypeInv, Fits, Fit
  <2>3. run[t].top <= peerTop[run[t].peer]
    BY <1>1 DEF File, At, HeadsKnown, HeadKnown
  <2>4. run[t].next \in Nat /\ run[t].top \in Nat /\ peerTop[run[t].peer] \in Nat
    BY <2>2, ConfigAssumption DEF TypeInv, Fits, Run, RestOK
  <2> QED
    BY <1>1, <2>1, <2>2, <2>3, <2>4 DEF Genuine, Served
<1>2. CASE LocalCommit
  BY <1>0, <1>2 DEF LocalCommit, Unique, Genuine
<1> QED
  BY <1>1, <1>2, LedgerSteps

LEMMA HeadsInvariance == Spec => []HeadsKnown
<1>1. Init => HeadsKnown
  BY DEF Init, HeadsKnown, HeadKnown, NoRun
<1>2. TypeInv /\ TypeInv' /\ HeadsKnown /\ [Next]_vars => HeadsKnown'
  BY HeadsKnownStep
<1> QED
  BY <1>1, <1>2, TypeInvariance, PTL DEF Spec

\* A block once filed stays, and a new one is a peer's or this relay's next.
THEOREM GenuineTheorem == Spec => BlocksGenuine
<1>1. TypeInv /\ HeadsKnown /\ [Next]_vars =>
        [\A i \in Index : ledger'[i] # ledger[i] =>
             ledger[i] = None /\ Genuine(i, ledger'[i])]_vars
  BY GenuineStep
<1> QED
  BY <1>1, TypeInvariance, HeadsInvariance, PTL DEF Spec, BlocksGenuine

-----------------------------------------------------------------------------
(* What PeerAssumption asks of the peers is what this relay, which runs the   *)
(* same code, does itself.                                                   *)

OwnFromOne == {i \in Index : ledger[i] = THIS_RELAY_DOMAIN} = 1..headIdx

LEMMA HeadSteps ==
    ASSUME [Next]_vars
    PROVE  LocalCommit \/ UNCHANGED headIdx
<1> USE DEF exceptRun, outside
<1>1. ASSUME NEW t \in Join, JoinStep(t)
      PROVE  UNCHANGED headIdx
  BY <1>1 DEF JoinStep, JoinStart, JoinChoose, JoinAcquire, JoinGiveUp, JoinRelease,
              JoinLeave
<1>2. ASSUME NEW t \in Runner, SyncStep(t)
      PROVE  UNCHANGED headIdx
  BY <1>2 DEF SyncStep, Begin, Pick, PeerHead, Stop, Fetch, File, Finish, Raise
<1> QED
  BY <1>1, <1>2 DEF Next, Check, CheckRead, CheckWrite, PeerFiles, SetJoinMode, Crash, vars

LEMMA OwnFromOneStep ==
    ASSUME TypeInv, TypeInv', OwnFromOne, [Next]_vars
    PROVE  OwnFromOne'
<1>0. /\ ledger \in [Index -> Maker \cup {None}]
      /\ headIdx \in Nat
      /\ THIS_RELAY_DOMAIN # None
  BY ConfigAssumption, PeerAssumption DEF TypeInv, RestOK, Maker
<1>1. CASE LocalCommit
  <2>1. headIdx + 1 \in Index
    BY <1>0, <1>1, ConfigAssumption DEF LocalCommit, TypeInv, RestOK, Index
  <2>2. {i \in Index : ledger'[i] = THIS_RELAY_DOMAIN}
          = {i \in Index : ledger[i] = THIS_RELAY_DOMAIN} \cup {headIdx + 1}
    BY <1>0, <1>1, <2>1 DEF LocalCommit
  <2>3. headIdx' = headIdx + 1
    BY <1>1 DEF LocalCommit
  <2>4. 1..headIdx + 1 = 1..headIdx \cup {headIdx + 1}
    BY <1>0
  <2> QED
    BY <2>2, <2>3, <2>4 DEF OwnFromOne
<1>2. ASSUME NEW t \in Runner, File(t), ledger[run[t].next] = None,
             ledger' = [ledger EXCEPT ![run[t].next] = Served(t)]
      PROVE  OwnFromOne'
  <2>1. run[t].peer \in Peer /\ run[t].next \in Index
    BY <1>2, ConfigAssumption DEF TypeInv, Fits, Fit, Run, File, At, Index
  <2>2. Served(t) # THIS_RELAY_DOMAIN
    BY <2>1, PeerAssumption DEF Served
  <2>3. \A i \in Index : ledger'[i] = THIS_RELAY_DOMAIN <=> ledger[i] = THIS_RELAY_DOMAIN
    BY <1>0, <1>2, <2>2
  <2>4. UNCHANGED headIdx
    BY <1>2 DEF File, outside
  <2> QED
    BY <2>3, <2>4 DEF OwnFromOne
<1>3. CASE UNCHANGED <<ledger, headIdx>>
  BY <1>3 DEF OwnFromOne
<1> QED
  BY <1>1, <1>2, <1>3, LedgerSteps, HeadSteps DEF File, outside

\* This relay's own blocks are at the indices 1 to its head, without a gap,
\* whatever it imports in between.
THEOREM OwnTheorem == Spec => []OwnFromOne
<1>1. Init => OwnFromOne
  <2> SUFFICES ASSUME Init PROVE OwnFromOne
    OBVIOUS
  <2>1. \A i \in Index : ledger[i] # THIS_RELAY_DOMAIN
    BY PeerAssumption DEF Init, Maker
  <2>2. 1..headIdx = {}
    BY DEF Init
  <2> QED
    BY <2>1, <2>2 DEF OwnFromOne
<1>2. TypeInv /\ TypeInv' /\ OwnFromOne /\ [Next]_vars => OwnFromOne'
  BY OwnFromOneStep
<1> QED
  BY <1>1, <1>2, TypeInvariance, PTL DEF Spec

-----------------------------------------------------------------------------
(* No gap.  The strengthening says what the two writers rely on: a run that  *)
(* is about to fetch a block, and the commit loop, have all blocks below.    *)

Fetching == {"head", "fetch", "file"}

Reached == \A t \in Runner : run[t].pc \in Fetching => 1..run[t].next - 1 \subseteq Filed

GapInv == ~ skipped => /\ \A i \in Filed : 1..i \subseteq Filed
                       /\ 1..headIdx \subseteq Filed
                       /\ Reached

LEMMA FiledGrows ==
    ASSUME TypeInv, [Next]_vars
    PROVE  Filed \subseteq Filed'
  BY LedgerGrows DEF Filed

LEMMA SetReached ==
    ASSUME Fits, Reached, Filed \subseteq Filed', NEW t \in Runner, NEW r,
           run' = [run EXCEPT ![t] = r],
           r.pc \in Fetching => 1..r.next - 1 \subseteq Filed'
    PROVE  Reached'
<1> SUFFICES ASSUME NEW u \in Runner, run'[u].pc \in Fetching
             PROVE  1..run'[u].next - 1 \subseteq Filed'
  BY DEF Reached
<1>1. CASE u = t
  BY <1>1 DEF Fits
<1>2. CASE u # t
  <2>1. run'[u] = run[u]
    BY <1>2 DEF Fits
  <2> QED
    BY <2>1 DEF Reached
<1> QED
  BY <1>1, <1>2

LEMMA EndReached ==
    ASSUME Fits, Reached, Filed \subseteq Filed', NEW t \in Runner,
           NEW pc \in PCs \ Fetching, End(t, pc) \/ GoTo(t, pc)
    PROVE  Reached'
<1>1. CASE End(t, pc)
  <2>1. NoRun(pc).pc \notin Fetching
    BY DEF NoRun
  <2> QED
    BY <1>1, <2>1, SetReached DEF End
<1>2. CASE GoTo(t, pc)
  <2> DEFINE r == [run[t] EXCEPT !.pc = pc]
  <2>1. r.pc \notin Fetching
    BY DEF Fits, Run
  <2>2. run' = [run EXCEPT ![t] = r]
    BY <1>2 DEF GoTo
  <2> HIDE DEF r
  <2> QED
    BY <2>1, <2>2, SetReached
<1> QED
  BY <1>1, <1>2

LEMMA JoinReached ==
    ASSUME Fits, Reached, Filed \subseteq Filed', NEW t \in Join, JoinStep(t)
    PROVE  Reached'
<1>0. t \in Runner
  BY DEF Runner
<1> USE <1>0 DEF PCs, Fetching
<1>1. CASE JoinStart(t)
  BY <1>1, EndReached DEF JoinStart
<1>2. CASE JoinChoose(t)
  BY <1>2, EndReached DEF JoinChoose
<1>3. CASE JoinAcquire(t)
  BY <1>3, EndReached DEF JoinAcquire
<1>4. CASE JoinGiveUp(t)
  BY <1>4, EndReached DEF JoinGiveUp
<1>5. CASE JoinRelease(t)
  BY <1>5, EndReached DEF JoinRelease
<1>6. CASE JoinLeave(t)
  BY <1>6, EndReached DEF JoinLeave
<1> QED
  BY <1>1, <1>2, <1>3, <1>4, <1>5, <1>6 DEF JoinStep

\* A run passes a block only when it is there; skipped excludes the other case.
LEMMA SyncReached ==
    ASSUME TypeInv, Reached, \A i \in Filed : 1..i \subseteq Filed,
           Filed \subseteq Filed', NEW t \in Runner, SyncStep(t), ~ skipped'
    PROVE  Reached'
<1> USE DEF PCs, Fetching
<1>0. Fits /\ RestOK /\ run[t] \in Run
  BY DEF TypeInv, Fits
<1>1. CASE Begin(t)
  BY <1>0, <1>1, EndReached DEF Begin
<1>2. CASE Pick(t)
  <2>1. CASE GoTo(t, "stop")
    BY <1>0, <2>1, EndReached
  <2>2. ASSUME NEW p \in Peer, NEW i \in 0..MaxIndex, IsLocalIndex(i),
               run' = [run EXCEPT ![t] = [@ EXCEPT !.pc = "head", !.peer = p,
                                                   !.next = First(i)]]
        PROVE  Reached'
    <3> DEFINE r == [run[t] EXCEPT !.pc = "head", !.peer = p, !.next = First(i)]
    <3>1. r.next = i + 1
      BY <1>0 DEF Run, First
    <3>2. 1..i \subseteq Filed
      BY <2>2 DEF IsLocalIndex
    <3>3. run' = [run EXCEPT ![t] = r]
      BY <2>2
    <3>4. r.next - 1 = i
      BY <3>1
    <3> HIDE DEF r
    <3> QED
      BY <1>0, <3>2, <3>3, <3>4, SetReached
  <2> QED
    BY <1>2, <2>1, <2>2 DEF Pick
<1>3. CASE PeerHead(t)
  <2> PICK top \in {0, peerTop[run[t].peer]} :
         run' = [run EXCEPT ![t] = [@ EXCEPT !.pc = IF top < run[t].next THEN "stop"
                                                                         ELSE "fetch",
                                             !.top = top]]
    BY <1>3 DEF PeerHead
  <2> DEFINE pc == IF top < run[t].next THEN "stop" ELSE "fetch"
             r == [run[t] EXCEPT !.pc = pc, !.top = top]
  <2>1. run' = [run EXCEPT ![t] = r]
    OBVIOUS
  <2>2. r.next = run[t].next
    BY <1>0 DEF Run
  <2>3. 1..run[t].next - 1 \subseteq Filed
    BY <1>3 DEF PeerHead, At, Reached
  <2> HIDE DEF r
  <2> QED
    BY <1>0, <2>1, <2>2, <2>3, SetReached
<1>4. CASE Stop(t)
  BY <1>0, <1>4, EndReached DEF Stop, After
<1>5. CASE Fetch(t) \/ File(t)
  <2>1. 1..run[t].next - 1 \subseteq Filed
    BY <1>5 DEF Fetch, File, At, Reached
  <2>2. run[t].next \in Nat /\ run[t].next \in Index
    BY <1>0, <1>5, ConfigAssumption DEF Run, Fetch, File, At, Index, Fits, Fit
  <2>3. CASE Advance(t)
    <3> DEFINE r == [run[t] EXCEPT !.pc = "fetch", !.next = run[t].next + 1]
    <3>1. run[t].next \in Filed'
      <4>1. CASE Fetch(t)
        <5>1. ledger[run[t].next] # None
          BY <1>0, <2>3, <4>1 DEF Fetch, Advance, GoTo, Fits, Run, RestOK
        <5> QED
          BY <2>2, <5>1 DEF Filed
      <4>2. CASE File(t)
        <5>1. ledger' = [ledger EXCEPT ![run[t].next] = Served(t)]
          BY <1>0, <2>3, <4>2 DEF File, Advance, GoTo, Fits, Run
        <5>2. Served(t) # None
          BY <1>0, <2>2, <4>2, PeerAssumption DEF Maker, File, At, Served, Fits, Fit
        <5> QED
          BY <1>0, <2>2, <5>1, <5>2 DEF Filed, RestOK
      <4> QED
        BY <1>5, <4>1, <4>2
    <3>2. r.next - 1 = run[t].next
      BY <1>0, <2>2 DEF Run
    <3>3. 1..run[t].next \subseteq Filed'
      BY <2>1, <2>2, <3>1
    <3>4. run' = [run EXCEPT ![t] = r]
      BY <2>3 DEF Advance
    <3> HIDE DEF r
    <3> QED
      BY <1>0, <3>2, <3>3, <3>4, SetReached
  <2>4. CASE GoTo(t, "file")
    <3> DEFINE r == [run[t] EXCEPT !.pc = "file"]
    <3>1. r.next = run[t].next
      BY <1>0 DEF Run
    <3>2. run' = [run EXCEPT ![t] = r]
      BY <2>4 DEF GoTo
    <3> HIDE DEF r
    <3> QED
      BY <1>0, <2>1, <3>1, <3>2, SetReached
  <2>5. CASE GoTo(t, "raise")
    BY <1>0, <2>5, EndReached
  <2> QED
    BY <1>5, <2>3, <2>4, <2>5 DEF Fetch, File
<1>6. CASE Finish(t)
  BY <1>0, <1>6, EndReached DEF Finish, After
<1>7. CASE Raise(t)
  BY <1>0, <1>7, EndReached DEF Raise, JoinRaiseTo
<1> QED
  BY <1>1, <1>2, <1>3, <1>4, <1>5, <1>6, <1>7 DEF SyncStep

LEMMA OtherReached ==
    ASSUME TypeInv, Reached, \A i \in Filed : 1..i \subseteq Filed,
           [Next]_vars, ~ skipped'
    PROVE  Reached'
<1>0. Fits /\ Filed \subseteq Filed'
  BY FiledGrows DEF TypeInv
<1>1. CASE CheckRead
  <2> DEFINE r == [NoRun("compare") EXCEPT !.head = headIdx]
  <2>1. r.pc \notin Fetching
    BY DEF NoRun, Fetching
  <2>2. run' = [run EXCEPT ![SyncLoop] = r] /\ SyncLoop \in Runner
    BY <1>1 DEF CheckRead, Runner
  <2> HIDE DEF r
  <2> QED
    BY <1>0, <2>1, <2>2, SetReached
<1>2. CASE CheckWrite
  <2>1. End(SyncLoop, "idle") /\ SyncLoop \in Runner
    BY <1>2 DEF CheckWrite, Runner
  <2> QED
    BY <1>0, <2>1, EndReached DEF PCs, Fetching
<1>3. CASE Crash
  BY <1>3 DEF Crash, Reached, NoRun, Fetching
<1>4. CASE UNCHANGED run
  BY <1>0, <1>4 DEF Reached
<1> QED
  BY <1>0, <1>1, <1>2, <1>3, <1>4, JoinReached, SyncReached
  DEF Next, Check, LocalCommit, PeerFiles, SetJoinMode, vars

\* A run that has gone past a block stays known as such.
LEMMA SkippedStays ==
    ASSUME TypeInv, [Next]_vars, ~ skipped'
    PROVE  ~ skipped
<1> USE DEF exceptRun
<1>1. ASSUME NEW t \in Join, JoinStep(t)
      PROVE  ~ skipped
  BY <1>1 DEF JoinStep, JoinStart, JoinChoose, JoinAcquire, JoinGiveUp, JoinRelease,
              JoinLeave
<1>2. ASSUME NEW t \in Runner, SyncStep(t)
      PROVE  ~ skipped
  BY <1>2 DEF SyncStep, Begin, Pick, PeerHead, Stop, Fetch, File, Finish, Raise
<1> QED
  BY <1>1, <1>2
  DEF Next, Check, CheckRead, CheckWrite, LocalCommit, PeerFiles, SetJoinMode, Crash, vars

\* Both writers file the block after the ones they know are there.
LEMMA NoGapStep ==
    ASSUME TypeInv, Reached, \A i \in Filed : 1..i \subseteq Filed,
           1..headIdx \subseteq Filed, [Next]_vars
    PROVE  \A i \in Filed' : 1..i \subseteq Filed'
<1>0. RestOK /\ Fits /\ Filed \subseteq Filed'
  BY FiledGrows DEF TypeInv
<1>1. ASSUME NEW t \in Runner, File(t),
             ledger' = [ledger EXCEPT ![run[t].next] = Served(t)]
      PROVE  \A i \in Filed' : 1..i \subseteq Filed'
  <2>1. run[t].next \in Nat /\ run[t].next \in Index
    BY <1>0, <1>1, ConfigAssumption DEF Run, File, At, Index, Fits, Fit
  <2>2. 1..run[t].next - 1 \subseteq Filed
    BY <1>1 DEF File, At, Reached, Fetching
  <2>3. Served(t) # None
    BY <1>0, <1>1, <2>1, PeerAssumption DEF Maker, File, At, Served, Fits, Fit
  <2>4. Filed' = Filed \cup {run[t].next}
    BY <1>0, <1>1, <2>1, <2>3 DEF Filed, RestOK
  <2>5. 1..run[t].next \subseteq Filed'
    BY <2>1, <2>2, <2>4
  <2> QED
    BY <2>4, <2>5
<1>2. CASE LocalCommit
  <2>1. headIdx \in Nat /\ headIdx + 1 \in Index
    BY <1>0, <1>2, ConfigAssumption DEF LocalCommit, Index, RestOK
  <2>2. Filed' = Filed \cup {headIdx + 1}
    BY <1>0, <1>2, <2>1, PeerAssumption DEF Maker, Unique, LocalCommit, Filed, RestOK
  <2>3. 1..headIdx + 1 \subseteq Filed'
    BY <2>1, <2>2
  <2> QED
    BY <2>2, <2>3
<1>3. CASE UNCHANGED ledger
  BY <1>3 DEF Filed
<1> QED
  BY <1>1, <1>2, <1>3, LedgerSteps

\* Only the commit loop moves its head, onto the block it has just filed.
LEMMA HeadStep ==
    ASSUME TypeInv, 1..headIdx \subseteq Filed, [Next]_vars
    PROVE  1..headIdx' \subseteq Filed'
<1>0. RestOK /\ Filed \subseteq Filed'
  BY FiledGrows DEF TypeInv
<1>1. CASE LocalCommit
  <2>1. headIdx \in Nat /\ headIdx + 1 \in Index
    BY <1>0, <1>1, ConfigAssumption DEF LocalCommit, Index, RestOK
  <2>2. headIdx + 1 \in Filed'
    BY <1>0, <1>1, <2>1, PeerAssumption DEF Maker, Unique, LocalCommit, Filed, RestOK
  <2>3. headIdx' = headIdx + 1
    BY <1>1 DEF LocalCommit
  <2> QED
    BY <1>0, <2>1, <2>2, <2>3
<1> QED
  BY <1>0, <1>1, HeadSteps

\* Unless a fetch failed, the blocks have no gap.
THEOREM NoGapTheorem == Spec => []NoGap
<1>1. Init => GapInv
  BY DEF Init, GapInv, Reached, Filed, NoRun, Fetching
<1>2. TypeInv /\ GapInv /\ [Next]_vars => GapInv'
  <2> SUFFICES ASSUME TypeInv, GapInv, [Next]_vars, ~ skipped'
               PROVE  /\ \A i \in Filed' : 1..i \subseteq Filed'
                      /\ 1..headIdx' \subseteq Filed'
                      /\ Reached'
    BY DEF GapInv
  <2>1. /\ \A i \in Filed : 1..i \subseteq Filed
        /\ 1..headIdx \subseteq Filed
        /\ Reached
    BY SkippedStays DEF GapInv
  <2> QED
    BY <2>1, NoGapStep, HeadStep, OtherReached
<1>3. TypeInv /\ GapInv => NoGap
  <2> SUFFICES ASSUME TypeInv, GapInv, ~ skipped, NEW t \in Runner, At(t, "fetch"),
                      run[t].next > run[t].top
               PROVE  1..run[t].top \subseteq Filed
    BY DEF GapInv, NoGap
  <2>1. 1..run[t].next - 1 \subseteq Filed
    BY DEF GapInv, Reached, Fetching, At
  <2>2. run[t].next \in Nat /\ run[t].top \in Nat
    BY ConfigAssumption DEF TypeInv, Fits, Run
  <2> QED
    BY <2>1, <2>2
<1> QED
  BY <1>1, <1>2, <1>3, TypeInvariance, PTL DEF Spec

-----------------------------------------------------------------------------
(* The slot of a join.                                                     *)

InsidePCs == {"enter", "pick", "head", "stop", "fetch", "file", "raise", "release",
              "release_failed"}

SlotsRight == \A t \in Join : t \in slots <=> run[t].pc \in InsidePCs

LEMMA SetSlots ==
    ASSUME Fits, SlotsRight, NEW t \in Runner, NEW r, run' = [run EXCEPT ![t] = r],
           \A u \in Join \ {t} : u \in slots' <=> u \in slots,
           t \in Join => (t \in slots' <=> r.pc \in InsidePCs)
    PROVE  SlotsRight'
<1> SUFFICES ASSUME NEW u \in Join
             PROVE  u \in slots' <=> run'[u].pc \in InsidePCs
  BY DEF SlotsRight
<1>0. u \in Runner
  BY DEF Runner
<1>1. CASE u = t
  BY <1>1 DEF Fits
<1>2. CASE u # t
  <2>1. run'[u] = run[u]
    BY <1>0, <1>2 DEF Fits
  <2> QED
    BY <1>2, <2>1 DEF SlotsRight
<1> QED
  BY <1>1, <1>2

LEMMA MoveSlots ==
    ASSUME Fits, SlotsRight, NEW t \in Runner, NEW pc, End(t, pc) \/ GoTo(t, pc),
           \A u \in Join \ {t} : u \in slots' <=> u \in slots,
           t \in Join => (t \in slots' <=> pc \in InsidePCs)
    PROVE  SlotsRight'
<1>1. CASE End(t, pc)
  <2>1. NoRun(pc).pc = pc
    BY DEF NoRun
  <2> QED
    BY <1>1, <2>1, SetSlots DEF End
<1>2. CASE GoTo(t, pc)
  <2> DEFINE r == [run[t] EXCEPT !.pc = pc]
  <2>1. r.pc = pc
    BY DEF Fits, Run
  <2>2. run' = [run EXCEPT ![t] = r]
    BY <1>2 DEF GoTo
  <2> HIDE DEF r
  <2> QED
    BY <2>1, <2>2, SetSlots
<1> QED
  BY <1>1, <1>2

\* Without faults a join enters with the slot and leaves without.
LEMMA JoinSlots ==
    ASSUME Fits, SlotsRight, NEW t \in Join, JoinStep(t), faults' = faults,
           faults \in Nat
    PROVE  SlotsRight'
<1>0. t \in Runner /\ ~ Fault
  BY DEF Runner, Fault
<1> USE <1>0 DEF InsidePCs, At
<1>1. CASE JoinStart(t)
  BY <1>1, MoveSlots DEF JoinStart, SlotsRight
<1>2. CASE JoinChoose(t)
  BY <1>2, MoveSlots DEF JoinChoose, SlotsRight, exceptRun
<1>3. CASE JoinAcquire(t)
  BY <1>3, MoveSlots DEF JoinAcquire, SlotsRight
<1>4. CASE JoinGiveUp(t)
  BY <1>4, MoveSlots DEF JoinGiveUp, SlotsRight
<1>5. CASE JoinRelease(t)
  BY <1>5, MoveSlots DEF JoinRelease, SlotsRight
<1>6. CASE JoinLeave(t)
  BY <1>6, MoveSlots DEF JoinLeave, SlotsRight
<1> QED
  BY <1>1, <1>2, <1>3, <1>4, <1>5, <1>6 DEF JoinStep

\* The sync keeps the slot, however it ends.
LEMMA SyncSlotsKept ==
    ASSUME Fits, SlotsRight, NEW t \in Runner, SyncStep(t)
    PROVE  SlotsRight'
<1>0. run[t] \in Run
  BY DEF Fits
<1> USE RunnerAssumption DEF InsidePCs, At
<1>1. CASE Begin(t)
  BY <1>1, MoveSlots DEF Begin, SlotsRight
<1>2. CASE Pick(t)
  <2>1. CASE GoTo(t, "stop")
    BY <1>2, <2>1, MoveSlots DEF Pick, SlotsRight, exceptRun
  <2>2. ASSUME NEW p \in Peer, NEW i \in 0..MaxIndex,
               run' = [run EXCEPT ![t] = [@ EXCEPT !.pc = "head", !.peer = p,
                                                   !.next = First(i)]]
        PROVE  SlotsRight'
    <3> DEFINE r == [run[t] EXCEPT !.pc = "head", !.peer = p, !.next = First(i)]
    <3>1. r.pc = "head"
      BY <1>0 DEF Run
    <3>2. run' = [run EXCEPT ![t] = r]
      BY <2>2
    <3> HIDE DEF r
    <3> QED
      BY <1>2, <3>1, <3>2, SetSlots DEF Pick, SlotsRight, exceptRun
  <2> QED
    BY <1>2, <2>1, <2>2 DEF Pick
<1>3. CASE PeerHead(t)
  <2> PICK top \in {0, peerTop[run[t].peer]} :
         run' = [run EXCEPT ![t] = [@ EXCEPT !.pc = IF top < run[t].next THEN "stop"
                                                                         ELSE "fetch",
                                             !.top = top]]
    BY <1>3 DEF PeerHead
  <2> DEFINE pc == IF top < run[t].next THEN "stop" ELSE "fetch"
             r == [run[t] EXCEPT !.pc = pc, !.top = top]
  <2>1. pc \in {"stop", "fetch"}
    OBVIOUS
  <2>2. run' = [run EXCEPT ![t] = r]
    OBVIOUS
  <2> HIDE DEF pc
  <2>3. r.pc \in {"stop", "fetch"}
    BY <1>0, <2>1 DEF Run
  <2> HIDE DEF r
  <2> QED
    BY <1>3, <2>2, <2>3, SetSlots DEF PeerHead, SlotsRight, exceptRun
<1>4. CASE Stop(t)
  BY <1>4, MoveSlots DEF Stop, After, SlotsRight
<1>5. CASE Fetch(t) \/ File(t)
  <2>1. t \in Join => t \in slots
    BY <1>5 DEF Fetch, File, SlotsRight
  <2>2. UNCHANGED slots
    BY <1>5 DEF Fetch, File
  <2>3. CASE Advance(t)
    <3> DEFINE r == [run[t] EXCEPT !.pc = "fetch", !.next = run[t].next + 1]
    <3>1. r.pc = "fetch"
      BY <1>0 DEF Run
    <3>2. run' = [run EXCEPT ![t] = r]
      BY <2>3 DEF Advance
    <3> HIDE DEF r
    <3> QED
      BY <2>1, <2>2, <3>1, <3>2, SetSlots
  <2>4. CASE GoTo(t, "file") \/ GoTo(t, "raise")
    BY <2>1, <2>2, <2>4, MoveSlots
  <2> QED
    BY <1>5, <2>3, <2>4 DEF Fetch, File
<1>6. CASE Finish(t)
  BY <1>6, MoveSlots DEF Finish, After, SlotsRight
<1>7. CASE Raise(t)
  BY <1>7, MoveSlots DEF Raise, JoinRaiseTo, SlotsRight
<1> QED
  BY <1>1, <1>2, <1>3, <1>4, <1>5, <1>6, <1>7 DEF SyncStep

LEMMA OtherSlots ==
    ASSUME TypeInv, SlotsRight, [Next]_vars, faults' = faults
    PROVE  SlotsRight'
<1>0. Fits /\ faults \in Nat /\ SyncLoop \in Runner /\ SyncLoop \notin Join
  BY ConfigAssumption, RunnerAssumption DEF TypeInv, RestOK, Runner
<1>1. CASE Check
  <2>1. UNCHANGED slots
    BY <1>1 DEF Check, CheckRead, CheckWrite, exceptRun
  <2>2. \A u \in Join : run'[u] = run[u]
    BY <1>0, <1>1 DEF Check, CheckRead, CheckWrite, End, Fits, Runner
  <2> QED
    BY <2>1, <2>2 DEF SlotsRight
<1>2. CASE Crash
  BY <1>0, <1>2 DEF Crash, Fault
<1>3. CASE UNCHANGED <<run, slots>>
  BY <1>3 DEF SlotsRight
<1> QED
  BY <1>0, <1>1, <1>2, <1>3, JoinSlots, SyncSlotsKept
  DEF Next, LocalCommit, PeerFiles, SetJoinMode, vars

\* A fault is never forgotten.
LEMMA FaultsStay ==
    ASSUME TypeInv, [Next]_vars, faults' = 0
    PROVE  faults = 0
<1>0. faults \in Nat
  BY ConfigAssumption DEF TypeInv, RestOK
<1> USE <1>0 DEF exceptRun, Fault
<1>1. ASSUME NEW t \in Join, JoinStep(t)
      PROVE  faults = 0
  BY <1>1 DEF JoinStep, JoinStart, JoinChoose, JoinAcquire, JoinGiveUp, JoinRelease,
              JoinLeave
<1>2. ASSUME NEW t \in Runner, SyncStep(t)
      PROVE  faults = 0
  <2>1. CASE Begin(t) \/ Stop(t) \/ Finish(t) \/ Raise(t)
    BY <2>1 DEF Begin, Stop, Finish, Raise
  <2>2. CASE Pick(t) \/ PeerHead(t)
    BY <2>2 DEF Pick, PeerHead
  <2>3. CASE Fetch(t)
    BY <2>3 DEF Fetch
  <2>4. CASE File(t)
    BY <2>4 DEF File
  <2> QED
    BY <1>2, <2>1, <2>2, <2>3, <2>4 DEF SyncStep
<1>3. CASE Check
  BY <1>3 DEF Check, CheckRead, CheckWrite
<1>4. CASE Crash
  BY <1>4 DEF Crash
<1> QED
  BY <1>1, <1>2, <1>3, <1>4 DEF Next, LocalCommit, PeerFiles, SetJoinMode, vars

\* A join holds a peer's slot exactly while it syncs, unless something failed.
THEOREM SlotReturnedTheorem == Spec => []SlotReturned
<1> DEFINE I == faults = 0 => SlotsRight
<1>1. Init => I
  <2> SUFFICES ASSUME Init, NEW t \in Join
               PROVE  t \notin slots /\ run[t].pc \notin InsidePCs
    BY DEF SlotsRight
  <2>1. run[t] = NoRun("idle") /\ slots = {}
    BY DEF Init, Runner
  <2> QED
    BY <2>1 DEF NoRun, InsidePCs
<1>2. TypeInv /\ I /\ [Next]_vars => I'
  BY FaultsStay, OtherSlots
<1>3. TypeInv /\ I => SlotReturned
  <2> SUFFICES ASSUME TypeInv, SlotsRight
               PROVE  slots = {t \in Join : Inside(t)}
    BY DEF SlotReturned
  <2>1. \A t \in Join : Inside(t) <=> run[t].pc \in InsidePCs
    BY DEF Inside, InsidePCs
  <2> QED
    BY <2>1 DEF TypeInv, RestOK, SlotsRight
<1> QED
  BY <1>1, <1>2, <1>3, TypeInvariance, PTL DEF Spec
=============================================================================
