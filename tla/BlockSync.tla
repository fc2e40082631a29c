----------------------------- MODULE BlockSync ------------------------------
(***************************************************************************)
(* How a relay catches up with its peers: sync_missing_blocks_once, run by *)
(* the sync loop, by POST /ledger/sync/run and inside POST                 *)
(* /ledger/join/run, with the three flags of consensus_state that gate     *)
(* client writes and the commit loop: is_synced, is_syncing, join_mode.    *)
(*                                                                         *)
(* Every run is on a thread of its own and shares only the database.  A    *)
(* block is its index and the relay that made it, and of the claims in it  *)
(* only matters which blocks have one in common.  POST /ledger/blocks/     *)
(* import, by which an admin files any block, is in Ledger.                *)
(***************************************************************************)
EXTENDS Naturals, FiniteSets

CONSTANTS
    Peer,               \* the other relays
    PeerChain,          \* who made each block of each peer's ledger
    SameClaim,          \* the pairs of blocks that hold one claim
    THIS_RELAY_DOMAIN,
    SyncLoop,           \* the thread of sync_checker_loop
    Join,               \* requests to /ledger/join/run
    Manual,             \* requests to /ledger/sync/run
    AUTO_EXIT_JOIN_MODE_ON_SYNC,
    IS_JOIN_MODE,       \* join_mode at startup
    None,
    MaxIndex,           \* bound on block indices
    MaxFaults           \* bound on failed fetches, calls and crashes

Index == 1..MaxIndex
Maker == Peer \cup {THIS_RELAY_DOMAIN}
Runner == {SyncLoop} \cup Join \cup Manual

ASSUME PeerAssumption ==
    /\ PeerChain \in [Peer -> [Index -> Peer]]
    /\ THIS_RELAY_DOMAIN \notin Peer
    /\ None \notin Maker
    /\ SameClaim \subseteq (Maker \X Index) \X (Maker \X Index)
    \* A relay files its own blocks from index 1 on, without a gap.
    /\ \A p \in Peer, i, j \in Index :
         PeerChain[p][i] = p /\ j < i => PeerChain[p][j] = p

ASSUME RunnerAssumption == /\ SyncLoop \notin Join \cup Manual
                           /\ Join \cap Manual = {}

ASSUME ConfigAssumption == /\ AUTO_EXIT_JOIN_MODE_ON_SYNC \in BOOLEAN
                           /\ IS_JOIN_MODE \in BOOLEAN
                           /\ MaxIndex \in Nat
                           /\ MaxFaults \in Nat

VARIABLES
    ledger,     \* ledger_blocks: the maker of the block at each index, or None
    headIdx,    \* current_block_index, which only the commit loop moves
    isSynced, isSyncing, joinMode,  \* consensus_state
    peerTop,    \* the highest block each peer has
    slots,      \* the join runs for which a peer counts a sync slot
    run,        \* local variables of each run
    skipped,    \* has a run gone past a block it could not fetch?
    faults

flags == <<isSynced, isSyncing, joinMode>>
vars == <<ledger, headIdx, flags, peerTop, slots, run, skipped, faults>>

\* next is the block a run will fetch, top the peer's head, head what the
\* check has read of the relay's own.
NoRun(pc) == [pc |-> pc, peer |-> None, next |-> 1, top |-> 0, head |-> 0]

Init == /\ ledger = [i \in Index |-> None]
        /\ headIdx = 0
        /\ isSynced = TRUE
        /\ isSyncing = FALSE
        /\ joinMode = IS_JOIN_MODE
        /\ peerTop = [p \in Peer |-> 0]
        /\ slots = {}
        /\ run = [t \in Runner |-> NoRun("idle")]
        /\ skipped = FALSE
        /\ faults = 0

At(t, pc) == run[t].pc = pc
GoTo(t, pc) == run' = [run EXCEPT ![t].pc = pc]
End(t, pc) == run' = [run EXCEPT ![t] = NoRun(pc)]

Fault == faults < MaxFaults /\ faults' = faults + 1

Filed == {i \in Index : ledger[i] # None}
\* local_index is the highest block index, or 0.
IsLocalIndex(i) == i \in Filed \cup {0} /\ \A j \in Filed : j <= i

\* Mutant: block_index not UNIQUE, the second block replaces the first.
Vacant(i) == TRUE
Unique(i) == ledger[i] = None

\* client_claim_hash is UNIQUE in ledger_claims.
NewClaims(maker, i) == \A j \in Filed : <<<<ledger[j], j>>, <<maker, i>>>> \notin SameClaim

exceptRun == <<ledger, headIdx, flags, peerTop, slots, skipped, faults>>
outside == <<headIdx, peerTop>>

-----------------------------------------------------------------------------
(* POST /ledger/join/run: run_join_once around the sync.                   *)

JoinStart(t) ==
    /\ At(t, "idle")
    /\ joinMode' = TRUE
    /\ isSyncing' = TRUE
    /\ GoTo(t, "choose")
    /\ UNCHANGED <<ledger, outside, isSynced, slots, skipped, faults>>

\* pick_best_sync_peer asks every peer whether it is ready for joins; none
\* may answer so.
JoinChoose(t) ==
    /\ At(t, "choose")
    /\ \/ Peer # {} /\ GoTo(t, "acquire")
       \/ GoTo(t, "give_up")
    /\ UNCHANGED exceptRun

\* The peer may grant a slot or refuse; its answer may be lost.  A peer that
\* runs this code refuses: the request carries no X-Admin-Token.
JoinAcquire(t) ==
    /\ At(t, "acquire")
    /\ \/ slots' = slots \cup {t} /\ GoTo(t, "enter") /\ UNCHANGED faults
       \/ GoTo(t, "give_up") /\ UNCHANGED <<slots, faults>>
       \/ slots' = slots \cup {t} /\ GoTo(t, "give_up") /\ Fault
    /\ UNCHANGED <<ledger, outside, flags, skipped>>

\* join_mode stays on.
JoinGiveUp(t) ==
    /\ At(t, "give_up")
    /\ isSyncing' = FALSE
    /\ End(t, "idle")
    /\ UNCHANGED <<ledger, outside, isSynced, joinMode, slots, skipped, faults>>

\* Mutant: a failed sync returns without the finally clause.
RaiseNoFinally == "idle"
JoinRaiseTo == "release_failed"

\* The finally clause; a lost request goes unnoticed.
JoinRelease(t) ==
    /\ At(t, "release") \/ At(t, "release_failed")
    /\ \/ slots' = slots \ {t} /\ UNCHANGED faults
       \/ Fault /\ UNCHANGED slots
    /\ End(t, IF At(t, "release") THEN "leave" ELSE "idle")
    /\ UNCHANGED <<ledger, outside, flags, skipped>>

ExitJoinMode == joinMode' = (joinMode /\ ~ AUTO_EXIT_JOIN_MODE_ON_SYNC)

JoinLeave(t) ==
    /\ At(t, "leave")
    /\ isSyncing' = FALSE
    /\ ExitJoinMode
    /\ End(t, "idle")
    /\ UNCHANGED <<ledger, outside, isSynced, slots, skipped, faults>>

-----------------------------------------------------------------------------
(* sync_missing_blocks_once.                                               *)

Begin(t) ==
    /\ At(t, IF t \in Join THEN "enter" ELSE "idle")
    /\ isSyncing' = TRUE
    /\ GoTo(t, "pick")
    /\ UNCHANGED <<ledger, outside, isSynced, joinMode, slots, skipped, faults>>

\* Mutant: an off-by-one in the range of blocks to fetch.
FirstOff(local) == local + 2
First(local) == local + 1

\* The head is read once; a join picks its peer again.
Pick(t) ==
    /\ At(t, "pick")
    /\ \/ \E p \in Peer, i \in 0..MaxIndex :
            /\ IsLocalIndex(i)
            /\ run' = [run EXCEPT ![t] = [@ EXCEPT !.pc = "head", !.peer = p,
                                                   !.next = First(i)]]
       \/ GoTo(t, "stop")
    /\ UNCHANGED exceptRun

\* fetch_peer_head is 0 when the peer does not answer.
PeerHead(t) ==
    /\ At(t, "head")
    /\ \E top \in {0, peerTop[run[t].peer]} :
         run' = [run EXCEPT ![t] = [@ EXCEPT !.pc = IF top < run[t].next THEN "stop"
                                                                         ELSE "fetch",
                                             !.top = top]]
    /\ UNCHANGED exceptRun

\* Where a run goes on when it has ended normally.
After(t) == IF t = SyncLoop THEN "check" ELSE IF t \in Join THEN "release" ELSE "idle"

\* Mutant: the early return without resetting the flag.
StopKept == isSyncing
StopFlag == FALSE

\* No peer, or nothing to fetch: join_mode stays as it is.
Stop(t) ==
    /\ At(t, "stop")
    /\ isSyncing' = StopFlag
    /\ End(t, After(t))
    /\ UNCHANGED <<ledger, outside, isSynced, joinMode, slots, skipped, faults>>

Advance(t) == run' = [run EXCEPT ![t] = [@ EXCEPT !.pc = "fetch",
                                                    !.next = run[t].next + 1]]

\* A block that is there already is left; one that does not come is passed.
Fetch(t) ==
    /\ At(t, "fetch") /\ run[t].next <= run[t].top
    /\ \/ /\ IF ledger[run[t].next] # None THEN Advance(t) ELSE GoTo(t, "file")
          /\ UNCHANGED <<skipped, faults>>
       \/ /\ Fault
          /\ skipped' = TRUE
          /\ Advance(t)
    /\ UNCHANGED <<ledger, outside, flags, slots>>

Served(t) == PeerChain[run[t].peer][run[t].next]

\* import_raw_block.  The insert raises when a block of this index has come in
\* since the check or a claim of the block is in the ledger already, and may fail
\* for other reasons; the rebuild of the ownership index may raise when the block
\* is filed.
File(t) ==
    /\ At(t, "file")
    /\ \/ /\ Unique(run[t].next) /\ NewClaims(Served(t), run[t].next)
          /\ ledger' = [ledger EXCEPT ![run[t].next] = Served(t)]
          /\ Advance(t) \/ GoTo(t, "raise")
          /\ UNCHANGED faults
       \/ /\ ~ (Unique(run[t].next) /\ NewClaims(Served(t), run[t].next))
          /\ GoTo(t, "raise")
          /\ UNCHANGED <<ledger, faults>>
       \/ /\ Fault
          /\ GoTo(t, "raise")
          /\ UNCHANGED ledger
    /\ UNCHANGED <<outside, flags, slots, skipped>>

Finish(t) ==
    /\ At(t, "fetch") /\ run[t].next > run[t].top
    /\ ExitJoinMode
    /\ isSyncing' = FALSE
    /\ End(t, After(t))
    /\ UNCHANGED <<ledger, outside, isSynced, slots, skipped, faults>>

\* The caller's handler: the loop declares the relay unsynced, a join resets
\* is_syncing, a request answers with an error.
Raise(t) ==
    /\ At(t, "raise")
    /\ isSynced' = (isSynced /\ t # SyncLoop)
    /\ isSyncing' = (isSyncing /\ t \notin Join)
    /\ End(t, IF t \in Join THEN JoinRaiseTo ELSE "idle")
    /\ UNCHANGED <<ledger, outside, joinMode, slots, skipped, faults>>

-----------------------------------------------------------------------------
(* run_sync_check_once after the sync.                                     *)

CheckRead ==
    /\ At(SyncLoop, "check")
    /\ run' = [run EXCEPT ![SyncLoop] = [NoRun("compare") EXCEPT !.head = headIdx]]
    /\ UNCHANGED exceptRun

\* What /ledger/status of a peer tells: current_block_index, which at the peer
\* too counts its own blocks only, and the hash of that block.
PeerIdx(p) == Cardinality({i \in 1..peerTop[p] : PeerChain[p][i] = p})
Hash(r, i) == IF i = 0 THEN <<None, 0>> ELSE <<r, i>>

Agrees(p, head) ==
    PeerIdx(p) = head /\ Hash(p, PeerIdx(p)) = Hash(THIS_RELAY_DOMAIN, head)

\* Some peers answer, perhaps none.
CheckWrite ==
    /\ At(SyncLoop, "compare")
    /\ \E answers \in SUBSET Peer :
         isSynced' = \/ answers = {}
                     \/ /\ \A p \in answers : PeerIdx(p) <= run[SyncLoop].head
                        /\ \E p \in answers : Agrees(p, run[SyncLoop].head)
    /\ End(SyncLoop, "idle")
    /\ UNCHANGED <<ledger, outside, isSyncing, joinMode, slots, skipped, faults>>

-----------------------------------------------------------------------------
(* The rest of the relay, and its peers.                                   *)

\* A round of the commit loop that files a block.
LocalCommit ==
    /\ isSynced
    /\ headIdx < MaxIndex
    /\ Unique(headIdx + 1) /\ NewClaims(THIS_RELAY_DOMAIN, headIdx + 1)
    /\ ledger' = [ledger EXCEPT ![headIdx + 1] = THIS_RELAY_DOMAIN]
    /\ headIdx' = headIdx + 1
    /\ UNCHANGED <<flags, peerTop, slots, run, skipped, faults>>

PeerFiles(p) ==
    /\ peerTop[p] < MaxIndex
    /\ peerTop' = [peerTop EXCEPT ![p] = @ + 1]
    /\ UNCHANGED <<ledger, headIdx, flags, slots, run, skipped, faults>>

\* /ledger/join-mode, /join/begin and /join/finish.
SetJoinMode ==
    /\ joinMode' \in BOOLEAN
    /\ UNCHANGED <<ledger, outside, isSynced, isSyncing, slots, run, skipped, faults>>

\* The process is started again: join_mode is set, the other flags stay.
Crash ==
    /\ Fault
    /\ run' = [t \in Runner |-> NoRun("idle")]
    /\ joinMode' = IS_JOIN_MODE
    /\ UNCHANGED <<ledger, outside, isSynced, isSyncing, slots, skipped>>

JoinStep(t) == \/ JoinStart(t) \/ JoinChoose(t) \/ JoinAcquire(t)
               \/ JoinGiveUp(t) \/ JoinRelease(t) \/ JoinLeave(t)

SyncStep(t) == \/ Begin(t) \/ Pick(t) \/ PeerHead(t) \/ Stop(t) \/ Fetch(t)
               \/ File(t) \/ Finish(t) \/ Raise(t)

Check == CheckRead \/ CheckWrite

Next == \/ \E t \in Join : JoinStep(t)
        \/ \E t \in Runner : SyncStep(t)
        \/ Check
        \/ LocalCommit
        \/ \E p \in Peer : PeerFiles(p)
        \/ SetJoinMode
        \/ Crash

Spec == Init /\ [][Next]_vars

\* sync_checker_loop runs for ever on a thread of its own.
FairSpec == Spec /\ WF_vars(SyncStep(SyncLoop) \/ Check)

-----------------------------------------------------------------------------
(* Properties.                                                             *)

PCs == {"idle", "choose", "acquire", "give_up", "enter", "pick", "head", "stop",
        "fetch", "file", "raise", "release", "release_failed", "leave",
        "check", "compare"}

Run == [pc: PCs, peer: Peer \cup {None}, next: 1..MaxIndex + 1,
        top: 0..MaxIndex, head: 0..MaxIndex]

\* The tables, the flags and the runs' locals keep to their ranges.
TypeOK ==
    /\ ledger \in [Index -> Maker \cup {None}]
    /\ headIdx \in 0..MaxIndex
    /\ isSynced \in BOOLEAN /\ isSyncing \in BOOLEAN /\ joinMode \in BOOLEAN
    /\ peerTop \in [Peer -> 0..MaxIndex]
    /\ slots \subseteq Join
    /\ run \in [Runner -> Run]
    /\ skipped \in BOOLEAN
    /\ faults \in 0..MaxFaults

\* Where a block can come from: a round of this relay's commit loop, in its
\* turn, or the ledger a peer has by now, at the same index.
Genuine(i, maker) ==
    \/ maker = THIS_RELAY_DOMAIN /\ i = headIdx + 1 /\ headIdx' = i
    \/ \E p \in Peer : i <= peerTop[p] /\ maker = PeerChain[p][i]

\* However many runs import beside the commit loop, and with whatever they have
\* read before, a block once filed is never replaced by another one of its
\* index, and a new one is a peer's at that index or this relay's next.
BlocksGenuine ==
    [][\A i \in Index : ledger'[i] # ledger[i] =>
           ledger[i] = None /\ Genuine(i, ledger'[i])]_vars

\* Unless a fetch failed, the blocks have no gap: no run, racing others or cut
\* short, files a block above one that is missing, and a run that leaves join
\* mode has all that its peer had when it asked.
NoGap == ~ skipped =>
             /\ \A i \in Filed : 1..i \subseteq Filed
             /\ \A t \in Runner : At(t, "fetch") /\ run[t].next > run[t].top =>
                                   1..run[t].top \subseteq Filed

\* A join holds a peer's slot exactly while it syncs, whatever way the sync
\* ends, unless a request was lost or the relay died.
Inside(t) == run[t].pc \in {"enter", "pick", "head", "stop", "fetch", "file", "raise",
                            "release", "release_failed"}
SlotReturned == faults = 0 => slots = {t \in Join : Inside(t)}

\* A peer has a block that this relay cannot file for a claim in it: the claim
\* was forwarded, and each relay has put it in a block of its own.
Refused == \E p \in Peer : \E i \in 1..peerTop[p] :
               Unique(i) /\ ~ NewClaims(PeerChain[p][i], i)

\* is_syncing, for which client writes are refused, does not stay on, whatever a
\* failed run or a crash has left: the loop clears it, unless a peer has a block
\* it cannot file.
SyncFlagClears == isSyncing ~> ~ isSyncing \/ Refused

\* What the refusal of a claim says, "Relay is syncing and not accepting claim
\* writes yet": the flag goes off again.
SyncingEnds == isSyncing ~> ~ isSyncing

\* What /ledger/admission-status says when is_synced is off, "relay not fully
\* synced": some peer has a block above all of this relay's.
NotSyncedMeansBehind ==
    ~ isSynced => \E p \in Peer : \A i \in Filed : i < peerTop[p]
=============================================================================
