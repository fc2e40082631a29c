# BlankRelay in TLA+

Specifications, model-checking runs and proofs for BlankRelay, the relay
backend of the Blank messaging network: a FastAPI process with two SQLite
databases (`blankcoms.db` for accounts, devices and messages,
`identity_ledger.db` for the identity ledger) and six background threads.
The specifications are translated from the Python code under `src/app`.

## The system

| Part | Code | State | Operations |
|---|---|---|---|
| Claim intake | `ledger/routes_public.py`, `ledger/routes_validator.py`, `main.py` | `pending_claims` | `submit_claim`, `forward_claim`, the ledger part of `register_user` |
| Commit service | `ledger/commit_service.py` | `ledger_blocks`, `ledger_claims`, `ledger_proposals`, `ledger_commit_signatures`, `consensus_state` | `commit_one_round`, every 10 s |
| Ownership index | `ledger/ownership_index.py` | `ownership_index` | `rebuild_ownership_index`, after every block |
| Votes and proposals | `ledger/routes_validator.py` | `ledger_commit_signatures`, `ledger_proposals` | `submit_vote`, `submit_proposal` |
| Block import and sync | `ledger/block_sync.py`, `ledger/sync_service.py` | `ledger_blocks`, `is_synced`, `is_syncing` | `import_raw_block`, `sync_missing_blocks_once`, `run_sync_check_once`, every 15 s |
| Join mode and slots | `ledger/join_runner.py`, `join_state.py`, `sync_slots.py` | `join_mode`, slot counter | join a relay through a peer |
| Registration | `main.py` | `reserved_ids`, `users`, `user_devices` | `register_user`, `reserve_blank_id` |
| Registry clients | `ledger/blankid_registry_client.py` | outside | hub reservation, backup publish and lookup |
| Accounts | `main.py` | `users` | login, delete, profile |
| Devices and prekeys | `main.py` | `user_devices`, `prekey_bundles`, `one_time_prekeys` | link, recover, upload, fetch |
| Messages | `main.py` | `message_envelopes` | send and forward, relay-forward, poll, receipts, flush |
| Signalling and retry | `main.py`, `relay_forward_client.py`, `forward_retry_worker.py` | `call_signals`, `forward_retry_queue` | send, queue, post again every 5 s, flush |
| Presence, updates | `main.py` | `user_devices`, `updates` | send and poll |
| Peers | `peer_selector.py`, `peer_scoring.py`, `discovery_service.py`, `relay_registry.py`, `registry_heartbeat.py` | caches and JSON files | best-effort refresh |
| Scripts | `sync_registry.py`, `backup_registries.py`, ... | files | operator tools |

The parts meet in the databases. Request handlers run on a thread pool, one
database session each; the commit loop, the sync checker, discovery, scoring,
the heartbeat and the retry worker are daemon threads of the same process
(`run.sh` and `install.sh` start one uvicorn worker). SQLite serialises the
transactions; what interleaves are the transactions and network calls of one
handler with those of all others. A registration crosses both databases and
two outside registries. Nothing rolls back across them.

What is hard, and what each part owes:

* **Ledger.** One Blank ID, one owner, for ever; a status that tells the
  truth; a chain without gaps; blocks only with a quorum. Against it: the
  index is a cache rebuilt in a second transaction after the block; a round
  reads once and then makes up to four writes and a network call; peers'
  blocks are filed beside the commit loop without moving its head; votes name
  an index, not a block; the process may die between any two steps.
* **Registration.** One winner per Blank ID, its device with it, and nothing
  held by a request that failed. Against it: the reservation is taken, dropped
  and completed by Blank ID, not by request; it grows old after 300 seconds;
  every refusal cleans up; the ledger decides meanwhile.
* **Sync, join, slots.** Every peer block is imported, the gate opens again,
  slots are given back.
* **Devices.** One identity key per account, however its devices come and go;
  one active primary device, and none that an earlier one linked. Against it:
  every handler reads in queries of its own and commits once at its end, the
  rows of other handlers change meanwhile, and ids of deleted bundles are used
  again.
* **Delivery.** What was reported as sent is stored, and where its recipient
  polls; it reaches one device once. Against it: `/api/envelopes/send` calls
  itself on other relays and waits a few seconds at most, whoever was called
  goes on alone, insert and look-up are separate, and polling marks first and
  answers later.
* **Signals and retry.** What was acknowledged arrives or is given up after its
  attempts; nothing rings twice without a reason. Against it: a timed-out post
  may have been stored, a batch is written down in one commit at its end, and a
  flush deletes rows under a batch and frees their ids.

`PROJECT.json` lists the hazards line by line with the properties aimed at
each, and those no property covers yet.

## Modules

* `OwnershipMap` - the abstract specification: what a relay promises of claims
  and of ownership. `status` is each claim's, `filed` the set of committed
  claims, `owner` the map. A claim that waits is decided once and for a reason
  (an owner, a rival, a block); blocks file claims; free IDs may be given to
  filed claims; an owned ID never changes.
* `OwnershipMapProofs` - what follows from `OwnershipMap` alone, and so for
  both of the systems that implement it, `Ledger` and `Registration`.
* `Ledger` - one relay's identity ledger. Instances: claims and Blank IDs, the
  relays that vote, the blocks peers may serve, the threads that import.
* `MCLedger` - constants for TLC: claims `c1`, `c2` for "x", `c3` for "y"; a
  peer's three blocks, two of which conflict.
* `LedgerProofs` - theorems about `Ledger`.
* `BlockSync` - `sync_missing_blocks_once` run by the sync loop, by joins and by
  admin requests at once, beside the commit loop; `is_synced`, `is_syncing` and
  `join_mode`. `MCBlockSync` - constants for TLC: two peers, a claim committed
  by this relay and by a peer; `BlockSyncProofs` - theorems.
* `SyncSlots` - the slot counter at a relay through which others join.
  `MCSyncSlots`, `SyncSlotsProofs`.
* `Mailbox` - the abstract specification of the envelopes: keep, tell, give.
* `Delivery` - send, relay-forward, poll, receipt and flush on any number of
  relays that call one another. `MCDelivery` - constants for TLC: two relays,
  three devices of two accounts; `DeliveryProofs` - theorems.
* `Signals` - `send_call_signal` and the retry worker. `MCSignals`,
  `SignalsProofs`.
* `Devices` - linking, recovery, prekey upload and deletion for one account.
  `MCDevices`, `DevicesProofs`.
* `Registration` - `POST /api/register` on any number of threads, with the
  commit loop, imported blocks and the claims queued past the handler as
  environment. The module is tied to
  `Ledger` by `OwnershipMap`: what the handlers see of the ledger is proved to
  keep the promise that `Ledger` is proved to keep.
* `MCRegistration` - constants for TLC; `RegistrationProofs` - theorems.

### Ledger and the code

`row` is `pending_claims.status` ("absent" before the insert), `receivedAt` its
`received_at`; `blocks` is `ledger_blocks` joined with `ledger_claims`; `owner`
is `ownership_index`; `headIdx`, `headHash` and `isSynced` are rows of
`consensus_state`. `round` and `importer[t]` hold the local variables of
`commit_one_round` and of `import_raw_block`, `pc` the next transaction. A
claim stands for its `client_claim_hash`, a hash for the relay and round that
made it: the code hashes a fresh timestamp every round.

| Action | Code |
|---|---|
| `SubmitCheck`, `InsertPending` | `submit_claim` before and at its insert |
| `RegisterCheck`, `RegisterPendingCheck`, `InsertPending` | the three ledger accesses of `register_user` |
| `ForwardClaim` | `forward_claim`, which reads neither owner nor gate |
| `SubmitVote` | `submit_vote` of a peer |
| `MarkTaken` | the "taken" branch of `commit_one_round` |
| `RoundRead` | its reads, up to the first write or call |
| `RoundPublish` | `publish_blankid`, in the collision branch only |
| `RoundPropose`, `RoundVote` | the proposal's and the local vote's commits |
| `RoundNoQuorum`, `RoundConflict`, `RoundFile` | the three ways the decision goes |
| `RoundRebuild`, `ImportRebuild` | `rebuild_ownership_index` |
| `ImportRead`, `ImportFile` | `import_raw_block` |
| `SyncCheck`, `SyncError` | what `run_sync_check_once` leaves in `is_synced` |
| `RoundAbort`, `Crash` | an exception in a round; the process restarting |

Two details decide much. `Rebuild` is all or nothing: with autoflush off the
loop's "existing is None" query does not see the row just added, so two
committed claims for one Blank ID make the second INSERT fail on the primary
key and the old index stays. And `Conflicts` is the UNIQUE constraints: a block
whose index, hash or claim is there already raises, which `commit_loop`
swallows.

### Sync, join, slots and the code

In `BlockSync` a block is its index and its maker: `ledger` is `ledger_blocks`,
`PeerChain` what each peer would serve, `SameClaim` the pairs of blocks that
hold one claim (`client_claim_hash` is UNIQUE in `ledger_claims`, so only one of
the pair can be filed). `run[t]` holds the locals of thread `t`: `next` the loop
variable, `top` the peer's head, `pc` the next call or transaction. `skipped`
remembers that a block was passed over, `faults` counts failed calls and
crashes.

| Action | Code |
|---|---|
| `JoinStart` ... `JoinLeave` | `run_join_once` around the sync, its early returns, `except` and `finally` |
| `Begin`, `Pick`, `PeerHead`, `Stop` | `sync_missing_blocks_once` up to its loop |
| `Fetch`, `File`, `Finish` | the loop: fetch, "existing" check, insert and rebuild; the end |
| `Raise` | the handler of whoever called |
| `CheckRead`, `CheckWrite` | `run_sync_check_once` after the sync |
| `LocalCommit` | a round of the commit loop that files a block |
| `SetJoinMode`, `PeerFiles`, `Crash` | the join-mode routes; a peer's block; a restart |

Every run is the same code, so one set of actions has the thread as parameter;
`After` says where the caller goes on. Which peer is best is left open, since
admission statuses change between the calls: `Pick` takes any. The request for a
slot carries no `X-Admin-Token`, which the route asks for, so a peer that runs
this code refuses; `JoinAcquire` keeps the grant for peers that do not ask.
`POST /ledger/blocks/import` files any block an admin sends and is left to
`Ledger`'s importers; `NoGap` does not speak of it.

In `SyncSlots`, `acquire[c]` and `release[c]` are the handlers of client `c`'s
requests, which read the counter and write it in separate statements. `holder`
is what the clients believe. `raced` and `stray` remember the two things
nothing in the code prevents: a handler writing over another's write, and a
release by somebody without a slot. The properties say what is left then.

### Registration and the code

`pc[a]` is where request `a` stands. `reserved` and `aged` are the status and
the age of the Blank ID's row in `reserved_ids` (a table no code creates; its
columns are those the statements name, `blank_id` its key as in the shipped
database). `claim[c]` is a claim's row in `pending_claims`: a request's own, or
one of `Other`, the claims that no registration queues. `Refuse` is any refusal
before the reservation, and like every exception leads to `Cleanup`. A failed
flush (the second disjuncts of `CreateUser` and `CreateDevice`) skips the
cleanup's effect, since the session is unusable. The hub's reservation is left
out: its answer is printed and ignored. The backup registry is everybody's, so
`Lookup` may find any ID.

| Action | Code |
|---|---|
| `Start` ... `Publish`, `Cleanup` | `register_user` and `reserve_blank_id`, one step per query, commit or call that others can see |
| `QueueOther` | `submit_claim`, `forward_claim` |
| `RoundRefuse`, `RoundRead`, `RoundFile`, `RoundDrop` | `commit_one_round` over one Blank ID: the "taken" branch, the reads, the block, and a round that ends without one |
| `ImportClaim` | `import_raw_block` |
| `Rebuild` | `rebuild_ownership_index`, by the commit loop or an importing thread |
| `Expire`, `Crash` | 300 seconds go by; the process restarts |

`ReadPending` takes anybody's row for the Blank ID as good: the request then
queues no claim and registers its user on the strength of a claim from
elsewhere. `Crash` may come between a block and the rebuild and loses the
latter, after which two claims of one ID may be committed and every rebuild
fails (`OneEach`), as in `Ledger`. Votes and the gate are left to `Ledger`: a
round that finds no quorum is a `RoundDrop`.

### Delivery and the code

`call` holds the handlers of `send_envelope`, one record each: the relay it runs
at, the envelope, the relays left in its present loop (`todo`), and who waits for
its answer (`caller`: another call, a client, or nobody any more). `pc` is the
next step: "route" and "push" are the two loops, "forward" and "pushed" a wait
for `requests.post` in them. `row` is `message_envelopes` of every relay; "taken"
is a row that polling has marked, "processed" one that a receipt has marked, with
`processed_at`. `kept`, `told` and `given` are the state of `Mailbox`, so that the
refinement is by name; `calm`, `clashed`, `raced` and `flushed` remember what
must not have happened for a promise to hold.

| Action | Code |
|---|---|
| `Submit` | a client's `POST /api/envelopes/send`, again or to another relay too |
| `Arrive` | `local_recipient`, `get_known_relays` (and a registry that cannot be read) |
| `Post`, `Collect`, `GiveUp` | `requests.post` in both loops, its answer, its timeout or failure |
| `Check`, `Insert` | `existing`, and the insert in a later statement |
| `Answer` | the answer to a client |
| `RelayForward`, `Receipt`, `Flush` | the routes of those names |
| `PollRead`, `PollMark` | `poll_envelopes`: the query; marks, commit, refresh and answer |
| `Crash` | a relay restarts |

`PollMark` finds its rows by the ids it has read. A flush in between (`lost`)
leaves ids without a row, which fails the UPDATE, or ids that new envelopes have
got since, which are then marked and handed out, whoever they are for (`Found`).

A handler whose caller has given up goes on: that is `Orphan`, and where stray
copies come from. `Local` is the device's row at the relay that has the account;
a device is taken to be registered there only. `relay_registry.json` is taken to
list every other relay, and `RELAY_DOMAIN in relay`, a substring test, to be true
of the relay itself only. `RelayForward` is an outside request: no code
under `src` sends it (`forward_envelope_to_relay` has no caller).

### Signals and the code

`send[s]` is the request of signal `s`, which is served here or forwarded as
`lookup_blankid` has it at that moment; `copies[s]` the rows the recipient's relay
holds of it (`CallSignal` has no UNIQUE column). `status`, `attempts`, `id` and
`due` are its row in `forward_retry_queue`, `worker` the locals of
`process_retry_once`: the rows read (with the ids they had), and those posted
with success or without. `Commit` writes by id, which after a flush may be
another signal's row; `mixed` remembers that. `Elapse` is `next_attempt_at`
going by. `unsure[s]` counts the posts that arrived and were never written down.
`call_signals` is read by devices in the two steps an envelope poll has; that is
left to `Delivery`.

### Devices and the code

One account at one relay. `rows`, `active`, `primary`, `linked_by` and `link_code`
are columns of `user_devices`, `bundle` is `prekey_bundles` with the id as
position (a deleted table starts at 1 again), `claim` the claimed identity key.
`req[q]` holds what a handler has read; `...Read` is its queries, `...Write` its
writes and commit. `Fail` is any error in between, or a restart. What the code
does not look at is not in the guards: `link_code_expires_at`, the user's row
when a link completes, `is_active` when prekeys are uploaded. One-time prekeys are
left out: they are replaced with their bundle and never marked as used.

## Runs

| Run | Shows |
|---|---|
| `ledger_standalone` | A relay without peers, quorum 1, three claims for two IDs: types, one chain, truthful statuses, no double commit while nothing failed, and under fairness every claim settled and every committed claim indexed (or a fault happened). |
| `ledger_peers` | Quorum 2, one voting peer, two importing threads, conflicting peer blocks: the refinement of `OwnershipMap`, the reasons for "taken", quorum, proposals, and that a peer's block above the head stops the relay's filing for ever. |
| `ledger_crash` | Counterexample to `CommittedOnce`. |
| `sync` | The sync loop and a join, two peers, two indices, two faults: no gap and nothing missing at a run's end, every new block a peer's of that index or the relay's own next and none replaced, the slot given back, `is_syncing` off again unless a peer has a block that cannot be filed. |
| `sync_behind` | Counterexample to `NotSyncedMeansBehind`; nothing fails in it. |
| `sync_stuck` | Counterexample to `SyncingEnds`, under fairness; nothing fails in it but the import. |
| `slots` | Three clients, two slots, two losses: the limit, the exact count, no over-admission. |
| `registration` | Three requests, one of them without `displayName`, and one claim from elsewhere for one ID, one reservation grown old, one crash: one winner, two databases that agree, the lock, no other request's claim as owner, and the refinement of `OwnershipMap`. |
| `registration_burned` | Counterexample to `NotBurned`. |
| `delivery` | Two relays that know each other, B pushing to A besides, two envelopes, three handlers, two polls, one send from outside, one flush or restart: the refinement of `Mailbox`, acknowledged envelopes at home, no stray copies, one delivery, receipts too late, and every send answered. |
| `signals` | Three signals, batches of two, two attempts, one restart or flush: nothing forgotten, every copy explained, a settled row left alone, every row settled, also the one that a full batch leaves behind. |
| `devices` | Three devices with two keys, two requests at a time, two codes: one identity in the bundles, one family of active devices. |

The counterexamples are findings:

* **A crash between block and index commits an ID twice.** The block is one
  transaction, the rebuild the next. After a crash in between (or a locked
  database) the index does not know the new owner, nothing rebuilds it at
  startup, and the next claim for the ID is committed. From then on every
  rebuild fails.
* **A failed registration burns its ID.** The cleanup deletes the reservation;
  the claim queued before stays and is committed.
* **A relay with blocks of its own is "not synced".** `is_synced` asks for a peer
  whose `current_block_hash` equals this relay's; both count own blocks only, and
  only "GENESIS" can match. One block of its own and one peer that answers
  close the gate for clients and for the commit loop, though nothing is missing.
* **A forwarded claim stops the sync for good.** Two relays commit one claim in
  blocks of their own; importing the other's violates `uq_ledger_claim_hash`,
  the run raises, `is_syncing` stays "true", and so with every later run.

What the other runs hold is in places less than one might expect, and worth
knowing:

* `ReceiptsTooLate`: a device has an envelope only after a poll has marked its
  row, so `process_receipt` finds nothing left to count.
* `AckedAtHome` and `NoStray` need `calm`: one forward that times out after it was
  stored, and the caller keeps a second copy where nobody polls for it. What is
  left then, until a flush, is that some relay has the envelope.
* `KeyPinned`: the claimed key survives recovery, so a device recovered with
  another key is told to upload prekeys and refused each time (409).
* The commit loop's `publish_blankid` stands in the collision branch: IDs that
  everyone lost are announced, and a later registration's look-up refuses them.
* `NoRivalOwner`: the reservation keeps other requests' claims off, and nothing
  else. `submit_claim`, `forward_claim` and imported blocks ask for no reservation,
  and `register_user` is content with any pending row for the Blank ID; so a user
  may be told "User registered successfully" and the ledger give the ID to a claim
  from elsewhere, although no request failed and no lock grew old.

### Bounds

`MaxRounds` caps the rounds of the commit loop: two claims for one ID need two
rounds, one more for another ID, and one spare for a round cut short; with
peers, two rounds are a lost one and the next. `MaxFaults` = 1 allows one crash
or failed call at any point, enough for every single failure between two
steps. `Stamp` = {1, 2} gives both orders of arrival and ties. `VoteIndex` are
the indices peers vote on. `MaxExpiries` = 1 and `MaxCrashes` = 1 in
`Registration` let one reservation grow old and one crash come at any point; `a1` and `a2`
differ in nothing, which `Symmetry` uses (every property of the run is a safety
property, so that is sound); `a3`, without `displayName`, is not exchanged with
anyone. All compete for one Blank ID, since handlers of different IDs share no row;
rounds and rebuilds over several IDs are in the theorems.
`MaxIndex` = 2 in `BlockSync` is a block and one
above it, which a gap, a cut-short range and a lost race for an index need;
`MaxFaults` = 2 lets a fetch fail and a crash follow. Two peers are the least
that disagree; a second join or an admin's run adds no new pair of actions to the
loop and one join, and the theorems hold for any number. Three clients and two
slots in `SyncSlots` are one more than fit.
In `Delivery` two relays are the least that can hand an envelope round; three
handlers let a call go there, come back and be pushed once more, and `MaxSends` = 1
bounds what comes from outside, since two sends of one envelope already run into
each other as a send and its own echo; `MaxFaults` = 1 is one flush or restart at any
point; after a flush only an echo is left to bring a new row, and what else may get
a poll's ids is in the theorems. `max_attempts` is 2 and `BatchLimit` 2 in `Signals`
instead of 10 and 25: a row fails, fails again and is given up, a batch has an
outcome of each kind, and with three signals it may be full and leave a row
behind. The mutant of `RetrySettles`, which applies the limit before the filter, is
caught for that reason. `MaxFaults` = 1 there is one restart or one flush at any
point, and a flush lets a waiting row have an id of the batch. In `Devices` two
requests overlap in every pair, and two codes are one outstanding and one that
replaces it.
The theorems have none of these limits in them: they hold for any finite or
infinite sets the assumptions admit, and for any bounds.

Deadlock is checked for `Ledger` (its gate may always flip), and not for
`Registration`, `Delivery`, `Signals` and `Devices`, where the bounded requests come
to their end.

### Fairness

`FairSpec` has `WF_vars(CommitLoop)` and `WF_vars(SyncCheck)`: both loops are
`while True` on threads of their own, with every exception caught and a sleep
between rounds. Nothing is assumed of clients, peers, or of the import.
Without peers `SyncCheck` reopens the gate that `SyncError` closed, so the loop
is enabled again. `BlockSync`'s `FairSpec` has `WF_vars(SyncStep(SyncLoop) \/ Check)`,
the sync loop, for the same reason; joins, requests, peers and the commit loop
are not fair. `RoundAbort` and `Crash` are not fair.

`Delivery`'s `FairSpec` has `WF_vars(Step(c))` for each handler: its thread runs on,
and every wait ends by an answer or by `timeout=3` and `timeout=5`. Clients, polls
and receipts are not fair. `Signals` has `WF_vars(Worker)`, a `while True` loop that
swallows exceptions and whose posts end after 8 seconds, and `WF_vars(Elapse(s))`,
that time passes; nothing is assumed of the other relay's answers.

## What is proved

By TLAPS, for every value of the constants that meets the named assumptions
(`ClaimAssumption`, `RelayAssumption`, `ForeignAssumption`, `BoundAssumption`;
`AttemptAssumption` for `Registration`; `PeerAssumption`, `RunnerAssumption`,
`ConfigAssumption` for `BlockSync`; `SlotAssumption` for `SyncSlots`;
`AddressAssumption`, `RelayAssumption`, `CallAssumption` and `BoundAssumption` for
`Delivery`; `SignalAssumption` for `Signals`, `DeviceAssumption` for `Devices`).

`OwnershipMapProofs`: `MapInvariance` (a taken claim has lost to an owner, a
committed one is filed, an owner is filed for its own ID), `OwnerForEver` and
`DecidedForEver` (no owner and no decided status ever changes), from `OwnershipMap`
and `BlankOf \in [Claim -> BlankID]` alone. `LedgerProofs` and `RegistrationProofs`
instantiate that module with their refinement mappings, and their `DecisionsLast`
follows from the refinement and the theorems about the abstract specification.
Neither looks at an action of the detailed one.

`LedgerProofs`: `TypeCorrect`; `ChainTheorem`, `StatusTheorem`,
`ProposalTheorem`, `IndexTheorem`, `TakenTheorem`, `UniqueTheorem`,
`QuorumTheorem`, `WedgeTheorem`, and `Refinement`, that `Ledger` implements
`OwnershipMap`. All but types and quorum rest on one inductive invariant, `IInv`:

* `RoundInv`: what a round holds (index, previous hash, claims) still agrees
  with the tables it read, since the head and the rows are written by the loop
  only; its claims are still pending up to its decision, and a collision has
  two at least, which is what the refinement's `Collide` asks for;
* `ClockInv`: no hash in any table is of a round yet to come, so a block's hash
  is fresh;
* `UniqueInv`: while nothing failed and no peer's block came in, the index is
  complete except between a block and its rebuild, and a round under way is
  about an ID nobody owns. This is what `NoDoubleCommit` lacks: without it a
  state with a stale index would satisfy the property and lose it in one step;
* the checked properties themselves, which lean on one another: that a row is
  rightly "taken" needs the statuses to match the blocks.

`StepKinds` gathers the actions by what they write, so that a lemma looks only
at the steps that touch its state. `RebuildKeepsOwners` is the heart of the
refinement: a rebuild that succeeds has one committed claim per ID, and the
owner so far is such a claim. `QuietRows` says that clients and peers only queue
claims, so that `OwnershipStep` has one case for each step of the loop and of an
import that does more.

`LocalChain` has three parts: the head, the links, and that the relay's own
blocks are those at 1 up to its head. The last one is what `BlockSync` assumes
of others: by `PeerAssumption` the blocks a peer made itself lie at 1 and above
without a gap. `ChainTheorem` shows that of `Ledger`, and `OwnTheorem` of
`BlockSync`, for the relay that is modelled, which runs the same code.

`RegistrationProofs`: types; `UserInv` (the UNIQUE user name and the order of
the steps) gives `OneWinner` and `RecordsAgree` without any
help from the reservation; `LockInv` (whoever has had the lock left a claim or a
user, and the row is still there) gives `LockExclusive`, and with `RoundInv` (the claims
a round has read wait until it decides) `NoRivalOwner`.
`OwnershipTheorem` is the refinement of `OwnershipMap`. A handler touches the
ledger in one place, where `LockInv` has it that its claim is still absent; a claim
from outside is `Queue` or `Import`, a round
`Refuse`, `Commit` or `Collide` (`RoundInv` again); and a rebuild, also one after a lost one, either
finds one claim per ID, which the owner so far must be, or leaves all as it is.

`BlockSyncProofs`: `TypeInv` (types, and that a run about to fetch has a peer and
one about to insert is within the peer's range); `GenuineTheorem`, for which a
run's `top` must still be within what its peer has (`HeadsKnown`: peers' ledgers
only grow) and both writers need the index vacant; `OwnTheorem`, since only the commit
loop files blocks of the relay's own; `NoGapTheorem` from `GapInv`: a run that is at a
block, and the commit loop's head, have all blocks below (that alone makes
`NoGap` inductive: a head read long ago is still a lower bound, because blocks
never go), and whoever is past its range has all of it; `SlotReturnedTheorem`, by following each join's `pc`.

`SyncSlotsProofs`: `Phases` (a client is in one phase at a time, and a handler
about to write saw room) gives the types; `CountedStep` sorts the steps into
those that add, remove, lose or leave the counted clients, and the two counting
theorems follow from the cardinality of adding and removing one. From the second
and the counter's range comes `LimitKeptTheorem`: without the two hazards no more
than `MAX_SYNC_CLIENTS` relays ever believe that they hold a slot.

`DeliveryProofs`: everything rests on `Calls`, what is known of one handler at each
step, and `Links`, that a handler waits for one call at a time, about the same
envelope. `HomeBy` is the strengthening `AckedAtHome` needs: while forwards are
answered, a handler away from the recipient's relay has tried nobody yet, or
has heard of a clash, and an insert clashes only where the envelope is stored; so
an "ok" that travels back through any chain of relays vouches for the row at home.
Without that proviso, `KeptThere` still has every told envelope in some mailbox
(`RowSteps`: a row goes only with a flush). `NoCircle` is about the waiting itself:
relays may hand an envelope round in a circle, but a handler is posted once, by a
handler that was there before, so among any set of requests there is one that
none of the others was posted by (`CallerSteps`: a step adds one link at most, to a
request without any).
`CleanBy` is the same without clashes, for `NoStray`. `GivenInv` (what was given is
marked) yields `AtMostOnce` and `ReceiptsTooLate`, with `PollsFit`: until a flush, a
poll's ids are those of the rows it read, at the relay where its account is. `StaysGood` says that a step which
only adds rows and frees or starts other handlers keeps all of it, so that each
action's lemma is about the one handler that moves. `ActsAsMailbox` is the
refinement: an insert is `Keep`, an answer to a client `Tell`, a poll `Give`, and
everything else stutters.

`SignalsProofs`: `Queue` and `Taken` relate the worker's batch to the rows by id,
`Counts` adds up copies against successes not yet committed; from them
`NothingForgotten` and `CopiesExplained`, through flushes that give ids away.
`SettledTheorem` needs that the ids a batch writes to are those of rows which
wait, or of rows gone (`IdsWait`): an id is given away only to a new row, and that
waits.

`DevicesProofs`: types first, then `Keyed` (who is past the key's check holds the
claimed key, or has read none while none has been claimed twice) for
`KeysArePinned`, and `FamilyOfOne` by following what each pending handler has read.

Proved and checked by no run of their own: `IndexSound` (part of `OwnershipSpec`,
which is checked), `OwnFromOne`, `LimitKept`, `NoWaitCycle` and the two
`DecisionsLast`. The assumptions are about the constants only and are evaluated
by TLC in the runs.

Only model-checked: `ClaimResolved`, `ClaimIndexed`, `SyncFlagClears`, `SendAnswered`
and `RetrySettles`, which are liveness properties under fairness and out of the
prover's reach.

## Not modelled

Keys, signatures, password hashing, schemas and error texts; the JSON files of
the relay registry; photos; the operator scripts. Peers' blocks are assumed
well formed, with a name other than this relay's: the import checks neither.
The first start, when the threads race with the inserts of the defaults, is
before `Init`. Which peer scores best, and the caches behind it, are left open.

Login, profile and presence are reads or writes of one row. Posting an update
never succeeds: `post_update` calls `verify_signature`, which `main.py` does not
define (line 560). `fetch_prekeys` writes nothing. `get_known_relays` reads a
hard-coded path; that it fails is in the model (`Arrive`). Errors of SQLite other than
the UNIQUE ids are in `Ledger`, `Registration` and `Devices` (`Fail`), and not in
`Delivery`, where a handler that fails looks to its caller like one that is lost.

## Plan

1. Account deletion in `Registration`, where the reservation and the ledger's
   owner outlive the user.
2. One-time prekeys in `Devices`, with their UNIQUE key ids.
3. The first start of the process, with the threads that do not wait for it.
