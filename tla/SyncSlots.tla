----------------------------- MODULE SyncSlots ------------------------------
(***************************************************************************)
(* The sync slots a relay grants to others that join through it:           *)
(* /ledger/sync-slot/acquire and /release over the counter                 *)
(* active_sync_clients in consensus_state.  A handler reads the counter    *)
(* and writes it in separate statements, on as many threads as there are   *)
(* requests; the counter knows no owners and nothing expires.              *)
(***************************************************************************)
EXTENDS Naturals, FiniteSets

CONSTANTS
    Client,            \* the relays that join
    MAX_SYNC_CLIENTS,
    MaxLosses          \* bound on lost messages, crashes and stray releases

ASSUME SlotAssumption == /\ IsFiniteSet(Client)
                         /\ MAX_SYNC_CLIENTS \in Nat
                         /\ MaxLosses \in Nat

VARIABLES
    active,   \* active_sync_clients
    acquire,  \* the handler of each client's acquire request
    release,  \* the handler of each client's release request
    holder,   \* the clients that believe they hold a slot
    raced,    \* has a handler written over another's write?
    stray,    \* has a client released what it never had?
    losses

vars == <<active, acquire, release, holder, raced, stray, losses>>

\* read is what the handler has read of the counter.
NoRequest == [pc |-> "none", read |-> 0]

Init == /\ active = 0
        /\ acquire = [c \in Client |-> NoRequest]
        /\ release = [c \in Client |-> NoRequest]
        /\ holder = {}
        /\ raced = FALSE
        /\ stray = FALSE
        /\ losses = 0

Loss == losses < MaxLosses /\ losses' = losses + 1

-----------------------------------------------------------------------------
(* try_acquire_sync_slot.                                                  *)

Ask(c) ==
    /\ c \notin holder
    /\ acquire[c].pc = "none" /\ release[c].pc = "none"
    /\ acquire' = [acquire EXCEPT ![c].pc = "asked"]
    /\ UNCHANGED <<active, release, holder, raced, stray, losses>>

\* Mutant: one slot too many.
SomeLeftOff(n) == n <= MAX_SYNC_CLIENTS
SomeLeft(n) == n < MAX_SYNC_CLIENTS

AcquireRead(c) ==
    /\ acquire[c].pc = "asked"
    /\ acquire' = [acquire EXCEPT ![c] =
                     IF SomeLeft(active) THEN [pc |-> "read", read |-> active]
                                         ELSE NoRequest]
    /\ UNCHANGED <<active, release, holder, raced, stray, losses>>

AcquireWrite(c) ==
    /\ acquire[c].pc = "read"
    /\ active' = acquire[c].read + 1
    /\ raced' = (raced \/ active # acquire[c].read)
    /\ acquire' = [acquire EXCEPT ![c].pc = "granted"]
    /\ UNCHANGED <<release, holder, stray, losses>>

Granted(c) ==
    /\ acquire[c].pc = "granted"
    /\ holder' = holder \cup {c}
    /\ acquire' = [acquire EXCEPT ![c] = NoRequest]
    /\ UNCHANGED <<active, release, raced, stray, losses>>

-----------------------------------------------------------------------------
(* release_sync_slot.                                                      *)

\* A client gives its slot back, as it believes at once.
Leave(c) ==
    /\ c \in holder
    /\ holder' = holder \ {c}
    /\ release' = [release EXCEPT ![c].pc = "asked"]
    /\ UNCHANGED <<active, acquire, raced, stray, losses>>

\* A release of a slot the caller never had is served as well.
StrayRelease(c) ==
    /\ Loss
    /\ stray' = TRUE
    /\ c \notin holder
    /\ acquire[c].pc = "none" /\ release[c].pc = "none"
    /\ release' = [release EXCEPT ![c].pc = "asked"]
    /\ UNCHANGED <<active, acquire, holder, raced>>

ReleaseRead(c) ==
    /\ release[c].pc = "asked"
    /\ release' = [release EXCEPT ![c] = [pc |-> "read", read |-> active]]
    /\ UNCHANGED <<active, acquire, holder, raced, stray, losses>>

\* Mutants: the slot not given back; all slots given back.
NotLess(n) == n
NoneLeft(n) == 0
OneLess(n) == IF n > 0 THEN n - 1 ELSE 0

ReleaseWrite(c) ==
    /\ release[c].pc = "read"
    /\ active' = OneLess(release[c].read)
    /\ raced' = (raced \/ active # release[c].read)
    /\ release' = [release EXCEPT ![c] = NoRequest]
    /\ UNCHANGED <<acquire, holder, stray, losses>>

-----------------------------------------------------------------------------
\* A request or its answer is lost, or its handler's thread dies: an answer
\* lost after the write leaves a slot counted for nobody.
Drop(c) ==
    /\ Loss
    /\ \/ /\ acquire[c].pc # "none"
          /\ acquire' = [acquire EXCEPT ![c] = NoRequest]
          /\ UNCHANGED <<release, holder>>
       \/ /\ release[c].pc # "none"
          /\ release' = [release EXCEPT ![c] = NoRequest]
          /\ UNCHANGED <<acquire, holder>>
       \/ /\ c \in holder
          /\ holder' = holder \ {c}
          /\ UNCHANGED <<acquire, release>>
    /\ UNCHANGED <<active, raced, stray>>

Next == \E c \in Client :
            \/ Ask(c) \/ AcquireRead(c) \/ AcquireWrite(c) \/ Granted(c)
            \/ Leave(c) \/ StrayRelease(c) \/ ReleaseRead(c) \/ ReleaseWrite(c)
            \/ Drop(c)

Spec == Init /\ [][Next]_vars

-----------------------------------------------------------------------------
(* Properties.                                                             *)

\* The counter stays between 0 and the limit, also when handlers overwrite
\* each other and clients release what they never had.
TypeOK ==
    /\ active \in 0..MAX_SYNC_CLIENTS
    /\ acquire \in [Client -> [pc: {"none", "asked", "read", "granted"},
                               read: 0..MAX_SYNC_CLIENTS]]
    /\ release \in [Client -> [pc: {"none", "asked", "read"},
                               read: 0..MAX_SYNC_CLIENTS]]
    /\ holder \subseteq Client
    /\ raced \in BOOLEAN
    /\ stray \in BOOLEAN
    /\ losses \in 0..MaxLosses

\* The clients for which the counter should count one.
Counted == {c \in Client : \/ c \in holder
                           \/ acquire[c].pc = "granted"
                           \/ release[c].pc # "none"}

\* As long as no handler overwrote another's count and nothing was lost, the
\* counter is the number of clients with a slot.
CountExact == ~ raced /\ losses = 0 => active = Cardinality(Counted)

\* Lost messages and joiners that died only make the relay refuse more: it
\* never has more holders than it counts, unless handlers overwrote each other
\* or somebody released what it never had.
NeverOverAdmits == ~ raced /\ ~ stray => Cardinality(Counted) <= active
=============================================================================
