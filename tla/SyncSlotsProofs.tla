-------------------------- MODULE SyncSlotsProofs ---------------------------
(***************************************************************************)
(* Proofs about SyncSlots, for any finite set of clients and any limit.    *)
(***************************************************************************)
EXTENDS SyncSlots, FiniteSetTheorems, TLAPS

\* A client is in one phase of a slot's life at a time, and a handler that is
\* about to write has seen room.
Phases ==
    \A c \in Client :
        /\ acquire[c].pc # "none" => c \notin holder /\ release[c].pc = "none"
        /\ c \in holder => release[c].pc = "none"
        /\ acquire[c].pc = "read" => acquire[c].read < MAX_SYNC_CLIENTS

TypeInv == TypeOK /\ Phases

LEMMA TypeStep ==
    ASSUME TypeInv, [Next]_vars
    PROVE  TypeInv'
<1> USE SlotAssumption DEF TypeInv, TypeOK, Phases, NoRequest, Loss
<1>1. ASSUME NEW c \in Client, Ask(c)
      PROVE  TypeInv'
  BY <1>1 DEF Ask
<1>2. ASSUME NEW c \in Client, AcquireRead(c)
      PROVE  TypeInv'
  BY <1>2 DEF AcquireRead, SomeLeft
<1>3. ASSUME NEW c \in Client, AcquireWrite(c)
      PROVE  TypeInv'
  BY <1>3 DEF AcquireWrite
<1>4. ASSUME NEW c \in Client, Granted(c)
      PROVE  TypeInv'
  BY <1>4 DEF Granted
<1>5. ASSUME NEW c \in Client, Leave(c)
      PROVE  TypeInv'
  BY <1>5 DEF Leave
<1>6. ASSUME NEW c \in Client, StrayRelease(c)
      PROVE  TypeInv'
  BY <1>6 DEF StrayRelease
<1>7. ASSUME NEW c \in Client, ReleaseRead(c)
      PROVE  TypeInv'
  BY <1>7 DEF ReleaseRead
<1>8. ASSUME NEW c \in Client, ReleaseWrite(c)
      PROVE  TypeInv'
  BY <1>8 DEF ReleaseWrite, OneLess
<1>9. ASSUME NEW c \in Client, Drop(c)
      PROVE  TypeInv'
  BY <1>9 DEF Drop
<1>10. CASE UNCHANGED vars
  BY <1>10 DEF vars
<1> QED
  BY <1>1, <1>2, <1>3, <1>4, <1>5, <1>6, <1>7, <1>8, <1>9, <1>10 DEF Next

LEMMA TypeInvariance == Spec => []TypeInv
<1>1. Init => TypeInv
  <2> SUFFICES ASSUME Init PROVE TypeInv
    OBVIOUS
  <2>1. raced \in BOOLEAN /\ stray \in BOOLEAN
    BY Zenon DEF Init
  <2>2. NoRequest \in [pc: {"none", "asked", "read"}, read: 0..MAX_SYNC_CLIENTS]
        /\ NoRequest \in [pc: {"none", "asked", "read", "granted"},
                          read: 0..MAX_SYNC_CLIENTS]
    BY SlotAssumption DEF NoRequest
  <2>3. active \in 0..MAX_SYNC_CLIENTS /\ holder \subseteq Client /\ losses \in 0..MaxLosses
    BY SlotAssumption DEF Init
  <2>4. /\ acquire \in [Client -> [pc: {"none", "asked", "read", "granted"},
                                   read: 0..MAX_SYNC_CLIENTS]]
        /\ release \in [Client -> [pc: {"none", "asked", "read"},
                                   read: 0..MAX_SYNC_CLIENTS]]
    BY <2>2 DEF Init
  <2>5. Phases
    BY DEF Init, Phases, NoRequest
  <2> QED
    BY <2>1, <2>3, <2>4, <2>5 DEF TypeInv, TypeOK
<1>2. TypeInv /\ [Next]_vars => TypeInv'
  BY TypeStep
<1> QED
  BY <1>1, <1>2, PTL DEF Spec

\* The counter stays between 0 and the limit, whatever handlers overwrite.
THEOREM SlotTypesTheorem == Spec => []TypeOK
  BY TypeInvariance, PTL DEF TypeInv

-----------------------------------------------------------------------------
(* What a step does to the counted clients and to the counter.             *)

Same == Counted' = Counted /\ active' = active
Add(c) == /\ c \notin Counted /\ Counted' = Counted \cup {c}
          /\ raced' \/ active' = active + 1
Remove(c) == /\ c \in Counted /\ Counted' = Counted \ {c}
             /\ raced' \/ active' = OneLess(active)
Stray == stray' /\ losses' # 0
Lost == Counted' \subseteq Counted /\ active' = active /\ losses' # 0

LEMMA CountedStep ==
    ASSUME TypeInv, [Next]_vars
    PROVE  \/ Same \/ Stray \/ Lost
           \/ \E c \in Client : Add(c) \/ Remove(c)
<1> USE SlotAssumption DEF TypeInv, TypeOK, Phases, Counted, NoRequest, Loss
<1>1. ASSUME NEW c \in Client, Ask(c)
      PROVE  Same
  BY <1>1 DEF Ask, Same
<1>2. ASSUME NEW c \in Client, AcquireRead(c)
      PROVE  Same
  BY <1>2 DEF AcquireRead, Same
<1>3. ASSUME NEW c \in Client, AcquireWrite(c)
      PROVE  Add(c)
  BY <1>3 DEF AcquireWrite, Add
<1>4. ASSUME NEW c \in Client, Granted(c)
      PROVE  Same
  BY <1>4 DEF Granted, Same
<1>5. ASSUME NEW c \in Client, Leave(c)
      PROVE  Same
  BY <1>5 DEF Leave, Same
<1>6. ASSUME NEW c \in Client, StrayRelease(c)
      PROVE  Stray
  BY <1>6 DEF StrayRelease, Stray
<1>7. ASSUME NEW c \in Client, ReleaseRead(c)
      PROVE  Same
  BY <1>7 DEF ReleaseRead, Same
<1>8. ASSUME NEW c \in Client, ReleaseWrite(c)
      PROVE  Remove(c)
  BY <1>8 DEF ReleaseWrite, Remove
<1>9. ASSUME NEW c \in Client, Drop(c)
      PROVE  Lost
  BY <1>9 DEF Drop, Lost
<1>10. CASE UNCHANGED vars
  BY <1>10 DEF vars, Same
<1> QED
  BY <1>1, <1>2, <1>3, <1>4, <1>5, <1>6, <1>7, <1>8, <1>9, <1>10 DEF Next

\* raced, stray and losses are for ever.
LEMMA HistoryStays ==
    ASSUME TypeInv, [Next]_vars
    PROVE  /\ ~ raced' => ~ raced
           /\ ~ stray' => ~ stray
           /\ losses' = 0 => losses = 0
<1> USE SlotAssumption DEF TypeInv, TypeOK, Loss
<1> QED
  BY DEF Next, vars, Ask, AcquireRead, AcquireWrite, Granted, Leave, StrayRelease,
         ReleaseRead, ReleaseWrite, Drop

LEMMA CountedFinite ==
    ASSUME TypeInv
    PROVE  /\ IsFiniteSet(Counted) /\ Cardinality(Counted) \in Nat
           /\ IsFiniteSet(Counted') /\ Cardinality(Counted') \in Nat
           /\ active \in Nat
<1>1. Counted \subseteq Client /\ Counted' \subseteq Client
  BY DEF Counted
<1> QED
  BY <1>1, SlotAssumption, FS_Subset, FS_CardinalityType DEF TypeInv, TypeOK

LEMMA CountedSize ==
    ASSUME TypeInv, NEW c \in Client
    PROVE  /\ Add(c) => Cardinality(Counted') = Cardinality(Counted) + 1
           /\ Remove(c) => /\ Cardinality(Counted') = Cardinality(Counted) - 1
                           /\ Cardinality(Counted) > 0
<1>1. IsFiniteSet(Counted) /\ Cardinality(Counted) \in Nat
      /\ IsFiniteSet(Counted') /\ Cardinality(Counted') \in Nat
  BY CountedFinite
<1>2. ASSUME Add(c)
      PROVE  Cardinality(Counted') = Cardinality(Counted) + 1
  BY <1>1, <1>2, FS_AddElement DEF Add
<1>3. ASSUME Remove(c)
      PROVE  Cardinality(Counted') = Cardinality(Counted) - 1
  BY <1>1, <1>3, FS_RemoveElement DEF Remove
<1> QED
  BY <1>1, <1>2, <1>3

\* As long as no handler overwrote another's count and nothing was lost, the
\* counter is the number of clients with a slot.
THEOREM CountExactTheorem == Spec => []CountExact
<1>1. Init => CountExact
  <2> SUFFICES ASSUME Init PROVE active = Cardinality(Counted)
    BY DEF CountExact
  <2>1. Counted = {}
    BY DEF Init, Counted, NoRequest
  <2> QED
    BY <2>1, FS_EmptySet DEF Init
<1>2. TypeInv /\ CountExact /\ [Next]_vars => CountExact'
  <2> SUFFICES ASSUME TypeInv, CountExact, [Next]_vars, ~ raced', losses' = 0
               PROVE  active' = Cardinality(Counted')
    BY DEF CountExact
  <2>1. active = Cardinality(Counted)
    BY HistoryStays DEF CountExact
  <2>2. CASE Same
    BY <2>1, <2>2 DEF Same
  <2>3. ASSUME NEW c \in Client, Add(c)
        PROVE  active' = Cardinality(Counted')
    BY <2>1, <2>3, CountedSize DEF Add
  <2>4. ASSUME NEW c \in Client, Remove(c)
        PROVE  active' = Cardinality(Counted')
    BY <2>1, <2>4, CountedSize DEF Remove, OneLess
  <2> QED
    BY <2>2, <2>3, <2>4, CountedStep DEF Stray, Lost
<1> QED
  BY <1>1, <1>2, TypeInvariance, PTL DEF Spec

\* There are never more holders than the counter says, unless handlers overwrote
\* each other or somebody released what it never had.
THEOREM NeverOverAdmitsTheorem == Spec => []NeverOverAdmits
<1>1. Init => NeverOverAdmits
  <2> SUFFICES ASSUME Init PROVE Cardinality(Counted) <= active
    BY DEF NeverOverAdmits
  <2>1. Counted = {}
    BY DEF Init, Counted, NoRequest
  <2> QED
    BY <2>1, FS_EmptySet DEF Init
<1>2. TypeInv /\ NeverOverAdmits /\ [Next]_vars => NeverOverAdmits'
  <2> SUFFICES ASSUME TypeInv, NeverOverAdmits, [Next]_vars, ~ raced', ~ stray'
               PROVE  Cardinality(Counted') <= active'
    BY DEF NeverOverAdmits
  <2>1. Cardinality(Counted) <= active
    BY HistoryStays DEF NeverOverAdmits
  <2>2. CASE Same
    BY <2>1, <2>2 DEF Same
  <2>3. ASSUME NEW c \in Client, Add(c)
        PROVE  Cardinality(Counted') <= active'
    BY <2>1, <2>3, CountedSize, CountedFinite DEF Add
  <2>4. ASSUME NEW c \in Client, Remove(c)
        PROVE  Cardinality(Counted') <= active'
    BY <2>1, <2>4, CountedSize, CountedFinite DEF Remove, OneLess
  <2>5. CASE Lost
    <3>1. Cardinality(Counted') <= Cardinality(Counted)
      BY <2>5, CountedFinite, FS_Subset DEF Lost
    <3> QED
      BY <2>1, <2>5, <3>1, CountedFinite DEF Lost
  <2> QED
    BY <2>2, <2>3, <2>4, <2>5, CountedStep DEF Stray
<1> QED
  BY <1>1, <1>2, TypeInvariance, PTL DEF Spec

\* The limit itself: no more relays than MAX_SYNC_CLIENTS believe at once that
\* they hold a slot, also with messages lost and joiners dead.
LimitKept == ~ raced /\ ~ stray => Cardinality(holder) <= MAX_SYNC_CLIENTS

THEOREM LimitKeptTheorem == Spec => []LimitKept
<1>1. TypeInv /\ NeverOverAdmits => LimitKept
  <2> SUFFICES ASSUME TypeInv, NeverOverAdmits, ~ raced, ~ stray
               PROVE  Cardinality(holder) <= MAX_SYNC_CLIENTS
    BY DEF LimitKept
  <2>1. Cardinality(Counted) <= active /\ active <= MAX_SYNC_CLIENTS
    BY SlotAssumption DEF NeverOverAdmits, TypeInv, TypeOK
  <2>2. holder \subseteq Counted
    BY DEF Counted, TypeInv, TypeOK
  <2>3. Cardinality(holder) <= Cardinality(Counted) /\ Cardinality(holder) \in Nat
    BY <2>2, CountedFinite, FS_Subset, FS_CardinalityType
  <2> QED
    BY <2>1, <2>3, CountedFinite, SlotAssumption DEF TypeInv, TypeOK
<1> QED
  BY <1>1, TypeInvariance, NeverOverAdmitsTheorem, PTL
=============================================================================
