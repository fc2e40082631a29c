---------------------------- MODULE DevicesProofs ---------------------------
(***************************************************************************)
(* Proofs about Devices: type correctness, the pinned identity key and the *)
(* family of one primary device, for any number of devices and requests.   *)
(***************************************************************************)
EXTENDS Devices, SequenceTheorems, TLAPS

PCs == {"free", "code", "link", "recover", "bundle", "write"}

\* What a request may have read.
Read == [pc : PCs, dev : Device \cup {None}, from : Device \cup {None},
         rows : SUBSET Device, key : Keys \cup {None}, id : Nat]

Fit(r) == /\ r \in Read
          /\ r.pc # "free" => r.dev \in Device
          /\ r.pc = "link" => r.from \in Device
          /\ r.pc \in {"bundle", "write"} /\ r.key # None => r.key = Key[r.dev]

Requests == /\ req = [q \in Request |-> req[q]]
            /\ \A q \in Request : Fit(req[q])

Rows == /\ rows \subseteq Device /\ active \subseteq rows /\ primary \subseteq rows
        /\ linked_by \in [Device -> Device \cup {None}]
        /\ crossed \in BOOLEAN

Codes == issued \in 0..MaxCodes /\ link_code \in [Device -> 0..issued]

BundleRow == [dev : Device, by : Device]
Accounts == /\ user \in {"active", "deleted", "gone"}
            /\ claim \in Keys \cup {None}
            /\ bundle \in Seq(BundleRow)
            /\ raced \in BOOLEAN

Types == Requests /\ Rows /\ Codes /\ Accounts

\* A request never holds a key other than the one that is claimed.
Keyed == ~ raced => \A q \in Request :
            req[q].pc \in {"bundle", "write"} /\ req[q].key # None => req[q].key = claim

USE DeviceAssumption, BoundAssumption DEF DeviceAssumption, BoundAssumption

-----------------------------------------------------------------------------
(* Requests.                                                               *)

LEMMA FreeFits == Fit(Free)
  BY DEF Fit, Free, Read, PCs

\* A request that becomes a fitting one leaves all requests fitting.
LEMMA BecomeFits ==
  ASSUME Requests, NEW q \in Request, NEW r, Fit(r), Become(q, r)
  PROVE  Requests'
  <1>1. req' = [x \in Request |-> IF x = q THEN r ELSE req[x]]
    BY DEF Requests, Become
  <1>2. ASSUME NEW x \in Request PROVE Fit(req'[x])
    <2>1. CASE x = q
      BY <1>1, <2>1
    <2>2. CASE x # q
      <3>1. req'[x] = req[x]
        BY <1>1, <2>2
      <3> QED BY <3>1 DEF Requests
    <2> QED BY <2>1, <2>2
  <1>3. req' = [x \in Request |-> req'[x]]
    BY <1>1
  <1> QED BY <1>2, <1>3 DEF Requests, Fit, Read

LEMMA FinishFits == ASSUME Requests, NEW q \in Request, Finish(q) PROVE Requests'
  BY FreeFits, BecomeFits DEF Finish

\* The other requests stay as they are.
LEMMA Others ==
  ASSUME Requests, NEW q \in Request, NEW r, Become(q, r)
  PROVE  /\ req'[q] = r
         /\ \A x \in Request : x # q => req'[x] = req[x]
  BY DEF Requests, Become

-----------------------------------------------------------------------------
(* Type correctness.                                                       *)

LEMMA TypesInit == Init => Types
  <1> SUFFICES ASSUME Init PROVE Types
    OBVIOUS
  <1>1. Requests
    BY FreeFits DEF Init, Requests
  <1>2. Rows
    BY DEF Init, Rows
  <1>5. Codes
    <2>1. issued = 0 /\ link_code = [d \in Device |-> 0]
      BY DEF Init
    <2> QED BY <2>1 DEF Codes
  <1>3. bundle \in Seq(BundleRow)
    BY DEF Init
  <1>4. Accounts
    BY <1>3 DEF Init, Accounts
  <1> QED BY <1>1, <1>2, <1>4, <1>5 DEF Types

LEMMA RequestsStep == ASSUME Types, [Next]_vars PROVE Requests'
  <1> USE DEF Types
  <1>1. ASSUME NEW q \in Request, NEW d \in Device, CodeRead(q, d) PROVE Requests'
    <2>1. Fit([Free EXCEPT !.pc = "code", !.dev = d])
      BY DEF Fit, Free, Read, PCs
    <2> QED BY <1>1, <2>1, BecomeFits DEF CodeRead
  <1>2. ASSUME NEW q \in Request, NEW d \in Device, RecoverRead(q, d) PROVE Requests'
    <2>1. Fit([Free EXCEPT !.pc = "recover", !.dev = d, !.rows = rows])
      BY DEF Fit, Free, Read, PCs, Rows
    <2> QED BY <1>2, <2>1, BecomeFits DEF RecoverRead
  <1>3. ASSUME NEW q \in Request, NEW d \in Device, UploadRead(q, d) PROVE Requests'
    <2>1. Fit([Free EXCEPT !.pc = "bundle", !.dev = d, !.key = claim])
      BY <1>3 DEF Fit, Free, Read, PCs, Accounts, UploadRead, KeyFits
    <2> QED BY <1>3, <2>1, BecomeFits DEF UploadRead
  <1>4. ASSUME NEW q \in Request, NEW d \in Device, NEW p \in Device, NEW c \in 1..issued,
               LinkRead(q, p, c, d)
        PROVE  Requests'
    <2>1. Fit([Free EXCEPT !.pc = "link", !.dev = d, !.from = p])
      BY DEF Fit, Free, Read, PCs
    <2> QED BY <1>4, <2>1, BecomeFits DEF LinkRead
  <1>5. ASSUME NEW q \in Request, BundleRead(q) PROVE Requests'
    <2>1. Fit(req[q]) /\ req[q].pc = "bundle"
      BY <1>5 DEF Requests, BundleRead, At
    <2>2. ASSUME NEW i \in Nat PROVE Fit([req[q] EXCEPT !.pc = "write", !.id = i])
      BY <2>1 DEF Fit, Read, PCs
    <2>3. Own(req[q].dev) \subseteq Nat
      BY DEF Own, Bundles, Accounts
    <2>4. CASE \E i \in Own(req[q].dev) :
                 Become(q, [req[q] EXCEPT !.pc = "write", !.id = i])
      BY <2>4, <2>2, <2>3, BecomeFits
    <2>5. CASE Become(q, [req[q] EXCEPT !.pc = "write", !.id = 0])
      BY <2>5, <2>2, BecomeFits
    <2> QED BY <1>5, <2>4, <2>5 DEF BundleRead
  <1>6. ASSUME NEW q \in Request,
               CodeWrite(q) \/ LinkWrite(q) \/ RecoverWrite(q) \/ UploadWrite(q) \/ Fail(q)
        PROVE  Requests'
    <2>1. Finish(q)
      BY <1>6 DEF CodeWrite, LinkWrite, RecoverWrite, UploadWrite, Fail
    <2> QED BY <2>1, FinishFits
  <1>7. CASE Delete \/ UNCHANGED vars
    <2>1. req' = req
      BY <1>7 DEF Delete, vars
    <2> QED BY <2>1 DEF Requests, Fit, Read
  <1> QED BY <1>1, <1>2, <1>3, <1>4, <1>5, <1>6, <1>7 DEF Next, Begin, Proceed

LEMMA RowsStep == ASSUME Types, [Next]_vars PROVE Rows'
  <1> USE DEF Types, Rows
  <1>1. ASSUME NEW q \in Request, LinkWrite(q) PROVE Rows'
    <2>1. req[q].dev \in Device /\ req[q].from \in Device
      BY <1>1 DEF LinkWrite, At, Requests, Fit
    <2> QED BY <1>1, <2>1 DEF LinkWrite
  <1>2. ASSUME NEW q \in Request, RecoverWrite(q) PROVE Rows'
    <2>1. req[q].dev \in Device
      BY <1>2 DEF RecoverWrite, At, Requests, Fit
    <2> QED BY <1>2, <2>1 DEF RecoverWrite
  <1>3. CASE UNCHANGED <<devices, crossed>>
    BY <1>3 DEF devices
  <1>4. ASSUME NEW q \in Request, CodeWrite(q) \/ BundleRead(q) \/ UploadWrite(q) \/ Fail(q)
        PROVE  UNCHANGED <<devices, crossed>>
    BY <1>4 DEF CodeWrite, BundleRead, UploadWrite, Fail, ReadOnly
  <1>5. ASSUME NEW q \in Request, NEW d \in Device, Begin(q, d)
        PROVE  UNCHANGED <<devices, crossed>>
    BY <1>5 DEF Begin, CodeRead, RecoverRead, UploadRead, LinkRead, ReadOnly
  <1>6. Delete \/ UNCHANGED vars => UNCHANGED <<devices, crossed>>
    BY DEF Delete, vars
  <1> QED BY <1>1, <1>2, <1>3, <1>4, <1>5, <1>6 DEF Next, Proceed

LEMMA CodesStep == ASSUME Types, [Next]_vars PROVE Codes'
  <1> USE DEF Types, Codes
  <1>1. ASSUME NEW q \in Request, CodeWrite(q) PROVE Codes'
    <2>1. /\ issued < MaxCodes /\ issued' = issued + 1
          /\ link_code' = [link_code EXCEPT ![req[q].dev] = issued + 1]
      BY <1>1 DEF CodeWrite
    <2>2. issued' \in 0..MaxCodes
      BY <2>1
    <2>3. ASSUME NEW d \in Device PROVE link_code'[d] \in 0..issued'
      BY <2>1
    <2> QED BY <2>1, <2>2, <2>3
  <1>2. ASSUME NEW q \in Request, LinkWrite(q) PROVE Codes'
    <2>1. issued' = issued /\ link_code' = [link_code EXCEPT ![req[q].from] = 0]
      BY <1>2 DEF LinkWrite
    <2>2. ASSUME NEW d \in Device PROVE link_code'[d] \in 0..issued'
      BY <2>1
    <2> QED BY <2>1, <2>2
  <1>3. CASE UNCHANGED <<link_code, issued>>
    BY <1>3
  <1>4. ASSUME NEW q \in Request, RecoverWrite(q) \/ BundleRead(q) \/ UploadWrite(q) \/ Fail(q)
        PROVE  UNCHANGED <<link_code, issued>>
    BY <1>4 DEF RecoverWrite, BundleRead, UploadWrite, Fail, ReadOnly
  <1>5. ASSUME NEW q \in Request, NEW d \in Device, Begin(q, d)
        PROVE  UNCHANGED <<link_code, issued>>
    BY <1>5 DEF Begin, CodeRead, RecoverRead, UploadRead, LinkRead, ReadOnly
  <1>6. Delete \/ UNCHANGED vars => UNCHANGED <<link_code, issued>>
    BY DEF Delete, vars
  <1> QED BY <1>1, <1>2, <1>3, <1>4, <1>5, <1>6 DEF Next, Proceed

\* The rows of bundles after an upload.
LEMMA UploadRows ==
  ASSUME Types, NEW q \in Request, UploadWrite(q)
  PROVE  /\ req[q].dev \in Device
         /\ bundle' \in Seq(BundleRow)
         /\ \/ /\ Own(req[q].dev) = {}
               /\ Len(bundle') = Len(bundle) + 1
               /\ bundle'[Len(bundle) + 1] = [dev |-> req[q].dev, by |-> req[q].dev]
               /\ \A i \in Bundles : bundle'[i] = bundle[i]
            \/ /\ req[q].id \in Bundles
               /\ Len(bundle') = Len(bundle)
               /\ bundle'[req[q].id].by = req[q].dev
               /\ \A i \in Bundles : i # req[q].id => bundle'[i] = bundle[i]
  <1> DEFINE d == req[q].dev
             b == [dev |-> d, by |-> d]
             i == req[q].id
  <1>1. d \in Device /\ i \in Nat
    BY DEF Types, Requests, Fit, Read, UploadWrite, At
  <1>2. b \in BundleRow /\ bundle \in Seq(BundleRow)
    BY <1>1 DEF BundleRow, Types, Accounts
  <1>3. CASE i = 0
    <2>1. bundle' = Append(bundle, b) /\ Own(d) = {}
      BY <1>2, <1>3 DEF UploadWrite, Writable, Bundles
    <2> QED BY <1>1, <1>2, <2>1, AppendProperties DEF Bundles
  <1>4. CASE i # 0
    <2>1. bundle' = [bundle EXCEPT ![i].by = d] /\ i \in Bundles
      BY <1>4 DEF UploadWrite, Writable
    <2>2. bundle[i] \in BundleRow
      BY <1>2, <2>1 DEF Bundles
    <2>3. [bundle[i] EXCEPT !.by = d] \in BundleRow
      BY <1>1, <2>2 DEF BundleRow
    <2>4. bundle' = [bundle EXCEPT ![i] = [bundle[i] EXCEPT !.by = d]]
      BY <2>1
    <2>5. bundle' \in Seq(BundleRow) /\ Len(bundle') = Len(bundle)
      BY <1>2, <2>1, <2>3, <2>4, ExceptSeq DEF Bundles
    <2>6. bundle'[i].by = d
      BY <1>2, <2>1, <2>2, <2>4 DEF Bundles, BundleRow
    <2>7. \A j \in Bundles : j # i => bundle'[j] = bundle[j]
      BY <1>2, <2>1 DEF Bundles
    <2> QED BY <1>1, <2>1, <2>5, <2>6, <2>7
  <1> QED BY <1>3, <1>4

LEMMA AccountsStep == ASSUME Types, [Next]_vars PROVE Accounts'
  <1> USE DEF Types, Accounts
  <1>0. <<>> \in Seq(BundleRow)
    OBVIOUS
  <1>1. ASSUME NEW q \in Request, UploadWrite(q) PROVE Accounts'
    <2>1. bundle' \in Seq(BundleRow) /\ req[q].dev \in Device
      BY <1>1, UploadRows
    <2>2. CASE req[q].key = None
      BY <1>1, <2>1, <2>2 DEF UploadWrite
    <2>3. CASE req[q].key # None
      BY <1>1, <2>1, <2>3 DEF UploadWrite
    <2> QED BY <2>2, <2>3
  <1>2. ASSUME NEW q \in Request, RecoverWrite(q) PROVE Accounts'
    BY <1>0, <1>2 DEF RecoverWrite
  <1>3. CASE Delete
    BY <1>0, <1>3 DEF Delete, Removed
  <1>4. CASE UNCHANGED <<user, claim, bundle, raced>>
    BY <1>4
  <1>5. ASSUME NEW q \in Request, CodeWrite(q) \/ LinkWrite(q) \/ BundleRead(q) \/ Fail(q)
        PROVE  UNCHANGED <<user, claim, bundle, raced>>
    BY <1>5 DEF CodeWrite, LinkWrite, BundleRead, Fail, ReadOnly
  <1>6. ASSUME NEW q \in Request, NEW d \in Device, Begin(q, d)
        PROVE  UNCHANGED <<user, claim, bundle, raced>>
    BY <1>6 DEF Begin, CodeRead, RecoverRead, UploadRead, LinkRead, ReadOnly
  <1>7. UNCHANGED vars => UNCHANGED <<user, claim, bundle, raced>>
    BY DEF vars
  <1> QED BY <1>1, <1>2, <1>3, <1>4, <1>5, <1>6, <1>7 DEF Next, Proceed

LEMMA TypesStep == ASSUME Types, [Next]_vars PROVE Types'
  BY RequestsStep, RowsStep, CodesStep, AccountsStep DEF Types

LEMMA TypesImply == Types => TypeOK
  BY DEF Types, Requests, Rows, Codes, Accounts, Fit, Read, PCs, TypeOK, BundleRow

\* TypeOK holds for any devices, keys, requests and bounds.
THEOREM TypeCorrect == Spec => []TypeOK
  <1>1. Init => Types
    BY TypesInit
  <1>2. Types /\ [Next]_vars => Types'
    BY TypesStep
  <1>3. Types => TypeOK
    BY TypesImply
  <1> QED BY <1>1, <1>2, <1>3, PTL DEF Spec

-----------------------------------------------------------------------------
(* The pinned identity key.                                                *)

LEMMA KeyedStep ==
  ASSUME Types, Keyed, KeyPinned, [Next]_vars
  PROVE  Keyed' /\ KeyPinned'
  <1> USE DEF Keyed, KeyPinned
  <1>0. \A i \in Bundles : Key[bundle[i].by] # None
    <2>1. ASSUME NEW i \in Bundles PROVE bundle[i].by \in Device
      <3>1. bundle \in Seq(BundleRow)
        BY DEF Types, Accounts
      <3>2. bundle[i] \in BundleRow
        BY <3>1, ElementOfSeq DEF Bundles
      <3> QED BY <3>2 DEF BundleRow
    <2> QED BY <2>1
  <1>1. ASSUME NEW q \in Request, UploadWrite(q) PROVE Keyed' /\ KeyPinned'
    <2>1. req' = [req EXCEPT ![q] = Free]
      BY <1>1 DEF UploadWrite, Finish, Become
    <2>2. \A x \in Request : req'[x].pc # "free" => x # q /\ req'[x] = req[x]
      BY <2>1 DEF Types, Requests, Free
    <2>3. SUFFICES ASSUME ~ raced' PROVE Keyed' /\ KeyPinned'
      OBVIOUS
    <2> DEFINE d == req[q].dev
    <2>4. ~ raced /\ d \in Device /\ claim' = Key[d] /\ claim \in {None, claim'}
      <3>1. Fit(req[q]) /\ req[q].pc = "write"
        BY <1>1 DEF Types, Requests, UploadWrite, At
      <3>2. CASE req[q].key = None
        <4>1. claim' = Key[d] /\ raced' = (raced \/ claim # None)
          BY <1>1, <3>2 DEF UploadWrite
        <4>2. ~ raced /\ claim = None
          BY <2>3, <4>1 DEF Types, Accounts
        <4> QED BY <3>1, <4>1, <4>2 DEF Fit
      <3>3. CASE req[q].key # None
        <4>1. claim' = claim /\ raced' = raced
          BY <1>1, <3>3 DEF UploadWrite
        <4>2. req[q].key = claim
          BY <2>3, <3>1, <3>3, <4>1
        <4> QED BY <2>3, <3>1, <3>3, <4>1, <4>2 DEF Fit
      <3> QED BY <3>2, <3>3
    <2>5. Keyed'
      BY <2>2, <2>4
    <2>6. ASSUME NEW i \in Bundles PROVE Key[bundle[i].by] = claim'
      BY <1>0, <2>4
    <2>7. ASSUME NEW i \in Bundles' PROVE Key[bundle'[i].by] = claim'
      <3>1. i \in 1..Len(bundle')
        BY DEF Bundles
      <3>2. CASE i \in Bundles /\ bundle'[i] = bundle[i]
        BY <2>6, <3>2
      <3>3. CASE bundle'[i].by = d
        BY <2>4, <3>3
      <3>4. Len(bundle) \in Nat
        BY DEF Types, Accounts
      <3>5. CASE /\ Len(bundle') = Len(bundle) + 1
                 /\ bundle'[Len(bundle) + 1] = [dev |-> d, by |-> d]
                 /\ \A j \in Bundles : bundle'[j] = bundle[j]
        <4>1. i = Len(bundle) + 1 \/ i \in Bundles
          BY <3>1, <3>4, <3>5 DEF Bundles
        <4> QED BY <4>1, <3>2, <3>3, <3>5
      <3>6. CASE /\ Len(bundle') = Len(bundle)
                 /\ bundle'[req[q].id].by = d
                 /\ \A j \in Bundles : j # req[q].id => bundle'[j] = bundle[j]
        <4>1. i \in Bundles
          BY <3>1, <3>6 DEF Bundles
        <4> QED BY <4>1, <3>2, <3>3, <3>6
      <3> QED BY <1>1, <3>5, <3>6, UploadRows
    <2> QED BY <2>5, <2>7
  <1>2. ASSUME NEW q \in Request, NEW d \in Device, UploadRead(q, d)
        PROVE  Keyed' /\ KeyPinned'
    <2> DEFINE r == [Free EXCEPT !.pc = "bundle", !.dev = d, !.key = claim]
    <2>1. Become(q, r) /\ ReadOnly
      BY <1>2 DEF UploadRead
    <2>2. r.key = claim
      BY DEF Free
    <2> HIDE DEF r
    <2>3. req'[q] = r /\ \A x \in Request : x # q => req'[x] = req[x]
      BY <2>1, Others DEF Types
    <2> QED BY <2>1, <2>2, <2>3 DEF ReadOnly, Bundles
  <1>3. ASSUME NEW q \in Request, BundleRead(q) PROVE Keyed' /\ KeyPinned'
    <2>1. PICK i \in Nat : Become(q, [req[q] EXCEPT !.pc = "write", !.id = i])
      <3>1. Own(req[q].dev) \subseteq Nat
        BY DEF Own, Bundles, Types, Accounts
      <3>2. \/ \E i \in Own(req[q].dev) : Become(q, [req[q] EXCEPT !.pc = "write", !.id = i])
            \/ Become(q, [req[q] EXCEPT !.pc = "write", !.id = 0])
        BY <1>3 DEF BundleRead
      <3> QED BY <3>1, <3>2
    <2> DEFINE r == [req[q] EXCEPT !.pc = "write", !.id = i]
    <2>2. r.key = req[q].key /\ req[q].pc = "bundle"
      BY <1>3 DEF BundleRead, At, Types, Requests, Fit, Read
    <2> HIDE DEF r
    <2>3. req'[q] = r /\ \A x \in Request : x # q => req'[x] = req[x]
      BY <2>1, Others DEF Types, r
    <2>4. ReadOnly
      BY <1>3 DEF BundleRead
    <2> QED BY <2>2, <2>3, <2>4 DEF ReadOnly, Bundles
  \* The other handlers leave the claim alone and add no bundle.
  <1>4. ASSUME UNCHANGED <<claim, raced>>, bundle' \in {bundle, <<>>},
               \A x \in Request : req'[x] = req[x] \/ req'[x].pc \notin {"bundle", "write"}
        PROVE  Keyed' /\ KeyPinned'
    <2>1. Keyed'
      BY <1>4
    <2>2. CASE bundle' = bundle
      BY <1>4, <2>1, <2>2 DEF Bundles
    <2>3. CASE bundle' = <<>>
      BY <2>1, <2>3 DEF Bundles
    <2> QED BY <1>4, <2>1, <2>2, <2>3
  <1>5. ASSUME NEW q \in Request,
               CodeWrite(q) \/ LinkWrite(q) \/ RecoverWrite(q) \/ Fail(q)
        PROVE  Keyed' /\ KeyPinned'
    <2>1. Become(q, Free)
      BY <1>5 DEF CodeWrite, LinkWrite, RecoverWrite, Fail, Finish
    <2>2. \A x \in Request : req'[x] = req[x] \/ req'[x].pc \notin {"bundle", "write"}
      BY <2>1, Others DEF Types, Free
    <2>3. UNCHANGED <<claim, raced>> /\ bundle' \in {bundle, <<>>}
      BY <1>5 DEF CodeWrite, LinkWrite, RecoverWrite, Fail, ReadOnly
    <2> QED BY <1>4, <2>2, <2>3
  <1>6. ASSUME NEW q \in Request, NEW d \in Device, NEW p, NEW c,
               CodeRead(q, d) \/ RecoverRead(q, d) \/ LinkRead(q, p, c, d)
        PROVE  Keyed' /\ KeyPinned'
    <2>1. ASSUME NEW r, Become(q, r), r.pc \notin {"bundle", "write"}
          PROVE  \A x \in Request : req'[x] = req[x] \/ req'[x].pc \notin {"bundle", "write"}
      BY <2>1, Others DEF Types
    <2>2. \A x \in Request : req'[x] = req[x] \/ req'[x].pc \notin {"bundle", "write"}
      <3>1. CASE CodeRead(q, d)
        <4> DEFINE r == [Free EXCEPT !.pc = "code", !.dev = d]
        <4>1. Become(q, r) /\ r.pc = "code"
          BY <3>1 DEF CodeRead, Free
        <4> QED BY <2>1, <4>1
      <3>2. CASE RecoverRead(q, d)
        <4> DEFINE r == [Free EXCEPT !.pc = "recover", !.dev = d, !.rows = rows]
        <4>1. Become(q, r) /\ r.pc = "recover"
          BY <3>2 DEF RecoverRead, Free
        <4> QED BY <2>1, <4>1
      <3>3. CASE LinkRead(q, p, c, d)
        <4> DEFINE r == [Free EXCEPT !.pc = "link", !.dev = d, !.from = p]
        <4>1. Become(q, r) /\ r.pc = "link"
          BY <3>3 DEF LinkRead, Free
        <4> QED BY <2>1, <4>1
      <3> QED BY <1>6, <3>1, <3>2, <3>3
    <2>3. UNCHANGED <<claim, raced, bundle>>
      BY <1>6 DEF CodeRead, RecoverRead, LinkRead, ReadOnly
    <2> QED BY <1>4, <2>2, <2>3
  <1>7. CASE Delete \/ UNCHANGED vars
    <2>1. req' = req
      BY <1>7 DEF Delete, vars
    <2>3. UNCHANGED <<claim, raced>> /\ bundle' \in {bundle, <<>>}
      BY <1>7 DEF Delete, vars
    <2>2. \A x \in Request : req'[x] = req[x] \/ req'[x].pc \notin {"bundle", "write"}
      BY <2>1
    <2> QED BY <1>4, <2>2, <2>3
  <1> HIDE DEF Keyed, KeyPinned
  <1> QED BY <1>1, <1>2, <1>3, <1>5, <1>6, <1>7 DEF Next, Begin, Proceed

\* No first upload raced another: only the claimed identity is handed out.
THEOREM KeysArePinned == Spec => []KeyPinned
  <1>1. Init => Types /\ Keyed /\ KeyPinned
    BY TypesInit DEF Init, Keyed, KeyPinned, Free, Bundles
  <1>2. Types /\ Keyed /\ KeyPinned /\ [Next]_vars => (Types /\ Keyed /\ KeyPinned)'
    BY TypesStep, KeyedStep
  <1> QED BY <1>1, <1>2, PTL DEF Spec

-----------------------------------------------------------------------------
(* One primary device and those it linked.                                 *)

LEMMA OneFamilyStep == ASSUME Types, OneFamily, [Next]_vars PROVE OneFamily'
  <1> USE DEF Types, Rows, OneFamily
  <1>1. ASSUME NEW q \in Request, LinkWrite(q) PROVE OneFamily'
    <2> DEFINE d == req[q].dev
               p == req[q].from
    <2>1. d \in Device /\ p \in Device
      BY <1>1 DEF LinkWrite, At, Requests, Fit
    <2>2. /\ d \notin rows /\ active' = active \cup {d} /\ primary' = primary
          /\ linked_by' = [linked_by EXCEPT ![d] = p]
          /\ crossed' = (crossed \/ p \notin primary)
      BY <1>1 DEF LinkWrite
    <2>3. ASSUME ~ crossed', NEW o \in Device, primary = {o},
                 \A x \in active \ {o} : linked_by[x] = o
          PROVE  \A x \in active' \ {o} : linked_by'[x] = o
      BY <2>1, <2>2, <2>3
    <2> QED BY <2>2, <2>3
  <1>2. ASSUME NEW q \in Request, RecoverWrite(q) PROVE OneFamily'
    <2> DEFINE d == req[q].dev
    <2>1. d \in Device
      BY <1>2 DEF RecoverWrite, At, Requests, Fit
    <2>2. /\ active' = (active \ req[q].rows) \cup {d}
          /\ primary' = (primary \ req[q].rows) \cup {d}
          /\ crossed' = (crossed \/ rows # req[q].rows)
      BY <1>2 DEF RecoverWrite, Old
    <2>3. ~ crossed' => active' = {d} /\ primary' = {d}
      BY <2>2
    <2> QED BY <2>1, <2>2, <2>3
  <1>3. CASE UNCHANGED <<devices, crossed>>
    BY <1>3 DEF devices
  <1>4. ASSUME NEW q \in Request, CodeWrite(q) \/ BundleRead(q) \/ UploadWrite(q) \/ Fail(q)
        PROVE  UNCHANGED <<devices, crossed>>
    BY <1>4 DEF CodeWrite, BundleRead, UploadWrite, Fail, ReadOnly
  <1>5. ASSUME NEW q \in Request, NEW d \in Device, Begin(q, d)
        PROVE  UNCHANGED <<devices, crossed>>
    BY <1>5 DEF Begin, CodeRead, RecoverRead, UploadRead, LinkRead, ReadOnly
  <1>6. Delete \/ UNCHANGED vars => UNCHANGED <<devices, crossed>>
    BY DEF Delete, vars
  <1> QED BY <1>1, <1>2, <1>3, <1>4, <1>5, <1>6 DEF Next, Proceed

\* Always an active primary device; a family of one unless handlers crossed.
THEOREM FamilyOfOne == Spec => []OneFamily
  <1>1. Init => OneFamily
    BY DEF Init, OneFamily
  <1>2. Types /\ OneFamily /\ [Next]_vars => (Types /\ OneFamily)'
    BY TypesStep, OneFamilyStep
  <1> QED BY <1>1, <1>2, TypesInit, PTL DEF Spec
=============================================================================
