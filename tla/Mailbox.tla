------------------------------- MODULE Mailbox ------------------------------
(***************************************************************************)
(* What the relays promise of envelopes, however many relays a message     *)
(* passes and whatever fails: a sender is told "sent" only of an envelope  *)
(* some relay has taken in, and a device is given only what was taken in.  *)
(***************************************************************************)
CONSTANT Envelope

VARIABLES
    kept,   \* the envelopes some relay has taken in
    told,   \* those whose sender was told that they were sent
    given   \* those some device has got

vars == <<kept, told, given>>

Init == kept = {} /\ told = {} /\ given = {}

Keep(e) == kept' = kept \cup {e} /\ UNCHANGED <<told, given>>

Tell(e) == e \in kept /\ told' = told \cup {e} /\ UNCHANGED <<kept, given>>

Give(E) == E \subseteq kept /\ given' = given \cup E /\ UNCHANGED <<kept, told>>

Next == \/ \E e \in Envelope : Keep(e) \/ Tell(e)
        \/ \E E \in SUBSET Envelope : Give(E)

Spec == Init /\ [][Next]_vars
=============================================================================
