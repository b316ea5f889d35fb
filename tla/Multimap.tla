------------------------------ MODULE Multimap ------------------------------
(***************************************************************************)
(* What a hash join promises its surrounding operators: build rows are     *)
(* stored under their key; after that, a probe delivers every payload      *)
(* stored under the probed key, once each, oldest first.                   *)
(***************************************************************************)
EXTENDS Naturals, Sequences

CONSTANTS Keys, Payloads

VARIABLES
    store,     \* the payloads of each key, in the order they were inserted
    building,  \* no probe has started yet
    pending    \* what the current probe still has to deliver

vars == <<store, building, pending>>

Init ==
    /\ store = [k \in Keys |-> <<>>]
    /\ building = TRUE
    /\ pending = <<>>

Insert(k, p) ==
    /\ building
    /\ store' = [store EXCEPT ![k] = Append(@, p)]
    /\ UNCHANGED <<building, pending>>

Probe(k) ==
    /\ pending = <<>>
    /\ building' = FALSE
    /\ pending' = store[k]
    /\ UNCHANGED store

Deliver ==
    /\ pending # <<>>
    /\ pending' = Tail(pending)
    /\ UNCHANGED <<store, building>>

Next ==
    \/ \E k \in Keys, p \in Payloads : Insert(k, p)
    \/ \E k \in Keys : Probe(k)
    \/ Deliver

Steps == Init /\ [][Next]_vars

(* A probe that has started delivers everything. *)
Spec == Steps /\ WF_vars(Deliver)
=============================================================================
