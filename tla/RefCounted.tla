----------------------------- MODULE RefCounted -----------------------------
(***************************************************************************)
(* What Locker promises its callers: a resource per key that exists for as *)
(* long as somebody holds it, and that goes away only when nobody does.    *)
(* No lock, no file and no step of the protocol appears here.              *)
(***************************************************************************)
CONSTANTS Clients, Keys

VARIABLES holders,  \* holders[k]: the clients between Acquire and release
          live      \* live[k]: the resource of k is complete

vars == <<holders, live>>

Init ==
  /\ holders = [k \in Keys |-> {}]
  /\ live = [k \in Keys |-> FALSE]

\* Acquire returns: c joins the holders of a resource that is there.
Acquire(c, k) ==
  /\ c \notin holders[k]
  /\ holders' = [holders EXCEPT ![k] = @ \cup {c}]
  /\ live' = [live EXCEPT ![k] = TRUE]

\* c releases, or dies: the resource stays.
Release(c, k) ==
  /\ c \in holders[k]
  /\ holders' = [holders EXCEPT ![k] = @ \ {c}]
  /\ UNCHANGED live

\* The resource goes away, and nobody holds it.
Destroy(k) ==
  /\ live[k]
  /\ holders[k] = {}
  /\ live' = [live EXCEPT ![k] = FALSE]
  /\ UNCHANGED holders

Next ==
  \E k \in Keys : \/ \E c \in Clients : Acquire(c, k) \/ Release(c, k)
                  \/ Destroy(k)

Spec == Init /\ [][Next]_vars

=============================================================================
