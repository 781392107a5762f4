---------------------------- MODULE LockerCleanup ----------------------------
(***************************************************************************)
(* Locker, with the cleanup functions that factories return and release    *)
(* functions keep.  A factory that finds the resource complete has nothing *)
(* to clean up and returns nil; one that creates it returns the function   *)
(* that takes it down.                                                     *)
(***************************************************************************)
EXTENDS Locker

VARIABLES cleanup,  \* cleanup[c][k]: the last release function of c for k has one
          due       \* due[k]: whoever created the resource of k returned one, and
                    \* nobody has called it

cleanupVars == <<vars, cleanup, due>>

CleanupInit ==
  /\ Init
  /\ cleanup = [c \in Clients |-> [k \in Keys |-> FALSE]]
  /\ due = [k \in Keys |-> FALSE]

\* buildRelease keeps the cleanup of the factory call it belongs to, no other.
FactoryReturnsCleanup(c) ==
  LET k == key[c]
      created == resource[k] # "ready"
  IN /\ FactoryReturns(c)
     /\ cleanup' = [cleanup EXCEPT ![c][k] = created]
     /\ due' = [due EXCEPT ![k] = @ \/ created]

\* if cleanup != nil { cleanup() }
CallCleanup(c) ==
  LET k == key[c] IN
  /\ CleanUp(c)
  /\ resource' # resource => cleanup[c][k]
  /\ due' = [due EXCEPT ![k] = @ /\ ~cleanup[c][k]]
  /\ UNCHANGED cleanup

Elsewhere(c) == pc[c] \notin {"inFactory", "rCleanup"}

OtherStep ==
  /\ \E c \in Clients :
       \/ Elsewhere(c) /\ Progress(c)
       \/ \E k \in Keys : Acquire(c, k) \/ ReleaseAgain(c, k)
       \/ Release(c) \/ LockRoot(c) \/ CallFails(c) \/ Crash(c)
  /\ UNCHANGED <<cleanup, due>>

CleanupNext ==
  \/ \E c \in Clients : FactoryReturnsCleanup(c) \/ CallCleanup(c)
  \/ OtherStep

CleanupSpec == CleanupInit /\ [][CleanupNext]_cleanupVars

\* refcounted.go:50: "The cleanup function (if non-nil) is called when the last
\* holder releases": while nothing fails, an entry that is gone has been cleaned
\* up by the function its creator returned.
CreatorCleanupRuns ==
  mishaps = 0 =>
    \A k \in Keys : entry[k] = NoInode => ~due[k]

=============================================================================
