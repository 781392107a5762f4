--------------------------- MODULE AtomicRegister ---------------------------
(***************************************************************************)
(* What WriteFile promises its callers: the file is a register that a call *)
(* sets at one moment, to all it was given, or not at all.  There is no    *)
(* temporary file here, and nothing that is half written.  Only a power    *)
(* loss takes the register back, to a value it had before.                 *)
(***************************************************************************)
CONSTANTS Calls,    \* calls of WriteFile
          Modes,    \* permissions
          Initial   \* the file that was there before

VARIABLES state,    \* of each call
          asked,    \* asked[c]: the permissions it wants
          value,    \* the file, as programs see it
          durable   \* and as it would be after a power loss

vars == <<state, asked, value, durable>>

Written(c) == [call |-> c, data |-> "full", mode |-> asked[c]]

Init ==
  /\ state = [c \in Calls |-> "idle"]
  /\ asked \in [Calls -> Modes]
  /\ value = Initial /\ durable = Initial

Start(c) ==
  /\ state[c] = "idle"
  /\ state' = [state EXCEPT ![c] = "writing"]
  /\ \E m \in Modes : asked' = [asked EXCEPT ![c] = m]
  /\ UNCHANGED <<value, durable>>

\* The call takes effect and returns nil.
Put(c) ==
  /\ state[c] = "writing"
  /\ state' = [state EXCEPT ![c] = "done"]
  /\ value' = Written(c)
  /\ UNCHANGED <<asked, durable>>

\* The call returns an error and has had no effect.
Fail(c) ==
  /\ state[c] = "writing"
  /\ state' = [state EXCEPT ![c] = "error"]
  /\ UNCHANGED <<asked, value, durable>>

Flush ==
  /\ durable' = value
  /\ UNCHANGED <<state, asked, value>>

\* Calls that were under way end without effect.
Lose ==
  /\ state' = [c \in Calls |-> IF state[c] = "writing" THEN "dead" ELSE state[c]]
  /\ value' = durable
  /\ UNCHANGED <<asked, durable>>

Next ==
  \/ \E c \in Calls : Start(c) \/ Put(c) \/ Fail(c)
  \/ Flush
  \/ Lose

Spec == Init /\ [][Next]_vars

=============================================================================
