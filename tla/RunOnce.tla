------------------------------ MODULE RunOnce ------------------------------
(***************************************************************************)
(* What the shutdown package promises the program: from one moment on, the *)
(* handlers registered until then run backwards, one after the other, and  *)
(* nobody who asked for it hears that it is over before it is.  No Once,   *)
(* no signal, no timer and no thread that does the work appear here.       *)
(***************************************************************************)
EXTENDS Sequences, SequencesExt

CONSTANTS Threads, Handlers

VARIABLES list,     \* the handlers registered so far
          phase,    \* "open" before that moment, then "running", then "over"
          plan,     \* those still to be run, in this order
          ran,      \* those that have returned
          waiting,  \* the threads that have asked for the shutdown
          told,     \* and those that know it is over
          end       \* how the process has ended

vars == <<list, phase, plan, ran, waiting, told, end>>

Init ==
  /\ list = <<>> /\ phase = "open" /\ plan = <<>> /\ ran = <<>>
  /\ waiting = {} /\ told = {} /\ end = "no"

Register(h) ==
  /\ end = "no"
  /\ h \notin ToSet(list)
  /\ list' = Append(list, h)
  /\ UNCHANGED <<phase, plan, ran, waiting, told, end>>

Ask(t) ==
  /\ end = "no" /\ t \notin waiting \cup told
  /\ waiting' = waiting \cup {t}
  /\ UNCHANGED <<list, phase, plan, ran, told, end>>

Begin ==
  /\ end = "no" /\ phase = "open" /\ waiting # {}
  /\ phase' = "running" /\ plan' = Reverse(list)
  /\ UNCHANGED <<list, ran, waiting, told, end>>

RunNext ==
  /\ end = "no" /\ phase = "running" /\ plan # <<>>
  /\ ran' = Append(ran, Head(plan)) /\ plan' = Tail(plan)
  /\ UNCHANGED <<list, phase, waiting, told, end>>

Tell(t) ==
  /\ t \in waiting
  /\ waiting' = waiting \ {t} /\ told' = told \cup {t}

\* The next handler panics, and those after it never run.  The process may end.
Panic(t) ==
  /\ end = "no" /\ phase = "running" /\ plan # <<>>
  /\ phase' = "over" /\ Tell(t)
  /\ end' \in {"no", "other"}
  /\ UNCHANGED <<list, plan, ran>>

Finish(t) ==
  /\ end = "no" /\ phase = "running" /\ plan = <<>>
  /\ phase' = "over" /\ Tell(t)
  /\ UNCHANGED <<list, plan, ran, end>>

\* Everybody else learns of it later.
TellLater(t) ==
  /\ end = "no" /\ phase = "over" /\ Tell(t)
  /\ UNCHANGED <<list, phase, plan, ran, end>>

\* Gracefully only when somebody knows that it is over.
EndProcess ==
  /\ end = "no"
  /\ \/ end' = "graceful" /\ told # {}
     \/ end' = "other"
  /\ UNCHANGED <<list, phase, plan, ran, waiting, told>>

Next ==
  \/ \E h \in Handlers : Register(h)
  \/ \E t \in Threads : Ask(t) \/ Panic(t) \/ Finish(t) \/ TellLater(t)
  \/ Begin \/ RunNext \/ EndProcess

Spec == Init /\ [][Next]_vars

=============================================================================
