------------------------------ MODULE Shutdown ------------------------------
(***************************************************************************)
(* app/shutdown/shutdown.go: handlers that run once, in reverse order of   *)
(* registration, when the program calls Shutdown or a signal arrives.      *)
(*                                                                         *)
(* Goroutines of the program call Register and Shutdown.  Each call of     *)
(* SetDefaults leaves a watcher goroutine w behind; on a signal it cancels *)
(* its context, starts one more goroutine that calls Shutdown (thread w),  *)
(* and ends the process when that one is done or the timeout is over.      *)
(***************************************************************************)
EXTENDS Naturals, Sequences, SequencesExt

CONSTANTS Handlers,    \* what may be registered, each once
          Hanging,     \* the handlers that never return (one that calls
                       \* Shutdown itself is among them: it waits for itself)
          Callers,     \* goroutines of the program that call Shutdown
          Watchers,    \* calls of SetDefaults
          MaxSignals   \* bound on the signals the process gets

ASSUME ShutdownAssumption == /\ Hanging \subseteq Handlers
                             /\ Callers \cap Watchers = {}
                             /\ MaxSignals \in Nat

VARIABLES handlers,    \* shutdownHandlers
          once,        \* shutdownOnce
          call,        \* call[t]: where thread t is in Shutdown
          snapshot,    \* handlers, the local copy
          todo,        \* i + 1: how many of the copy are still to be run
          inHandler,   \* handlers[i] is running
          ran,         \* the handlers that have returned, in this order
          panicked,    \* a handler has panicked
          watcher,     \* watcher[w]: where the goroutine of SetDefaults is
          sigChan,     \* sigChan[w]: whether its buffer holds a signal
          timer,       \* timer[w]: time.After(shutdownTimeout)
          sent,        \* signals so far
          exit,        \* how the process has ended
          due          \* what was registered when Shutdown was first called

onceVars == <<once, snapshot, todo, inHandler, ran, panicked>>
watcherVars == <<watcher, sigChan, timer, sent>>
vars == <<handlers, call, onceVars, watcherVars, exit, due>>

Threads == Callers \cup Watchers

TypeOK ==
  /\ handlers \in Seq(Handlers) /\ snapshot \in Seq(Handlers) /\ ran \in Seq(Handlers)
  /\ once \in {"new", "busy", "done"}
  /\ call \in [Threads -> {"none", "entered", "owner", "running", "returned"}]
  /\ todo \in Nat /\ inHandler \in BOOLEAN /\ panicked \in BOOLEAN
  /\ watcher \in [Watchers -> {"none", "waiting", "received", "stopped", "cancelled",
                               "selecting"}]
  /\ sigChan \in [Watchers -> BOOLEAN]
  /\ timer \in [Watchers -> {"off", "on", "fired"}]
  /\ sent \in 0 .. MaxSignals
  /\ exit \in {"no", "graceful", "timeout", "killed", "crashed"}
  /\ due \in SUBSET Handlers

Init ==
  /\ handlers = <<>> /\ snapshot = <<>> /\ ran = <<>>
  /\ once = "new" /\ todo = 0 /\ inHandler = FALSE /\ panicked = FALSE
  /\ call = [t \in Threads |-> "none"]
  /\ watcher = [w \in Watchers |-> "none"]
  /\ sigChan = [w \in Watchers |-> FALSE]
  /\ timer = [w \in Watchers |-> "off"]
  /\ sent = 0 /\ exit = "no" /\ due = {}

Registered == ToSet(handlers)

-----------------------------------------------------------------------------
(* Register and Shutdown                                                   *)

\* The mutex makes the append one step.
Register(h) ==
  /\ exit = "no"
  /\ h \notin Registered
  /\ handlers' = Append(handlers, h)
  /\ UNCHANGED <<call, onceVars, watcherVars, exit, due>>

\* A thread reaches shutdownOnce.Do.
Enter(t) ==
  /\ call[t] = "none"
  /\ call' = [call EXCEPT ![t] = "entered"]
  /\ due' = IF \A u \in Threads : call[u] = "none" THEN Registered ELSE due

CallShutdown(c) ==
  /\ exit = "no"
  /\ Enter(c)
  /\ UNCHANGED <<handlers, onceVars, watcherVars, exit>>

\* Mutant: the flag is only set when the handlers are done.
DoFirstUnlessDone(t) ==
  /\ exit = "no"
  /\ call[t] = "entered" /\ once # "done"
  /\ once' = "busy"
  /\ call' = [call EXCEPT ![t] = "owner"]
  /\ UNCHANGED <<handlers, snapshot, todo, inHandler, ran, panicked, watcherVars, exit, due>>

\* sync.Once: the first thread runs the function, the others wait until it is
\* over.
DoFirst(t) ==
  /\ exit = "no"
  /\ call[t] = "entered" /\ once = "new"
  /\ once' = "busy"
  /\ call' = [call EXCEPT ![t] = "owner"]
  /\ UNCHANGED <<handlers, snapshot, todo, inHandler, ran, panicked, watcherVars, exit, due>>

\* Mutant: an atomic flag in place of sync.Once; the others do not wait.
DoAgainAtOnce(t) ==
  /\ exit = "no"
  /\ call[t] = "entered" /\ once # "new"
  /\ call' = [call EXCEPT ![t] = "returned"]
  /\ UNCHANGED <<handlers, onceVars, watcherVars, exit, due>>

DoAgain(t) ==
  /\ exit = "no"
  /\ call[t] = "entered" /\ once = "done"
  /\ call' = [call EXCEPT ![t] = "returned"]
  /\ UNCHANGED <<handlers, onceVars, watcherVars, exit, due>>

\* Mutant: the handlers run in order of registration.
CopyForwards(t) ==
  /\ exit = "no"
  /\ call[t] = "owner"
  /\ call' = [call EXCEPT ![t] = "running"]
  /\ snapshot' = Reverse(handlers) /\ todo' = Len(handlers)
  /\ UNCHANGED <<handlers, once, inHandler, ran, panicked, watcherVars, exit, due>>

\* Mutant: make([]func(), n) with room for one handler too few.
CopyShort(t) ==
  /\ exit = "no"
  /\ call[t] = "owner"
  /\ call' = [call EXCEPT ![t] = "running"]
  /\ snapshot' = handlers /\ todo' = Len(handlers) - 1
  /\ UNCHANGED <<handlers, once, inHandler, ran, panicked, watcherVars, exit, due>>

\* The copy under the mutex: what is registered later is not in it.
Copy(t) ==
  /\ exit = "no"
  /\ call[t] = "owner"
  /\ call' = [call EXCEPT ![t] = "running"]
  /\ snapshot' = handlers /\ todo' = Len(handlers)
  /\ UNCHANGED <<handlers, once, inHandler, ran, panicked, watcherVars, exit, due>>

HandlerStarts(t) ==
  /\ exit = "no"
  /\ call[t] = "running" /\ todo > 0 /\ ~inHandler
  /\ inHandler' = TRUE
  /\ UNCHANGED <<handlers, call, once, snapshot, todo, ran, panicked, watcherVars, exit, due>>

HandlerReturns(t) ==
  /\ exit = "no"
  /\ call[t] = "running" /\ inHandler
  /\ snapshot[todo] \notin Hanging
  /\ inHandler' = FALSE
  /\ ran' = Append(ran, snapshot[todo])
  /\ todo' = todo - 1
  /\ UNCHANGED <<handlers, call, once, snapshot, panicked, watcherVars, exit, due>>

\* A panic ends the process, unless the program recovers it around its own call
\* of Shutdown; sync.Once counts that call as done.
HandlerPanics(t) ==
  /\ exit = "no"
  /\ call[t] = "running" /\ inHandler
  /\ panicked' = TRUE /\ once' = "done" /\ inHandler' = FALSE
  /\ call' = [call EXCEPT ![t] = "returned"]
  /\ \/ exit' = "crashed"
     \/ t \in Callers /\ UNCHANGED exit
  /\ UNCHANGED <<handlers, snapshot, todo, ran, watcherVars, due>>

\* Mutant: nobody tells the callers that wait.
DoReturnsSilently(t) ==
  /\ exit = "no"
  /\ call[t] = "running" /\ todo = 0 /\ ~inHandler
  /\ call' = [call EXCEPT ![t] = "returned"]
  /\ UNCHANGED <<handlers, onceVars, watcherVars, exit, due>>

\* The loop is over and Do returns.
DoReturns(t) ==
  /\ exit = "no"
  /\ call[t] = "running" /\ todo = 0 /\ ~inHandler
  /\ once' = "done"
  /\ call' = [call EXCEPT ![t] = "returned"]
  /\ UNCHANGED <<handlers, snapshot, todo, inHandler, ran, panicked, watcherVars, exit, due>>

-----------------------------------------------------------------------------
(* Signals                                                                 *)

\* SetDefaults: signal.Notify and the watcher goroutine.
SetDefaults(w) ==
  /\ exit = "no"
  /\ watcher[w] = "none"
  /\ watcher' = [watcher EXCEPT ![w] = "waiting"]
  /\ UNCHANGED <<handlers, call, onceVars, sigChan, timer, sent, exit, due>>

\* SIGINT or SIGTERM reaches every channel between Notify and Stop, and is
\* dropped where one is waiting already.  Without a channel it kills.
Signal ==
  LET notified == {w \in Watchers : watcher[w] \in {"waiting", "received"}} IN
  /\ exit = "no"
  /\ sent < MaxSignals /\ sent' = sent + 1
  /\ sigChan' = [w \in Watchers |-> sigChan[w] \/ w \in notified]
  /\ exit' = IF notified = {} THEN "killed" ELSE exit
  /\ UNCHANGED <<handlers, call, onceVars, watcher, timer, due>>

\* sig := <-sigChan
Receive(w) ==
  /\ exit = "no"
  /\ watcher[w] = "waiting" /\ sigChan[w]
  /\ watcher' = [watcher EXCEPT ![w] = "received"]
  /\ sigChan' = [sigChan EXCEPT ![w] = FALSE]
  /\ UNCHANGED <<handlers, call, onceVars, timer, sent, exit, due>>

\* signal.Stop, then cancel()
StopAndCancel(w) ==
  /\ exit = "no"
  /\ \/ watcher[w] = "received" /\ watcher' = [watcher EXCEPT ![w] = "stopped"]
     \/ watcher[w] = "stopped" /\ watcher' = [watcher EXCEPT ![w] = "cancelled"]
  /\ UNCHANGED <<handlers, call, onceVars, sigChan, timer, sent, exit, due>>

\* go func() { Shutdown(); close(done) }(), and the select that sets the timer.
Spawn(w) ==
  /\ exit = "no"
  /\ watcher[w] = "cancelled"
  /\ watcher' = [watcher EXCEPT ![w] = "selecting"]
  /\ timer' = [timer EXCEPT ![w] = "on"]
  /\ Enter(w)
  /\ UNCHANGED <<handlers, onceVars, sigChan, sent, exit>>

TimerFires(w) ==
  /\ exit = "no"
  /\ timer[w] = "on"
  /\ timer' = [timer EXCEPT ![w] = "fired"]
  /\ UNCHANGED <<handlers, call, onceVars, watcher, sigChan, sent, exit, due>>

\* Mutant: no time.After case.
ExitWhenDone(w) ==
  /\ exit = "no"
  /\ watcher[w] = "selecting"
  /\ call[w] = "returned" /\ exit' = "graceful"
  /\ UNCHANGED <<handlers, call, onceVars, watcherVars, due>>

\* The select picks either case when both are ready.
Exit(w) ==
  /\ exit = "no"
  /\ watcher[w] = "selecting"
  /\ \/ call[w] = "returned" /\ exit' = "graceful"
     \/ timer[w] = "fired" /\ exit' = "timeout"
  /\ UNCHANGED <<handlers, call, onceVars, watcherVars, due>>

-----------------------------------------------------------------------------
InShutdown(t) ==
  DoFirst(t) \/ DoAgain(t) \/ Copy(t) \/ HandlerStarts(t) \/ HandlerReturns(t) \/ DoReturns(t)

Watch(w) == Receive(w) \/ StopAndCancel(w) \/ Spawn(w) \/ Exit(w)

Next ==
  \/ \E h \in Handlers : Register(h)
  \/ \E c \in Callers : CallShutdown(c)
  \/ \E t \in Threads : InShutdown(t) \/ HandlerPanics(t)
  \/ \E w \in Watchers : SetDefaults(w) \/ Watch(w) \/ TimerFires(w)
  \/ Signal

Spec == Init /\ [][Next]_vars

\* Goroutines run and time passes; nobody has to register, call or signal, and
\* a hanging handler keeps its thread for ever.
Fairness ==
  /\ \A t \in Threads : WF_vars(InShutdown(t))
  /\ \A w \in Watchers : WF_vars(Watch(w)) /\ WF_vars(TimerFires(w))

FairSpec == Spec /\ Fairness

-----------------------------------------------------------------------------
(* Properties                                                              *)

\* shutdown.go:89 "in reverse order, exactly once": whoever calls Shutdown and
\* whatever is registered meanwhile, the handlers that have run are the last
\* ones of some moment's list, backwards and without repetition.
ReverseOrderOnce ==
  \E n \in 0 .. Len(handlers) :
    /\ Len(ran) <= n
    /\ \A i \in 1 .. Len(ran) : ran[i] = handlers[n + 1 - i]

\* No call of Shutdown, and no exit with the signal's code, comes before every
\* handler that was registered when Shutdown was first called has returned: a
\* second caller waits for the first.
ReturnedMeansRun ==
  ~panicked /\ (exit = "graceful" \/ \E t \in Threads : call[t] = "returned") =>
    due \subseteq ToSet(ran)

\* Handlers never overlap, and none starts after somebody was told that all of
\* them are done.
OneRunner ==
  /\ \A t, u \in Threads : {call[t], call[u]} \subseteq {"owner", "running"} => t = u
  /\ inHandler => \A t \in Threads : call[t] # "returned"

\* What the steps preserve, and the three properties above rest on: who runs the
\* handlers and for how long (shutdown.go:91), and how far the loop is in its copy
\* (:98-100).
OwnerInv ==
  /\ \A t, u \in Threads : {call[t], call[u]} \subseteq {"owner", "running"} => t = u
  /\ \A t \in Threads : /\ call[t] \in {"owner", "running"} => once = "busy"
                        /\ call[t] = "returned" => once = "done"
  /\ once # "new" => \E t \in Threads : call[t] # "none"
  /\ exit = "graceful" => \E t \in Threads : call[t] = "returned"

LoopInv ==
  /\ Len(snapshot) <= Len(handlers)
  /\ \A i \in 1 .. Len(snapshot) : snapshot[i] = handlers[i]
  /\ todo + Len(ran) = Len(snapshot)
  /\ \A i \in 1 .. Len(ran) : ran[i] = snapshot[Len(snapshot) + 1 - i]
  /\ inHandler => todo > 0 /\ \E t \in Threads : call[t] = "running"
  /\ once = "done" /\ ~panicked => todo = 0
  /\ once = "new" \/ (\E t \in Threads : call[t] = "owner") => snapshot = <<>>

DueInv ==
  /\ due \subseteq Registered
  /\ once = "done" \/ (\E t \in Threads : call[t] = "running") => due \subseteq ToSet(snapshot)

ShutdownInv == TypeOK /\ OwnerInv /\ LoopInv /\ DueInv

\* shutdown.go:80-89: the once, the copy, the loop and the watchers behave as one list
\* that is run backwards from one moment on, with everybody told afterwards.
Phase ==
  IF once = "done" THEN "over"
  ELSE IF \E t \in Threads : call[t] = "running" THEN "running" ELSE "open"

Plan == [i \in 1 .. todo |-> snapshot[todo + 1 - i]]
Waiting == {t \in Threads : call[t] \in {"entered", "owner", "running"}}
Told == {t \in Threads : call[t] = "returned"}
End == IF exit \in {"no", "graceful"} THEN exit ELSE "other"

Once == INSTANCE RunOnce WITH
  list <- handlers, phase <- Phase, plan <- Plan, waiting <- Waiting, told <- Told, end <- End

OnceSpec == Once!Spec

\* A signal that the package has asked for ends the process, even when a handler
\* hangs (shutdown.go:54 "Run shutdown handlers with timeout").
SignalEndsProcess ==
  \A w \in Watchers : (exit = "no" /\ sigChan[w] /\ watcher[w] = "waiting") ~> exit # "no"

\* A call of Shutdown comes back unless a handler hangs or the process ends.
CallsReturn ==
  \A t \in Threads :
    call[t] = "entered" ~> \/ call[t] = "returned"
                           \/ exit # "no"
                           \/ inHandler /\ snapshot[todo] \in Hanging

\* shutdown.go:80 "Register adds a handler to be run on shutdown": when the
\* process ends gracefully, every handler that Register accepted has run.
RegisteredHandlersRun ==
  exit = "graceful" /\ ~panicked => Registered \subseteq ToSet(ran)

=============================================================================
