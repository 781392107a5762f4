--------------------------- MODULE ShutdownProofs ---------------------------
(***************************************************************************)
(* What holds of Shutdown for any number of handlers, callers, watchers    *)
(* and signals.                                                            *)
(***************************************************************************)
EXTENDS Shutdown, SequenceTheorems, TLAPS

USE ShutdownAssumption

\* Nobody has registered, called or got a signal.
LEMMA InvInit == Init => ShutdownInv
<1> SUFFICES ASSUME Init PROVE ShutdownInv
  OBVIOUS
<1>1. TypeOK
  <2>1. inHandler \in BOOLEAN /\ panicked \in BOOLEAN
    BY DEF Init
  <2>2. sigChan \in [Watchers -> BOOLEAN]
    BY DEF Init
  <2> QED
    BY <2>1, <2>2 DEF Init, TypeOK
<1>2. OwnerInv
  BY DEF Init, OwnerInv
<1>3. LoopInv
  <2>1. inHandler = FALSE /\ once = "new" /\ todo = 0
    BY DEF Init
  <2> QED
    BY <2>1 DEF Init, LoopInv
<1>4. DueInv
  BY DEF Init, DueInv
<1> QED
  BY <1>1, <1>2, <1>3, <1>4 DEF ShutdownInv

-----------------------------------------------------------------------------
(* Steps outside Shutdown                                                  *)

\* The watchers, the timer, signals and exits leave Shutdown alone.
LEMMA OutsideSteps ==
  ASSUME ShutdownInv,
         \/ \E w \in Watchers : \/ SetDefaults(w) \/ Receive(w) \/ StopAndCancel(w)
                                \/ TimerFires(w) \/ Exit(w)
         \/ Signal
  PROVE  ShutdownInv'
<1>1. UNCHANGED <<handlers, call, once, snapshot, todo, inHandler, ran, panicked, due>>
  BY DEF SetDefaults, Receive, StopAndCancel, TimerFires, Exit, Signal, onceVars
<1>2. exit = "no" /\ (exit' = "graceful" => \E t \in Threads : call[t] = "returned")
  BY DEF SetDefaults, Receive, StopAndCancel, TimerFires, Exit, Signal, Threads
<1>3. TypeOK'
  <2>1. watcher' \in [Watchers -> {"none", "waiting", "received", "stopped", "cancelled",
                                   "selecting"}]
    BY DEF ShutdownInv, TypeOK, SetDefaults, Receive, StopAndCancel, TimerFires, Exit, Signal,
       watcherVars
  <2>2. sigChan' \in [Watchers -> BOOLEAN]
    BY DEF ShutdownInv, TypeOK, SetDefaults, Receive, StopAndCancel, TimerFires, Exit, Signal,
       watcherVars
  <2>3. timer' \in [Watchers -> {"off", "on", "fired"}]
    BY DEF ShutdownInv, TypeOK, SetDefaults, Receive, StopAndCancel, TimerFires, Exit, Signal,
       watcherVars
  <2>4. sent' \in 0 .. MaxSignals
    BY DEF ShutdownInv, TypeOK, SetDefaults, Receive, StopAndCancel, TimerFires, Exit, Signal,
       watcherVars
  <2>5. exit' \in {"no", "graceful", "timeout", "killed", "crashed"}
    BY DEF ShutdownInv, TypeOK, SetDefaults, Receive, StopAndCancel, TimerFires, Exit, Signal
  <2> QED
    BY <1>1, <2>1, <2>2, <2>3, <2>4, <2>5 DEF ShutdownInv, TypeOK
<1>4. OwnerInv'
  BY <1>1, <1>2 DEF ShutdownInv, OwnerInv
<1>5. LoopInv' /\ DueInv'
  BY <1>1 DEF ShutdownInv, LoopInv, DueInv, Registered
<1> QED
  BY <1>3, <1>4, <1>5 DEF ShutdownInv

\* Register makes the list longer, at its end.
LEMMA RegisterStep ==
  ASSUME ShutdownInv, NEW h \in Handlers, Register(h)
  PROVE  ShutdownInv'
<1>1. /\ handlers' = Append(handlers, h)
      /\ UNCHANGED <<call, once, snapshot, todo, inHandler, ran, panicked, watcher, sigChan,
                     timer, sent, exit, due>>
  BY DEF Register, onceVars, watcherVars
<1>2. handlers \in Seq(Handlers) /\ snapshot \in Seq(Handlers) /\ ran \in Seq(Handlers)
  BY DEF ShutdownInv, TypeOK
<1>3. /\ handlers' \in Seq(Handlers) /\ Len(handlers') = Len(handlers) + 1
      /\ \A i \in 1 .. Len(handlers) : handlers'[i] = handlers[i]
  BY <1>1, <1>2
<1>4. TypeOK'
  BY <1>1, <1>3 DEF ShutdownInv, TypeOK
<1>5. OwnerInv'
  BY <1>1 DEF ShutdownInv, OwnerInv
<1>6. LoopInv'
  <2>1. Len(snapshot) \in Nat /\ Len(snapshot) <= Len(handlers)
    BY <1>2 DEF ShutdownInv, LoopInv
  <2>2. Len(snapshot) <= Len(handlers')
    BY <1>2, <1>3, <2>1
  <2>3. \A i \in 1 .. Len(snapshot) : snapshot[i] = handlers'[i]
    BY <1>2, <1>3, <2>1 DEF ShutdownInv, LoopInv
  <2> QED
    BY <1>1, <2>2, <2>3 DEF ShutdownInv, LoopInv
<1>7. DueInv'
  <2>1. Registered \subseteq Registered'
    <3>1. \A i \in DOMAIN handlers : i \in DOMAIN handlers' /\ handlers'[i] = handlers[i]
      BY <1>2, <1>3
    <3> QED
      BY <3>1 DEF Registered, ToSet
  <2> QED
    BY <1>1, <2>1 DEF ShutdownInv, DueInv
<1> QED
  BY <1>4, <1>5, <1>6, <1>7 DEF ShutdownInv

\* A thread that calls Shutdown fixes what is due, if it is the first to call.
LEMMA EnterSteps ==
  ASSUME ShutdownInv, NEW t \in Threads,
         CallShutdown(t) \/ (t \in Watchers /\ Spawn(t))
  PROVE  ShutdownInv'
<1>1. /\ Enter(t)
      /\ UNCHANGED <<handlers, once, snapshot, todo, inHandler, ran, panicked, sigChan,
                     sent, exit>>
  BY DEF CallShutdown, Spawn, onceVars, watcherVars
<1>2. /\ watcher' \in [Watchers -> {"none", "waiting", "received", "stopped", "cancelled",
                                    "selecting"}]
      /\ timer' \in [Watchers -> {"off", "on", "fired"}]
  BY DEF CallShutdown, Spawn, watcherVars, ShutdownInv, TypeOK
<1>3. call \in [Threads -> {"none", "entered", "owner", "running", "returned"}]
  BY DEF ShutdownInv, TypeOK
<1>4. call[t] = "none" /\ call' = [call EXCEPT ![t] = "entered"]
  BY <1>1 DEF Enter
<1>5. due' \in {due, Registered} /\ (due' # due => \A u \in Threads : call[u] = "none")
  BY <1>1 DEF Enter
<1>6. Registered \in SUBSET Handlers
  BY DEF ShutdownInv, TypeOK, Registered, ToSet
<1>7. TypeOK'
  BY <1>1, <1>2, <1>3, <1>4, <1>5, <1>6 DEF ShutdownInv, TypeOK
<1>8. OwnerInv'
  BY <1>1, <1>3, <1>4 DEF ShutdownInv, OwnerInv
<1>9. LoopInv'
  BY <1>1, <1>3, <1>4 DEF ShutdownInv, LoopInv
<1>10. DueInv'
  <2>1. due' \subseteq Registered'
    BY <1>1, <1>5 DEF ShutdownInv, DueInv, Registered
  <2>2. due' # due => once = "new" /\ \A u \in Threads : call'[u] # "running"
    BY <1>3, <1>4, <1>5 DEF ShutdownInv, OwnerInv, TypeOK
  <2>3. \A u \in Threads : call'[u] = "running" => call[u] = "running"
    BY <1>3, <1>4
  <2> QED
    BY <1>1, <2>1, <2>2, <2>3 DEF ShutdownInv, DueInv
<1> QED
  BY <1>7, <1>8, <1>9, <1>10 DEF ShutdownInv

-----------------------------------------------------------------------------
(* Steps inside Shutdown                                                   *)

\* One thread gets the once, or learns that it is done.
LEMMA DoSteps ==
  ASSUME ShutdownInv, NEW t \in Threads, DoFirst(t) \/ DoAgain(t)
  PROVE  ShutdownInv'
<1>1. UNCHANGED <<handlers, snapshot, todo, inHandler, ran, panicked, watcher, sigChan,
                  timer, sent, exit, due>>
  BY DEF DoFirst, DoAgain, onceVars, watcherVars
<1>2. call \in [Threads -> {"none", "entered", "owner", "running", "returned"}]
  BY DEF ShutdownInv, TypeOK
<1>3. /\ call[t] = "entered"
      /\ \/ once = "new" /\ once' = "busy" /\ call' = [call EXCEPT ![t] = "owner"]
         \/ once = "done" /\ once' = once /\ call' = [call EXCEPT ![t] = "returned"]
  BY DEF DoFirst, DoAgain, onceVars
<1>4. TypeOK'
  BY <1>1, <1>2, <1>3 DEF ShutdownInv, TypeOK
<1>5. OwnerInv'
  BY <1>1, <1>2, <1>3 DEF ShutdownInv, OwnerInv
<1>6. \A u \in Threads : call'[u] = "running" <=> call[u] = "running"
  BY <1>2, <1>3
<1>7. LoopInv'
  <2>1. once' = "new" \/ (\E u \in Threads : call'[u] = "owner") => snapshot = <<>>
    BY <1>2, <1>3 DEF ShutdownInv, LoopInv
  <2>2. once' = "done" => once = "done"
    BY <1>3
  <2> QED
    BY <1>1, <1>6, <2>1, <2>2 DEF ShutdownInv, LoopInv
<1>8. DueInv'
  BY <1>1, <1>3, <1>6 DEF ShutdownInv, DueInv, Registered
<1> QED
  BY <1>4, <1>5, <1>7, <1>8 DEF ShutdownInv

\* The owner copies the list, before anything has run.
LEMMA CopyStep ==
  ASSUME ShutdownInv, NEW t \in Threads, Copy(t)
  PROVE  ShutdownInv'
<1>1. /\ UNCHANGED <<handlers, once, inHandler, ran, panicked, watcher, sigChan, timer, sent,
                     exit, due>>
      /\ call[t] = "owner" /\ call' = [call EXCEPT ![t] = "running"]
      /\ snapshot' = handlers /\ todo' = Len(handlers)
  BY DEF Copy, watcherVars
<1>2. /\ call \in [Threads -> {"none", "entered", "owner", "running", "returned"}]
      /\ handlers \in Seq(Handlers) /\ ran \in Seq(Handlers) /\ todo \in Nat
  BY DEF ShutdownInv, TypeOK
<1>3. once = "busy" /\ \A u \in Threads \ {t} : call[u] \notin {"owner", "running"}
  BY <1>1, <1>2 DEF ShutdownInv, OwnerInv
<1>4. TypeOK'
  BY <1>1, <1>2 DEF ShutdownInv, TypeOK
<1>5. OwnerInv'
  BY <1>1, <1>2, <1>3 DEF ShutdownInv, OwnerInv
<1>6. Len(ran) = 0 /\ ~inHandler
  <2>1. snapshot = <<>> /\ todo + Len(ran) = Len(snapshot)
    BY <1>1 DEF ShutdownInv, LoopInv
  <2>2. Len(ran) = 0
    BY <1>2, <2>1
  <2>3. ~inHandler
    BY <1>1, <1>3 DEF ShutdownInv, LoopInv
  <2> QED
    BY <2>2, <2>3
<1>7. LoopInv'
  <2>1. ~inHandler' /\ once' = "busy" /\ \A u \in Threads : call'[u] # "owner"
    BY <1>1, <1>2, <1>3, <1>6
  <2>2. /\ Len(snapshot') <= Len(handlers') /\ todo' + Len(ran') = Len(snapshot')
        /\ \A i \in 1 .. Len(snapshot') : snapshot'[i] = handlers'[i]
        /\ \A i \in 1 .. Len(ran') : ran'[i] = snapshot'[Len(snapshot') + 1 - i]
    BY <1>1, <1>2, <1>6
  <2> QED
    BY <2>1, <2>2 DEF LoopInv
<1>8. DueInv'
  BY <1>1 DEF ShutdownInv, DueInv, Registered
<1> QED
  BY <1>4, <1>5, <1>7, <1>8 DEF ShutdownInv

\* The loop calls a handler, and the handler returns.
LEMMA HandlerSteps ==
  ASSUME ShutdownInv, NEW t \in Threads, HandlerStarts(t) \/ HandlerReturns(t)
  PROVE  ShutdownInv'
<1>1. /\ UNCHANGED <<handlers, call, once, snapshot, panicked, watcher, sigChan, timer, sent,
                     exit, due>>
      /\ call[t] = "running" /\ todo > 0
  BY DEF HandlerStarts, HandlerReturns, watcherVars, ShutdownInv, LoopInv
<1>2. /\ snapshot \in Seq(Handlers) /\ ran \in Seq(Handlers) /\ todo \in Nat
  BY DEF ShutdownInv, TypeOK
<1>3. todo + Len(ran) = Len(snapshot) /\ todo \in 1 .. Len(snapshot)
  BY <1>1, <1>2 DEF ShutdownInv, LoopInv
<1>4. once = "busy"
  BY <1>1 DEF ShutdownInv, OwnerInv
<1>5. OwnerInv' /\ DueInv'
  BY <1>1 DEF ShutdownInv, OwnerInv, DueInv, Registered
<1>6. CASE HandlerStarts(t)
  <2>1. inHandler' = TRUE /\ UNCHANGED <<todo, ran>>
    BY <1>6 DEF HandlerStarts
  <2>2. TypeOK'
    BY <1>1, <2>1 DEF ShutdownInv, TypeOK
  <2>3. LoopInv'
    BY <1>1, <2>1 DEF ShutdownInv, LoopInv
  <2> QED
    BY <1>5, <2>2, <2>3 DEF ShutdownInv
<1>7. CASE HandlerReturns(t)
  <2>1. inHandler' = FALSE /\ ran' = Append(ran, snapshot[todo]) /\ todo' = todo - 1
    BY <1>7 DEF HandlerReturns
  <2>2. snapshot[todo] \in Handlers
    BY <1>2, <1>3
  <2>3. /\ ran' \in Seq(Handlers) /\ Len(ran') = Len(ran) + 1
        /\ \A i \in 1 .. Len(ran) : ran'[i] = ran[i]
        /\ ran'[Len(ran) + 1] = snapshot[todo]
    BY <1>2, <2>1, <2>2
  <2>4. TypeOK'
    <3>1. todo' \in Nat
      BY <1>2, <1>3, <2>1
    <3>2. inHandler' \in BOOLEAN
      BY <2>1
    <3> QED
      BY <1>1, <2>3, <3>1, <3>2 DEF ShutdownInv, TypeOK
  <2>5. todo' + Len(ran') = Len(snapshot)
    <3>1. Len(ran) \in Nat /\ Len(ran') = Len(ran) + 1 /\ todo' = todo - 1
      BY <1>2, <2>1, <2>3
    <3>2. (todo - 1) + (Len(ran) + 1) = todo + Len(ran)
      BY <1>2, <3>1
    <3> QED
      BY <1>3, <3>1, <3>2
  <2>6. \A i \in 1 .. Len(ran') : ran'[i] = snapshot[Len(snapshot) + 1 - i]
    <3> SUFFICES ASSUME NEW i \in 1 .. Len(ran')
                 PROVE  ran'[i] = snapshot[Len(snapshot) + 1 - i]
      OBVIOUS
    <3>1. CASE i \in 1 .. Len(ran)
      BY <2>3, <3>1 DEF ShutdownInv, LoopInv
    <3>2. CASE i = Len(ran) + 1
      <4>1. Len(snapshot) + 1 - i = todo
        BY <1>2, <1>3, <3>2
      <4> QED
        BY <2>3, <3>2, <4>1
    <3> QED
      BY <1>2, <2>3, <3>1, <3>2
  <2>7. LoopInv'
    BY <1>1, <1>4, <2>1, <2>5, <2>6 DEF ShutdownInv, LoopInv
  <2> QED
    BY <1>5, <2>4, <2>7 DEF ShutdownInv
<1> QED
  BY <1>6, <1>7

\* The loop is over, or a handler has panicked: the once is done.
LEMMA LeaveSteps ==
  ASSUME ShutdownInv, NEW t \in Threads, DoReturns(t) \/ HandlerPanics(t)
  PROVE  ShutdownInv'
<1>1. /\ UNCHANGED <<handlers, snapshot, todo, ran, watcher, sigChan, timer, sent, due>>
      /\ call[t] = "running" /\ call' = [call EXCEPT ![t] = "returned"]
      /\ once' = "done"
  BY DEF DoReturns, HandlerPanics, watcherVars
<1>2. exit = "no" /\ exit' \in {"no", "crashed"}
  BY DEF DoReturns, HandlerPanics
<1>3. inHandler' = FALSE
  <2>1. CASE DoReturns(t)
    BY <2>1 DEF DoReturns, ShutdownInv, TypeOK
  <2>2. CASE HandlerPanics(t)
    BY <2>2 DEF HandlerPanics
  <2> QED
    BY <2>1, <2>2
<1>4. panicked' \in BOOLEAN /\ (todo = 0 \/ panicked')
  <2>1. CASE DoReturns(t)
    BY <2>1 DEF DoReturns, ShutdownInv, TypeOK
  <2>2. CASE HandlerPanics(t)
    BY <2>2 DEF HandlerPanics
  <2> QED
    BY <2>1, <2>2
<1>5. call \in [Threads -> {"none", "entered", "owner", "running", "returned"}]
  BY DEF ShutdownInv, TypeOK
<1>6. \A u \in Threads \ {t} : call[u] \notin {"owner", "running"}
  BY <1>1, <1>5 DEF ShutdownInv, OwnerInv
<1>7. \A u \in Threads : call'[u] \notin {"owner", "running"}
  BY <1>1, <1>5, <1>6
<1>8. TypeOK'
  <2>1. call' \in [Threads -> {"none", "entered", "owner", "running", "returned"}]
    BY <1>1, <1>5
  <2>2. inHandler' \in BOOLEAN
    BY <1>3
  <2> QED
    BY <1>1, <1>2, <1>4, <2>1, <2>2 DEF ShutdownInv, TypeOK
<1>9. OwnerInv'
  <2>1. \E u \in Threads : call'[u] # "none"
    BY <1>1, <1>5
  <2> QED
    BY <1>1, <1>2, <1>7, <2>1 DEF OwnerInv
<1>10. LoopInv'
  BY <1>1, <1>3, <1>4, <1>7 DEF ShutdownInv, LoopInv
<1>11. DueInv'
  BY <1>1 DEF ShutdownInv, DueInv, Registered
<1> QED
  BY <1>8, <1>9, <1>10, <1>11 DEF ShutdownInv

-----------------------------------------------------------------------------
\* Every step preserves the invariant.
LEMMA InvStep == ShutdownInv /\ [Next]_vars => ShutdownInv'
<1> SUFFICES ASSUME ShutdownInv, [Next]_vars PROVE ShutdownInv'
  OBVIOUS
<1>1. CASE UNCHANGED vars
  BY <1>1 DEF vars, onceVars, watcherVars, ShutdownInv, TypeOK, OwnerInv, LoopInv, DueInv,
     Registered
<1>2. CASE \E h \in Handlers : Register(h)
  BY <1>2, RegisterStep
<1>3. CASE \E c \in Callers : CallShutdown(c)
  <2>1. PICK c \in Callers : CallShutdown(c)
    BY <1>3
  <2> QED
    BY <2>1, EnterSteps DEF Threads
<1>4. CASE \E t \in Threads : InShutdown(t) \/ HandlerPanics(t)
  BY <1>4, DoSteps, CopyStep, HandlerSteps, LeaveSteps DEF InShutdown
<1>5. CASE \E w \in Watchers : SetDefaults(w) \/ Watch(w) \/ TimerFires(w)
  BY <1>5, OutsideSteps, EnterSteps DEF Watch, Threads
<1>6. CASE Signal
  BY <1>6, OutsideSteps
<1> QED
  BY <1>1, <1>2, <1>3, <1>4, <1>5, <1>6 DEF Next

-----------------------------------------------------------------------------
\* ShutdownInv: one thread runs the handlers, and what has run is the end of its
\* copy, backwards.
THEOREM InvariantHolds == Spec => []ShutdownInv
  BY InvInit, InvStep, PTL DEF Spec

\* ReverseOrderOnce: whoever calls, whatever is registered meanwhile and however
\* the process ends, handlers run backwards and once.
THEOREM ReverseOrderOnceHolds == Spec => []ReverseOrderOnce
<1>1. ShutdownInv => ReverseOrderOnce
  <2> SUFFICES ASSUME ShutdownInv PROVE ReverseOrderOnce
    OBVIOUS
  <2>1. /\ handlers \in Seq(Handlers) /\ snapshot \in Seq(Handlers) /\ ran \in Seq(Handlers)
        /\ todo \in Nat
    BY DEF ShutdownInv, TypeOK
  <2>2. Len(snapshot) \in 0 .. Len(handlers) /\ Len(ran) <= Len(snapshot)
    BY <2>1 DEF ShutdownInv, LoopInv
  <2>3. ASSUME NEW i \in 1 .. Len(ran) PROVE ran[i] = handlers[Len(snapshot) + 1 - i]
    <3>1. Len(snapshot) + 1 - i \in 1 .. Len(snapshot)
      BY <2>1, <2>2
    <3> QED
      BY <3>1 DEF ShutdownInv, LoopInv
  <2> QED
    BY <2>2, <2>3 DEF ReverseOrderOnce
<1> QED
  BY <1>1, InvariantHolds, PTL

\* ReturnedMeansRun: unless a handler panics, no call of Shutdown and no graceful
\* exit comes before everything that was due has run.
THEOREM ReturnedMeansRunHolds == Spec => []ReturnedMeansRun
<1>1. ShutdownInv => ReturnedMeansRun
  <2> SUFFICES ASSUME ShutdownInv, ~panicked,
                      exit = "graceful" \/ \E t \in Threads : call[t] = "returned"
               PROVE  due \subseteq ToSet(ran)
    BY DEF ReturnedMeansRun
  <2>1. once = "done"
    BY DEF ShutdownInv, OwnerInv
  <2>2. /\ snapshot \in Seq(Handlers) /\ ran \in Seq(Handlers)
        /\ todo = 0 /\ todo + Len(ran) = Len(snapshot)
    BY <2>1 DEF ShutdownInv, TypeOK, LoopInv
  <2>3. Len(ran) = Len(snapshot)
    BY <2>2
  <2>4. ASSUME NEW i \in 1 .. Len(snapshot) PROVE snapshot[i] \in ToSet(ran)
    <3>1. Len(snapshot) + 1 - i \in 1 .. Len(ran)
      BY <2>2, <2>3
    <3>2. ran[Len(snapshot) + 1 - i] = snapshot[Len(snapshot) + 1 - (Len(snapshot) + 1 - i)]
      BY <3>1 DEF ShutdownInv, LoopInv
    <3>3. Len(snapshot) + 1 - (Len(snapshot) + 1 - i) = i
      BY <2>2
    <3> QED
      BY <2>2, <3>1, <3>2, <3>3 DEF ToSet
  <2>5. due \subseteq ToSet(snapshot)
    BY <2>1 DEF ShutdownInv, DueInv
  <2> QED
    BY <2>2, <2>4, <2>5 DEF ToSet
<1> QED
  BY <1>1, InvariantHolds, PTL

\* OneRunner: handlers never overlap, and none runs once a call has returned.
THEOREM OneRunnerHolds == Spec => []OneRunner
<1>1. ShutdownInv => OneRunner
  <2> SUFFICES ASSUME ShutdownInv PROVE OneRunner
    OBVIOUS
  <2>1. inHandler => \E t \in Threads : call[t] = "running"
    BY DEF ShutdownInv, LoopInv
  <2> QED
    BY <2>1 DEF ShutdownInv, OwnerInv, OneRunner
<1> QED
  BY <1>1, InvariantHolds, PTL

-----------------------------------------------------------------------------
(* The shutdown implements RunOnce                                         *)

\* The first n members of a sequence, backwards: the head is the last of them, and
\* the tail is the first n - 1 backwards.
FirstBackwards(s, n) == [i \in 1 .. n |-> s[n + 1 - i]]

LEMMA Backwards ==
  ASSUME NEW S, NEW s \in Seq(S), NEW n \in Nat, n <= Len(s)
  PROVE  /\ n = 0 => FirstBackwards(s, n) = <<>>
         /\ n > 0 => /\ FirstBackwards(s, n) # <<>>
                     /\ Head(FirstBackwards(s, n)) = s[n]
                     /\ Tail(FirstBackwards(s, n)) = FirstBackwards(s, n - 1)
<1> DEFINE p == FirstBackwards(s, n)
           q == FirstBackwards(s, n - 1)
<1> USE DEF FirstBackwards
<1>1. ASSUME NEW i \in 1 .. n PROVE s[n + 1 - i] \in S
  <2>1. n + 1 - i \in 1 .. Len(s)
    OBVIOUS
  <2> QED
    BY <2>1
<1>2. p \in Seq(S) /\ Len(p) = n
  BY <1>1
<1>3. n = 0 => p = <<>>
  BY <1>2, EmptySeq
<1>4. ASSUME n > 0 PROVE p # <<>> /\ Head(p) = s[n] /\ Tail(p) = q
  <2>1. p # <<>> /\ Head(p) = p[1]
    <3> HIDE DEF p
    <3>1. Len(p) # 0
      BY <1>2, <1>4
    <3>2. p # <<>>
      BY <1>2, <3>1, EmptySeq
    <3> QED
      BY <1>2, <3>2
  <2>2. p[1] = s[n]
    BY <1>4
  <2>3. Len(p) - 1 = n - 1
    BY <1>2
  <2>4. Tail(p) = [i \in 1 .. n - 1 |-> p[i + 1]]
    BY <1>2, <1>4, <2>3
  <2>5. ASSUME NEW i \in 1 .. n - 1 PROVE p[i + 1] = s[(n - 1) + 1 - i]
    <3>1. i + 1 \in 1 .. n /\ n + 1 - (i + 1) = (n - 1) + 1 - i
      BY <1>4
    <3> QED
      BY <3>1
  <2> HIDE DEF p
  <2>6. Tail(p) = q
    BY <2>4, <2>5
  <2> QED
    BY <2>1, <2>2, <2>6
<1> QED
  BY <1>2, <1>3, <1>4

\* What that says of what is still to be run.
LEMMA PlanSeq ==
  ASSUME ShutdownInv
  PROVE  /\ snapshot \in Seq(Handlers) /\ todo \in Nat /\ todo <= Len(snapshot)
         /\ todo = 0 => Plan = <<>>
         /\ todo > 0 => /\ Plan # <<>> /\ Head(Plan) = snapshot[todo]
                        /\ Tail(Plan) = FirstBackwards(snapshot, todo - 1)
<1>1. snapshot \in Seq(Handlers) /\ ran \in Seq(Handlers) /\ todo \in Nat
  BY DEF ShutdownInv, TypeOK
<1>2. todo + Len(ran) = Len(snapshot)
  BY DEF ShutdownInv, LoopInv
<1>3. todo <= Len(snapshot)
  BY <1>1, <1>2
<1>4. Plan = FirstBackwards(snapshot, todo)
  BY DEF Plan, FirstBackwards
<1> QED
  BY <1>1, <1>3, <1>4, Backwards

\* While some thread runs the handlers the phase is "running"; it is "open" before
\* and "over" once somebody has been told.
LEMMA PhaseOf ==
  ASSUME ShutdownInv
  PROVE  /\ \A t \in Threads : call[t] = "running" => Phase = "running" /\ once = "busy"
         /\ \A t \in Threads : call[t] = "owner" => Phase = "open" /\ once = "busy"
         /\ once = "done" => Phase = "over"
         /\ once = "new" => Phase = "open"
  BY DEF ShutdownInv, OwnerInv, Phase

\* Nothing has been registered, asked for or run.
LEMMA OnceInit == Init => Once!Init
<1> SUFFICES ASSUME Init PROVE Once!Init
  OBVIOUS
<1>1. ShutdownInv
  BY InvInit
<1>2. Plan = <<>> /\ Phase = "open"
  BY <1>1, PlanSeq, PhaseOf DEF Init
<1>3. Waiting = {} /\ Told = {} /\ End = "no"
  BY DEF Init, Waiting, Told, End
<1> QED
  BY <1>2, <1>3 DEF Init, Once!Init

\* The watchers and the timer are not seen, until the process ends.
LEMMA OnceOutside ==
  ASSUME ShutdownInv,
         \/ \E w \in Watchers : \/ SetDefaults(w) \/ Receive(w) \/ StopAndCancel(w)
                                \/ TimerFires(w) \/ Exit(w)
         \/ Signal
  PROVE  Once!EndProcess \/ UNCHANGED Once!vars
<1>1. UNCHANGED <<handlers, call, once, snapshot, todo, ran>>
  BY DEF SetDefaults, Receive, StopAndCancel, TimerFires, Exit, Signal, onceVars
<1>2. UNCHANGED <<handlers, Phase, Plan, ran, Waiting, Told>>
  BY <1>1 DEF Phase, Plan, Waiting, Told
<1>3. /\ exit = "no"
      /\ \/ exit' \in {"no", "timeout", "killed"}
         \/ exit' = "graceful" /\ \E t \in Threads : call[t] = "returned"
  BY DEF SetDefaults, Receive, StopAndCancel, TimerFires, Exit, Signal, Threads
<1>4. End = "no" /\ (End' \in {"no", "other"} \/ (End' = "graceful" /\ Told # {}))
  BY <1>3 DEF End, Told
<1> QED
  BY <1>2, <1>4 DEF Once!EndProcess, Once!vars

\* Whoever registers is on the list; whoever calls asks.
LEMMA OnceRegister ==
  ASSUME ShutdownInv, NEW h \in Handlers, Register(h)
  PROVE  Once!Register(h)
<1>1. UNCHANGED <<call, once, snapshot, todo, ran, exit>>
  BY DEF Register, onceVars
<1>2. UNCHANGED <<Phase, Plan, Waiting, Told, End>>
  BY <1>1 DEF Phase, Plan, Waiting, Told, End
<1>3. End = "no"
  BY DEF Register, End
<1> QED
  BY <1>1, <1>2, <1>3 DEF Register, Registered, ToSet, Once!ToSet, Once!Register

LEMMA OnceEnter ==
  ASSUME ShutdownInv, NEW t \in Threads,
         CallShutdown(t) \/ (t \in Watchers /\ Spawn(t))
  PROVE  Once!Ask(t)
<1>1. /\ UNCHANGED <<handlers, once, snapshot, todo, ran, exit>>
      /\ exit = "no" /\ call[t] = "none" /\ call' = [call EXCEPT ![t] = "entered"]
  BY DEF CallShutdown, Spawn, Enter, onceVars
<1>2. call \in [Threads -> {"none", "entered", "owner", "running", "returned"}]
  BY DEF ShutdownInv, TypeOK
<1>3. UNCHANGED <<Plan, End>> /\ End = "no"
  BY <1>1 DEF Plan, End
<1>4. UNCHANGED Phase
  <2>1. (\E u \in Threads : call'[u] = "running") <=> \E u \in Threads : call[u] = "running"
    BY <1>1, <1>2
  <2> QED
    BY <1>1, <2>1 DEF Phase
<1>5. t \notin Waiting \cup Told /\ Waiting' = Waiting \cup {t} /\ Told' = Told
  BY <1>1, <1>2 DEF Waiting, Told
<1> QED
  BY <1>1, <1>3, <1>4, <1>5 DEF Once!Ask

\* The once is taken unseen; with it done, a caller is told.
LEMMA OnceDo ==
  ASSUME ShutdownInv, ShutdownInv', NEW t \in Threads, DoFirst(t) \/ DoAgain(t)
  PROVE  UNCHANGED Once!vars \/ Once!TellLater(t)
<1>1. UNCHANGED <<handlers, snapshot, todo, ran, exit>> /\ exit = "no"
  BY DEF DoFirst, DoAgain, onceVars
<1>2. call \in [Threads -> {"none", "entered", "owner", "running", "returned"}]
  BY DEF ShutdownInv, TypeOK
<1>3. UNCHANGED <<Plan, End>> /\ End = "no"
  BY <1>1 DEF Plan, End
<1>4. CASE DoFirst(t)
  <2>1. /\ call[t] = "entered" /\ call' = [call EXCEPT ![t] = "owner"]
        /\ once = "new" /\ once' = "busy"
    BY <1>4 DEF DoFirst
  <2>2. call'[t] = "owner"
    BY <1>2, <2>1
  <2>3. Phase = "open" /\ Phase' = "open"
    BY <2>1, <2>2, PhaseOf DEF ShutdownInv, OwnerInv, Phase
  <2>4. Waiting' = Waiting /\ Told' = Told
    BY <1>2, <2>1 DEF Waiting, Told
  <2> QED
    BY <1>1, <1>3, <2>3, <2>4 DEF Once!vars
<1>5. CASE DoAgain(t)
  <2>1. /\ call[t] = "entered" /\ call' = [call EXCEPT ![t] = "returned"]
        /\ once = "done" /\ once' = "done"
    BY <1>5 DEF DoAgain, onceVars
  <2>2. Phase = "over" /\ Phase' = "over"
    BY <2>1 DEF Phase
  <2>3. t \in Waiting /\ Waiting' = Waiting \ {t} /\ Told' = Told \cup {t}
    BY <1>2, <2>1 DEF Waiting, Told
  <2> QED
    BY <1>1, <1>3, <2>2, <2>3 DEF Once!TellLater, Once!Tell
<1> QED
  BY <1>4, <1>5

\* The copy is the moment from which on the list runs backwards.
LEMMA OnceCopy ==
  ASSUME ShutdownInv, ShutdownInv', NEW t \in Threads, Copy(t)
  PROVE  Once!Begin
<1>1. /\ UNCHANGED <<handlers, once, ran, exit>> /\ exit = "no"
      /\ call[t] = "owner" /\ call' = [call EXCEPT ![t] = "running"]
      /\ snapshot' = handlers /\ todo' = Len(handlers)
  BY DEF Copy
<1>2. /\ call \in [Threads -> {"none", "entered", "owner", "running", "returned"}]
      /\ handlers \in Seq(Handlers)
  BY DEF ShutdownInv, TypeOK
<1>3. call'[t] = "running" /\ once = "busy"
  BY <1>1, <1>2, PhaseOf
<1>4. Phase = "open"
  BY <1>1, PhaseOf
<1>5. Phase' = "running"
  BY <1>1, <1>3 DEF Phase
<1>6. t \in Waiting /\ Waiting' = Waiting /\ Told' = Told
  BY <1>1, <1>2 DEF Waiting, Told
<1>7. Plan' = Reverse(handlers)
  <2>1. Plan' = [i \in 1 .. Len(handlers) |-> handlers[Len(handlers) + 1 - i]]
    BY <1>1 DEF Plan
  <2>2. Reverse(handlers) = [i \in 1 .. Len(handlers) |-> handlers[(Len(handlers) - i) + 1]]
    BY DEF Reverse
  <2>3. Len(handlers) \in Nat
    BY <1>2
  <2>4. \A i \in 1 .. Len(handlers) : Len(handlers) + 1 - i = (Len(handlers) - i) + 1
    BY <2>3
  <2> QED
    BY <2>1, <2>2, <2>4, Zenon
<1>8. End = "no" /\ End' = End
  BY <1>1 DEF End
<1> QED
  BY <1>1, <1>4, <1>5, <1>6, <1>7, <1>8 DEF Reverse, Once!Reverse, Once!Begin

\* A handler that returns was the next of the plan.
LEMMA OnceHandler ==
  ASSUME ShutdownInv, ShutdownInv', NEW t \in Threads, HandlerStarts(t) \/ HandlerReturns(t)
  PROVE  UNCHANGED Once!vars \/ Once!RunNext
<1>1. /\ UNCHANGED <<handlers, call, once, snapshot, exit>> /\ exit = "no"
      /\ call[t] = "running"
  BY DEF HandlerStarts, HandlerReturns
<1>2. UNCHANGED <<Phase, Waiting, Told, End>> /\ End = "no"
  BY <1>1 DEF Phase, Waiting, Told, End
<1>3. CASE HandlerStarts(t)
  <2>1. UNCHANGED <<todo, ran>>
    BY <1>3 DEF HandlerStarts
  <2>2. UNCHANGED Plan
    BY <1>1, <2>1 DEF Plan
  <2> QED
    BY <1>1, <1>2, <2>1, <2>2 DEF Once!vars
<1>4. CASE HandlerReturns(t)
  <2>1. inHandler /\ ran' = Append(ran, snapshot[todo]) /\ todo' = todo - 1
    BY <1>4 DEF HandlerReturns
  <2>2. todo > 0
    BY <2>1 DEF ShutdownInv, LoopInv
  <2>3. Plan' = FirstBackwards(snapshot, todo - 1)
    BY <1>1, <2>1 DEF Plan, FirstBackwards
  <2>4. Plan # <<>> /\ Head(Plan) = snapshot[todo] /\ Plan' = Tail(Plan)
    BY <2>2, <2>3, PlanSeq
  <2>5. Phase = "running"
    BY <1>1, PhaseOf
  <2> QED
    BY <1>1, <1>2, <2>1, <2>4, <2>5 DEF Once!RunNext
<1> QED
  BY <1>3, <1>4

\* The thread that ran them is told first, also when it was a panic that ended it.
LEMMA OnceLeave ==
  ASSUME ShutdownInv, ShutdownInv', NEW t \in Threads, DoReturns(t) \/ HandlerPanics(t)
  PROVE  Once!Finish(t) \/ Once!Panic(t)
<1>1. /\ UNCHANGED <<handlers, snapshot, todo, ran>> /\ exit = "no"
      /\ call[t] = "running" /\ call' = [call EXCEPT ![t] = "returned"]
      /\ once' = "done"
  BY DEF DoReturns, HandlerPanics
<1>2. call \in [Threads -> {"none", "entered", "owner", "running", "returned"}]
  BY DEF ShutdownInv, TypeOK
<1>3. Phase = "running" /\ Phase' = "over" /\ UNCHANGED Plan
  BY <1>1, PhaseOf DEF Phase, Plan
<1>4. Once!Tell(t)
  <2>1. t \in Waiting /\ Waiting' = Waiting \ {t} /\ Told' = Told \cup {t}
    BY <1>1, <1>2 DEF Waiting, Told
  <2> QED
    BY <2>1 DEF Once!Tell
<1>5. End = "no"
  BY <1>1 DEF End
<1>6. CASE DoReturns(t)
  <2>1. todo = 0 /\ UNCHANGED exit
    BY <1>6 DEF DoReturns
  <2>2. Plan = <<>> /\ UNCHANGED End
    BY <2>1, PlanSeq DEF End
  <2> QED
    BY <1>1, <1>3, <1>4, <1>5, <2>2 DEF Once!Finish
<1>7. CASE HandlerPanics(t)
  <2>1. inHandler /\ (exit' = "crashed" \/ UNCHANGED exit)
    BY <1>7 DEF HandlerPanics
  <2>2. todo > 0
    BY <2>1 DEF ShutdownInv, LoopInv
  <2>3. Plan # <<>>
    BY <2>2, PlanSeq
  <2>4. End' \in {"no", "other"}
    BY <1>1, <2>1 DEF End
  <2> QED
    BY <1>1, <1>3, <1>4, <1>5, <2>3, <2>4 DEF Once!Panic
<1> QED
  BY <1>6, <1>7

\* Every step is one of RunOnce, or is not seen there.
LEMMA OnceStep == ShutdownInv /\ ShutdownInv' /\ [Next]_vars => [Once!Next]_(Once!vars)
<1> SUFFICES ASSUME ShutdownInv, ShutdownInv', [Next]_vars
             PROVE  Once!Next \/ UNCHANGED Once!vars
  OBVIOUS
<1>1. CASE UNCHANGED vars
  BY <1>1 DEF vars, onceVars, Once!vars, Phase, Plan, Waiting, Told, End
<1>2. CASE \E h \in Handlers : Register(h)
  BY <1>2, OnceRegister DEF Once!Next
<1>3. CASE \E c \in Callers : CallShutdown(c)
  <2>1. PICK c \in Callers : CallShutdown(c)
    BY <1>3
  <2>2. c \in Threads /\ Once!Ask(c)
    BY <2>1, OnceEnter DEF Threads
  <2> QED
    BY <2>2 DEF Once!Next
<1>4. CASE \E t \in Threads : InShutdown(t) \/ HandlerPanics(t)
  <2>1. PICK t \in Threads : InShutdown(t) \/ HandlerPanics(t)
    BY <1>4
  <2>2. CASE DoFirst(t) \/ DoAgain(t)
    BY <2>2, OnceDo DEF Once!Next
  <2>3. CASE Copy(t)
    BY <2>3, OnceCopy DEF Once!Next
  <2>4. CASE HandlerStarts(t) \/ HandlerReturns(t)
    BY <2>4, OnceHandler DEF Once!Next
  <2>5. CASE DoReturns(t) \/ HandlerPanics(t)
    BY <2>5, OnceLeave DEF Once!Next
  <2> QED
    BY <2>1, <2>2, <2>3, <2>4, <2>5 DEF InShutdown
<1>5. CASE \E w \in Watchers : SetDefaults(w) \/ Watch(w) \/ TimerFires(w)
  <2>1. PICK w \in Watchers : SetDefaults(w) \/ Watch(w) \/ TimerFires(w)
    BY <1>5
  <2>2. CASE Spawn(w)
    <3>1. w \in Threads /\ Once!Ask(w)
      BY <2>2, OnceEnter DEF Threads
    <3> QED
      BY <3>1 DEF Once!Next
  <2>3. CASE SetDefaults(w) \/ Receive(w) \/ StopAndCancel(w) \/ TimerFires(w) \/ Exit(w)
    BY <2>3, OnceOutside DEF Once!Next
  <2> QED
    BY <2>1, <2>2, <2>3 DEF Watch
<1>6. CASE Signal
  BY <1>6, OnceOutside DEF Once!Next
<1> QED
  BY <1>1, <1>2, <1>3, <1>4, <1>5, <1>6 DEF Next

\* OnceSpec: for any number of callers, watchers, handlers and signals, the package
\* runs one list backwards, once, and tells everybody afterwards.
THEOREM ShutdownImplementsRunOnce == Spec => OnceSpec
  BY OnceInit, OnceStep, InvariantHolds, PTL DEF Spec, OnceSpec, Once!Spec

=============================================================================
