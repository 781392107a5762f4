-------------------------------- MODULE App --------------------------------
(***************************************************************************)
(* app/app.go: New sets up the logger, the transport, the signal watcher   *)
(* and the filesystem package, in this order.  network.SetDefaults, the    *)
(* second step, may panic and be the last one, in a process that recovers  *)
(* and goes on, or calls New again.  app/logger/logger.go is the first     *)
(* step.  Inititalize panics if the system gives a umask that is negative  *)
(* or does not fit 32 bits, which none it is built for does.               *)
(***************************************************************************)
EXTENDS HttpTransport, Integers, Sequences

CONSTANTS Names,      \* arguments of New
          NoName,     \* "uninitialized"
          LogLevels,  \* values of LOG_LEVEL, as zerolog.ParseLevel gives them
          MaxNews     \* bound on the calls of New

ASSUME AppAssumption == NoName \notin Names /\ LogLevels \subseteq Int /\ MaxNews \in Nat

VARIABLES step,       \* how many steps of New are done
          argument,   \* its argument
          news,       \* calls of New so far
          started,    \* one has returned
          logger,     \* the levels of zerolog and slog
          watchers,   \* goroutines shutdown.SetDefaults has started
          name        \* filesystem.name, the last part of every location

startVars == <<step, argument, news, started, logger, watchers, name>>
appVars == <<transportVars, tripVars, startVars>>

\* zerolog's levels; slog counts in fours and has no level for trace.
Trace == -1
Debug == 0
Info == 1
Warn == 2
Error == 3
Fatal == 4
Panic == 5

\* Mutant: a level without an entry, as for Info.
ZerologToInfo(l) ==
  CASE l = Trace -> -8
    [] l = Warn -> 4
    [] l \in {Error, Fatal, Panic} -> 8
    [] OTHER -> 0

ZerologToSlog(l) ==
  CASE l = Trace -> -8
    [] l = Debug -> -4
    [] l = Warn -> 4
    [] l \in {Error, Fatal, Panic} -> 8
    [] OTHER -> 0

AppInit ==
  /\ HttpTransportInit
  /\ step = 0 /\ argument = NoName /\ news = 0 /\ started = FALSE
  /\ logger = [zerolog |-> Trace, slog |-> ZerologToSlog(Info)]
  /\ watchers = 0 /\ name = NoName

AppTypeOK ==
  /\ HttpTransportTypeOK
  /\ step \in 0 .. 4 /\ argument \in Names \cup {NoName}
  /\ news \in 0 .. MaxNews /\ started \in BOOLEAN
  /\ logger \in [zerolog : LogLevels \cup {Trace, Info}, slog : Int]
  /\ watchers \in Nat /\ name \in Names \cup {NoName}

-----------------------------------------------------------------------------
\* Mutant: the name first.
NameFirst == <<"filesystem", "logger", "network", "shutdown">>

\* Mutant: the watcher before what can panic.
ShutdownFirst == <<"logger", "shutdown", "network", "filesystem">>

\* The calls of New.
Order == <<"logger", "network", "shutdown", "filesystem">>

Calls(s) == step # 0 /\ Order[step] = s

\* After the last call New returns.
StepDone ==
  /\ step' = IF step = 4 THEN 0 ELSE step + 1
  /\ started' = (started \/ step = 4)
  /\ UNCHANGED <<argument, news, tripVars>>

New(n) ==
  /\ step = 0 /\ news < MaxNews
  /\ step' = 1 /\ news' = news + 1 /\ argument' = n
  /\ UNCHANGED <<transportVars, tripVars, started, logger, watchers, name>>

\* LOG_LEVEL is level l; Info stands for an empty or an invalid one too.
SetDefaultsForLogger(l) ==
  /\ Calls("logger")
  /\ logger' = [zerolog |-> l, slog |-> ZerologToSlog(l)]
  /\ StepDone
  /\ UNCHANGED <<transportVars, watchers, name>>

NetworkSetDefaults ==
  /\ Calls("network")
  /\ SetDefaults
  /\ StepDone
  /\ UNCHANGED <<logger, watchers, name>>

\* SetDefaults panics, and New ends.
NewPanics ==
  /\ Calls("network") /\ Tampered
  /\ step' = 0
  /\ UNCHANGED <<transportVars, tripVars, argument, news, started, logger, watchers, name>>

\* One more goroutine waits for a signal or for the end of ctx.
ShutdownSetDefaults ==
  /\ Calls("shutdown")
  /\ watchers' = watchers + 1
  /\ StepDone
  /\ UNCHANGED <<transportVars, logger, name>>

Inititalize ==
  /\ Calls("filesystem")
  /\ name' = argument
  /\ StepDone
  /\ UNCHANGED <<transportVars, logger, watchers>>

AppNext ==
  \/ HttpTransportNext /\ UNCHANGED startVars
  \/ \E n \in Names : New(n)
  \/ \E l \in LogLevels \cup {Info} : SetDefaultsForLogger(l)
  \/ NetworkSetDefaults \/ NewPanics \/ ShutdownSetDefaults \/ Inititalize

AppSpec == AppInit /\ [][AppNext]_appVars

-----------------------------------------------------------------------------
\* Between two calls of New all of the process is set up, once, or nothing that outlives
\* the call: a New that panics has neither started a watcher nor named the locations,
\* and a second New adds neither.
AllOrNothing ==
  step = 0 =>
    IF started THEN stored /\ watchers = 1 /\ name # NoName
    ELSE ~stored /\ watchers = 0 /\ name = NoName

\* Once New has returned, no later New moves the locations of the program, not even one
\* that panics, with the files of the first name in use.
NameSettled == [][started => name' = name]_appVars

\* At the levels that have a name, slog's own gate keeps back nothing that zerolog
\* would print, so that LOG_LEVEL means the same for both.
GatesAgree ==
  started /\ logger.zerolog \in Trace .. Panic =>
    \A z \in Debug .. Error : z >= logger.zerolog => (z - 1) * 4 >= logger.slog

=============================================================================
