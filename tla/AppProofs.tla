----------------------------- MODULE AppProofs -----------------------------
(***************************************************************************)
(* What holds of App and HttpTransport for any number of transports,       *)
(* requests, goroutines and calls of New.                                  *)
(***************************************************************************)
EXTENDS App, TLAPS

USE HttpTransportAssumption, AppAssumption

\* Each transport has a configuration of its own, and each trip the right header.
TransportInv ==
  /\ HttpTransportTypeOK
  /\ \A t \in Trippers : tls[t] = t
  /\ ClonesIndependent
  /\ changed \subseteq made
  /\ Default \in made <=> stored
  /\ stored <=> default = "wrapped"

TripInv ==
  /\ \A r \in Requests : header[r] = r
  /\ \A g \in Goroutines :
       trip[g] # Idle =>
         /\ trip[g].cloned <=> trip[g].token # NoToken
         /\ trip[g].auth = IF trip[g].token # NoToken THEN trip[g].token ELSE trip[g].req

\* How far the first New that does not panic is.
StepInv ==
  /\ step \in 0 .. 4
  /\ watchers \in Nat /\ started \in BOOLEAN
  /\ step # 0 => argument \in Names
  /\ IF started THEN step <= 2 /\ stored /\ watchers = 1 /\ name # NoName
     ELSE /\ stored <=> step > 2
          /\ watchers = IF step = 4 THEN 1 ELSE 0
          /\ name = NoName

\* slog's level goes with zerolog's.
LoggerInv ==
  started \/ step > 1 => logger.zerolog \in Int /\ logger.slog = ZerologToSlog(logger.zerolog)

AppInv == TransportInv /\ TripInv /\ StepInv /\ LoggerInv

LEMMA InvInit == AppInit => AppInv
<1> SUFFICES ASSUME AppInit PROVE AppInv
  OBVIOUS
<1> USE DEF AppInit, HttpTransportInit
<1>1. TransportInv
  BY DEF TransportInv, HttpTransportTypeOK, ClonesIndependent, Trippers
<1>2. TripInv
  BY DEF TripInv
<1>3. StepInv
  <2>1. step = 0 /\ watchers = 0 /\ name = NoName
    OBVIOUS
  <2>2. started \in BOOLEAN /\ ~started /\ ~stored
    OBVIOUS
  <2>3. ~(step > 2) /\ step # 4
    BY <2>1
  <2> QED
    BY <2>1, <2>2, <2>3 DEF StepInv
<1>4. LoggerInv
  BY DEF LoggerInv
<1> QED
  BY <1>1, <1>2, <1>3, <1>4 DEF AppInv

-----------------------------------------------------------------------------
LEMMA NewTransportStep ==
  ASSUME TransportInv, NEW t \in Trippers, NewTransport(t)
  PROVE  TransportInv'
  BY DEF TransportInv, HttpTransportTypeOK, ClonesIndependent, Trippers, NewTransport,
         NewTLSConfig, tripVars, Trip, Idle

LEMMA ChangeConfigStep ==
  ASSUME TransportInv, NEW t \in Trippers, ChangeConfig(t)
  PROVE  TransportInv'
  BY DEF TransportInv, HttpTransportTypeOK, ClonesIndependent, Trippers, ChangeConfig,
         tripVars, Trip, Idle

LEMMA SetTokenStep ==
  ASSUME TransportInv, NEW t \in Trippers, NEW k \in Tokens \cup {NoToken}, SetToken(t, k)
  PROVE  TransportInv'
  BY DEF TransportInv, HttpTransportTypeOK, ClonesIndependent, Trippers, SetToken,
         tripVars, Trip, Idle

\* The default transport is configured once, before anybody has changed it.
LEMMA SetDefaultsStep ==
  ASSUME TransportInv, SetDefaults, UNCHANGED tripVars
  PROVE  TransportInv' /\ stored' /\ ~stored
  BY DEF TransportInv, HttpTransportTypeOK, ClonesIndependent, Trippers, SetDefaults,
         Tampered, tripVars, Trip, Idle

\* A trip that begins: the token is in a clone of the request.
LEMMA RoundTripStep ==
  ASSUME TransportInv, TripInv, NEW g \in Goroutines, NEW t \in Trippers, NEW r \in Requests,
         RoundTrip(g, t, r)
  PROVE  TransportInv' /\ TripInv'
<1> DEFINE new == [at |-> "sending", via |-> t, token |-> token[t], req |-> r,
                   cloned |-> token[t] # NoToken,
                   auth |-> IF token[t] # NoToken THEN token[t] ELSE header[r]]
<1>1. new \in Trip /\ new # Idle
  BY DEF TransportInv, HttpTransportTypeOK, Trip, Idle
<1>2. trip' = [trip EXCEPT ![g] = new] /\ UNCHANGED <<transportVars, header>>
  BY DEF RoundTrip, AddToken
<1>3. TransportInv'
  <2>1. trip' \in [Goroutines -> Trip \cup {Idle}]
    BY <1>1, <1>2 DEF TransportInv, HttpTransportTypeOK
  <2> QED
    BY <1>2, <2>1 DEF TransportInv, HttpTransportTypeOK, ClonesIndependent, transportVars
<1>4. \A h \in Goroutines : trip'[h] = IF h = g THEN new ELSE trip[h]
  BY <1>2 DEF TransportInv, HttpTransportTypeOK
<1>5. /\ new.cloned <=> new.token # NoToken
      /\ new.auth = IF new.token # NoToken THEN new.token ELSE new.req
  BY DEF TripInv
<1> HIDE DEF new
<1>6. TripInv'
  BY <1>2, <1>4, <1>5 DEF TripInv
<1> QED
  BY <1>3, <1>6

\* A trip goes on with the header it began with.
LEMMA SendStep ==
  ASSUME TransportInv, TripInv, NEW g \in Goroutines, Send(g) \/ RoundTripReturns(g)
  PROVE  TransportInv' /\ TripInv'
<1>1. UNCHANGED <<transportVars, header>>
  BY DEF Send, RoundTripReturns
<1>2. trip[g] \in Trip
  BY DEF Send, RoundTripReturns, TransportInv, HttpTransportTypeOK, Idle
<1>3. trip[g] # Idle
  BY <1>2 DEF Trip, Idle
<1>4. PICK new \in Trip \cup {Idle} :
        /\ trip' = [trip EXCEPT ![g] = new]
        /\ new # Idle => /\ new.cloned = trip[g].cloned /\ new.token = trip[g].token
                         /\ new.req = trip[g].req /\ new.auth = trip[g].auth
  <2>1. CASE Send(g)
    <3> DEFINE new == [trip[g] EXCEPT !.at = "sent", !.auth = Sent(g)]
    <3>1. Sent(g) = trip[g].auth
      BY <1>2, <1>3 DEF Sent, TripInv, Trip
    <3>2. new \in Trip
      BY <1>2, <3>1 DEF Trip
    <3>3. /\ new.cloned = trip[g].cloned /\ new.token = trip[g].token
          /\ new.req = trip[g].req /\ new.auth = trip[g].auth
      BY <1>2, <3>1 DEF Trip
    <3>4. trip' = [trip EXCEPT ![g] = new]
      BY <2>1 DEF Send, TransportInv, HttpTransportTypeOK
    <3> QED
      BY <3>2, <3>3, <3>4
  <2>2. CASE RoundTripReturns(g)
    BY <2>2 DEF RoundTripReturns
  <2> QED
    BY <2>1, <2>2
<1>5. TransportInv'
  <2>1. trip' \in [Goroutines -> Trip \cup {Idle}]
    BY <1>4 DEF TransportInv, HttpTransportTypeOK
  <2> QED
    BY <1>1, <2>1 DEF TransportInv, HttpTransportTypeOK, ClonesIndependent, transportVars
<1>6. \A h \in Goroutines : trip'[h] = IF h = g THEN new ELSE trip[h]
  BY <1>4 DEF TransportInv, HttpTransportTypeOK
<1>7. TripInv'
  BY <1>1, <1>3, <1>4, <1>6 DEF TripInv
<1> QED
  BY <1>5, <1>7

LEMMA TransportSteps ==
  ASSUME TransportInv, TripInv, HttpTransportNext
  PROVE  TransportInv' /\ TripInv' /\ UNCHANGED stored
<1>1. CASE \E t \in Trippers : NewTransport(t)
  BY <1>1, NewTransportStep DEF NewTransport, TripInv, tripVars
<1>2. CASE \E t \in Trippers : ChangeConfig(t)
  BY <1>2, ChangeConfigStep DEF ChangeConfig, TripInv, tripVars
<1>3. CASE \E t \in Trippers, k \in Tokens \cup {NoToken} : SetToken(t, k)
  BY <1>3, SetTokenStep DEF SetToken, TripInv, tripVars
<1>4. CASE \E t \in Trippers, g \in Goroutines, r \in Requests : RoundTrip(g, t, r)
  BY <1>4, RoundTripStep DEF RoundTrip, transportVars
<1>5. CASE \E g \in Goroutines : Send(g) \/ RoundTripReturns(g)
  BY <1>5, SendStep DEF Send, RoundTripReturns, transportVars
<1> QED
  BY <1>1, <1>2, <1>3, <1>4, <1>5 DEF HttpTransportNext

-----------------------------------------------------------------------------
\* Which call is made at which step.
LEMMA StepOfCall ==
  ASSUME step \in 0 .. 4
  PROVE  /\ Calls("logger") <=> step = 1
         /\ Calls("network") <=> step = 2
         /\ Calls("shutdown") <=> step = 3
         /\ Calls("filesystem") <=> step = 4
<1>1. step = 0 \/ step = 1 \/ step = 2 \/ step = 3 \/ step = 4
  OBVIOUS
<1> QED
  BY <1>1 DEF Calls, Order

LEMMA UnchangedTransport ==
  ASSUME TransportInv, TripInv, UNCHANGED <<transportVars, tripVars>>
  PROVE  TransportInv' /\ TripInv'
  BY DEF TransportInv, TripInv, HttpTransportTypeOK, ClonesIndependent, transportVars, tripVars

\* The steps of New but SetDefaults leave the transports alone.
LEMMA QuietSteps ==
  ASSUME AppInv,
         \/ \E n \in Names : New(n)
         \/ \E l \in LogLevels \cup {Info} : SetDefaultsForLogger(l)
         \/ NewPanics \/ ShutdownSetDefaults \/ Inititalize
  PROVE  AppInv'
<1> USE DEF AppInv
<1>1. UNCHANGED <<transportVars, tripVars>>
  BY DEF New, SetDefaultsForLogger, NewPanics, ShutdownSetDefaults, Inititalize, StepDone
<1>2. TransportInv' /\ TripInv' /\ stored' = stored
  BY <1>1, UnchangedTransport DEF transportVars
<1>3. StepInv' /\ LoggerInv'
  <2>1. CASE \E n \in Names : New(n)
    BY <1>2, <2>1 DEF New, StepInv, LoggerInv
  <2>2. CASE \E l \in LogLevels \cup {Info} : SetDefaultsForLogger(l)
    <3>1. step = 1
      BY <2>2, StepOfCall DEF SetDefaultsForLogger, StepInv
    <3> QED
      BY <1>2, <2>2, <3>1 DEF SetDefaultsForLogger, StepDone, StepInv, LoggerInv, Info
  <2>3. CASE NewPanics
    <3>1. step = 2
      BY <2>3, StepOfCall DEF NewPanics, StepInv
    <3> QED
      BY <1>2, <2>3, <3>1 DEF NewPanics, StepInv, LoggerInv
  <2>4. CASE ShutdownSetDefaults
    <3>1. step = 3
      BY <2>4, StepOfCall DEF ShutdownSetDefaults, StepInv
    <3> QED
      BY <1>2, <2>4, <3>1 DEF ShutdownSetDefaults, StepDone, StepInv, LoggerInv
  <2>5. CASE Inititalize
    <3>1. step = 4
      BY <2>5, StepOfCall DEF Inititalize, StepInv
    <3>2. stored /\ watchers = 1 /\ argument \in Names
      BY <3>1 DEF StepInv
    <3>3. /\ step' = 0 /\ started' = TRUE /\ watchers' = 1 /\ stored'
          /\ name' # NoName /\ logger' = logger
      BY <1>2, <2>5, <3>1, <3>2 DEF Inititalize, StepDone
    <3> QED
      BY <3>1, <3>3 DEF StepInv, LoggerInv
  <2> QED
    BY <2>1, <2>2, <2>3, <2>4, <2>5
<1> QED
  BY <1>2, <1>3

LEMMA NetworkStep ==
  ASSUME AppInv, NetworkSetDefaults
  PROVE  AppInv' /\ ~started
<1> USE DEF AppInv
<1>1. TransportInv' /\ stored' /\ ~stored /\ UNCHANGED tripVars
  BY SetDefaultsStep DEF NetworkSetDefaults, StepDone
<1>2. step = 2 /\ ~started
  BY <1>1, StepOfCall DEF NetworkSetDefaults, StepInv
<1>3. TripInv'
  BY <1>1 DEF TripInv, tripVars
<1>4. StepInv' /\ LoggerInv'
  BY <1>1, <1>2 DEF NetworkSetDefaults, StepDone, StepInv, LoggerInv
<1> QED
  BY <1>1, <1>2, <1>3, <1>4

LEMMA InvNext == AppInv /\ [AppNext]_appVars => AppInv'
<1> SUFFICES ASSUME AppInv, [AppNext]_appVars PROVE AppInv'
  OBVIOUS
<1>1. CASE HttpTransportNext /\ UNCHANGED startVars
  BY <1>1, TransportSteps DEF AppInv, StepInv, LoggerInv, startVars
<1>2. CASE NetworkSetDefaults
  BY <1>2, NetworkStep
<1>3. CASE UNCHANGED appVars
  BY <1>3, UnchangedTransport DEF AppInv, StepInv, LoggerInv, appVars, startVars, transportVars
<1> QED
  BY <1>1, <1>2, <1>3, QuietSteps DEF AppNext

THEOREM AppInvHolds == AppSpec => []AppInv
  BY InvInit, InvNext, PTL DEF AppSpec

-----------------------------------------------------------------------------
\* A request carries the token of its own RoundTripper and no other, however many
\* goroutines send it through however many of them (http.go:88-94).
THEOREM TokensStayHomeHolds == AppSpec => []TokensStayHome
<1>1. AppInv => TokensStayHome
  BY DEF AppInv, TripInv, TokensStayHome, Idle
<1> QED
  BY <1>1, AppInvHolds, PTL

\* Changes of one transport's configuration reach no other one (http.go:71-86).
THEOREM ClonesIndependentHolds == AppSpec => []ClonesIndependent
<1>1. AppInv => ClonesIndependent
  BY DEF AppInv, TransportInv
<1> QED
  BY <1>1, AppInvHolds, PTL

\* New sets up everything once or, if it panics, nothing that stays (app.go:29-35).
THEOREM AllOrNothingHolds == AppSpec => []AllOrNothing
<1>1. AppInv => AllOrNothing
  BY DEF AppInv, StepInv, AllOrNothing
<1> QED
  BY <1>1, AppInvHolds, PTL

\* The gate of slog is not above zerolog's at any of the named levels (logger.go:69-85).
THEOREM GatesAgreeHolds == AppSpec => []GatesAgree
<1>1. AppInv => GatesAgree
  <2> SUFFICES ASSUME AppInv, started, logger.zerolog \in Trace .. Panic,
                      NEW z \in Debug .. Error, z >= logger.zerolog
               PROVE  (z - 1) * 4 >= logger.slog
    BY DEF GatesAgree
  <2>1. logger.slog = ZerologToSlog(logger.zerolog)
    BY DEF AppInv, LoggerInv
  <2> QED
    BY <2>1 DEF ZerologToSlog, Trace, Debug, Info, Warn, Error, Fatal, Panic
<1> QED
  BY <1>1, AppInvHolds, PTL

\* No New changes the name of a program that has started (app.go:34): the one that would
\* panics in network.SetDefaults before.
THEOREM NameSettledHolds == AppSpec => NameSettled
<1>1. AppInv /\ [AppNext]_appVars => [started => name' = name]_appVars
  <2> SUFFICES ASSUME AppInv, AppNext, started PROVE name' = name
    BY DEF appVars
  <2>1. CASE Inititalize
    BY <2>1, StepOfCall DEF Inititalize, AppInv, StepInv
  <2> QED
    BY <2>1 DEF AppNext, startVars, New, SetDefaultsForLogger, NetworkSetDefaults, NewPanics,
                ShutdownSetDefaults
<1> QED
  BY <1>1, AppInvHolds, PTL DEF AppSpec, NameSettled

=============================================================================
