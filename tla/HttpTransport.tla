--------------------------- MODULE HttpTransport ---------------------------
(***************************************************************************)
(* network/http.go: the transport of the process, which SetDefaults        *)
(* configures and wraps, the clones NewTransport makes of it, and          *)
(* RoundTrip, which adds a token to requests their callers may be using    *)
(* elsewhere at the same time.                                             *)
(*                                                                         *)
(* A TLS configuration is an object that transports point to: tls[t] is    *)
(* the name of the transport it was made for.                              *)
(***************************************************************************)
CONSTANTS Clones,      \* what calls of NewTransport return
          Default,     \* the transport in http.DefaultTransport
          Tokens,      \* values of TokenValue
          NoToken,     \* the empty one
          Requests,    \* of the callers; header[r] = r is what its caller has set
          Goroutines   \* callers of RoundTrip

ASSUME HttpTransportAssumption ==
  Default \notin Clones /\ NoToken \notin Tokens /\ Requests \cap Tokens = {}

VARIABLES default,     \* what http.DefaultTransport is
          stored,      \* defaultTransport # nil
          made,        \* the RoundTrippers there are
          tls,         \* tls[t]: TLSClientConfig, a pointer
          config,      \* config[p]: what it points to
          changed,     \* the clones whose configuration its owner has changed
          token,       \* token[t]: TokenValue
          header,      \* header[r]: the Authorization of request r
          trip         \* trip[g]: the RoundTrip g is in

transportVars == <<default, stored, made, tls, config, changed, token>>
tripVars == <<header, trip>>

Trippers == Clones \cup {Default}

\* req points to the caller's request or to a clone, whose header is auth.
Trip == [at : {"sending", "sent"}, via : Trippers, token : Tokens \cup {NoToken},
         req : Requests, cloned : BOOLEAN, auth : Tokens \cup Requests]
Idle == [at |-> "idle"]

HttpTransportTypeOK ==
  /\ default \in {"plain", "wrapped", "foreign"} /\ stored \in BOOLEAN
  /\ made \in SUBSET Trippers /\ changed \in SUBSET Clones
  /\ tls \in [Trippers -> Trippers]
  /\ config \in [Trippers -> {"none", "hardened", "changed"}]
  /\ token \in [Trippers -> Tokens \cup {NoToken}]
  /\ header \in [Requests -> Tokens \cup Requests]
  /\ trip \in [Goroutines -> Trip \cup {Idle}]

HttpTransportInit ==
  /\ default \in {"plain", "foreign"} /\ stored = FALSE
  /\ made = {} /\ changed = {}
  /\ tls = [t \in Trippers |-> t] /\ config = [t \in Trippers |-> "none"]
  /\ token = [t \in Trippers |-> NoToken]
  /\ header = [r \in Requests |-> r]
  /\ trip = [g \in Goroutines |-> Idle]

-----------------------------------------------------------------------------
\* http.DefaultTransport.(*http.Transport) fails.
Tampered == default # "plain"

\* SetDefaults, if it does not panic.
SetDefaults ==
  /\ ~Tampered
  /\ config' = [config EXCEPT ![Default] = "hardened"]
  /\ tls' = [tls EXCEPT ![Default] = Default]
  /\ stored' = TRUE
  /\ default' = "wrapped"
  /\ made' = made \cup {Default}
  /\ UNCHANGED <<changed, token>>

\* Mutant: the clone keeps the pointer.
SharedTLSConfig(t) == tls[Default]

\* cloned.TLSClientConfig = defaultTLSConfig(): a new object.
NewTLSConfig(t) == t

\* NewTransport, which panics before SetDefaults.
NewTransport(t) ==
  /\ stored /\ t \in Clones \ made
  /\ made' = made \cup {t}
  /\ tls' = [tls EXCEPT ![t] = NewTLSConfig(t)]
  /\ config' = [config EXCEPT ![NewTLSConfig(t)] = "hardened"]
  /\ UNCHANGED <<default, stored, changed, token, tripVars>>

\* The owner of a clone adds, for instance, a certificate.
ChangeConfig(t) ==
  /\ t \in made \cap Clones
  /\ config' = [config EXCEPT ![tls[t]] = "changed"]
  /\ changed' = changed \cup {t}
  /\ UNCHANGED <<default, stored, made, tls, token, tripVars>>

SetToken(t, k) ==
  /\ t \in made
  /\ token' = [token EXCEPT ![t] = k]
  /\ UNCHANGED <<default, stored, made, tls, config, changed, tripVars>>

\* Mutant: the header is set in the caller's request.
SetHeaderInPlace(g, t, r) ==
  /\ header' = IF token[t] = NoToken THEN header ELSE [header EXCEPT ![r] = token[t]]
  /\ trip' = [trip EXCEPT ![g] = [at |-> "sending", via |-> t, token |-> token[t],
                                  req |-> r, cloned |-> FALSE, auth |-> r]]

\* req.Clone, then req.Header.Set on the clone.
AddToken(g, t, r) ==
  /\ trip' = [trip EXCEPT ![g] =
       [at |-> "sending", via |-> t, token |-> token[t], req |-> r,
        cloned |-> token[t] # NoToken,
        auth |-> IF token[t] # NoToken THEN token[t] ELSE header[r]]]
  /\ UNCHANGED header

RoundTrip(g, t, r) ==
  /\ trip[g] = Idle /\ t \in made
  /\ AddToken(g, t, r)
  /\ UNCHANGED transportVars

\* What the transport reads, when it sends the request it was given.
Sent(g) == IF trip[g].cloned THEN trip[g].auth ELSE header[trip[g].req]

\* rt.Transport.RoundTrip(req), which may take long.
Send(g) ==
  /\ trip[g].at = "sending"
  /\ trip' = [trip EXCEPT ![g].at = "sent", ![g].auth = Sent(g)]
  /\ UNCHANGED <<transportVars, header>>

\* A response or an error.
RoundTripReturns(g) ==
  /\ trip[g].at = "sent"
  /\ trip' = [trip EXCEPT ![g] = Idle]
  /\ UNCHANGED <<transportVars, header>>

HttpTransportNext ==
  \/ \E t \in Trippers :
       \/ NewTransport(t) \/ ChangeConfig(t)
       \/ \E k \in Tokens \cup {NoToken} : SetToken(t, k)
       \/ \E g \in Goroutines, r \in Requests : RoundTrip(g, t, r)
  \/ \E g \in Goroutines : Send(g) \/ RoundTripReturns(g)

-----------------------------------------------------------------------------
\* A request carries the token of the RoundTripper it goes through and of no other, and
\* its caller's header if there is no token, even if it is sent again or by several
\* goroutines through several RoundTrippers at once.
TokensStayHome ==
  \A g \in Goroutines :
    trip[g].at = "sent" =>
      trip[g].auth = IF trip[g].token # NoToken THEN trip[g].token ELSE trip[g].req

\* What the owner of a clone changes reaches neither http.DefaultTransport nor another
\* clone, and every transport nobody has changed has the hardened configuration.
ClonesIndependent ==
  \A t \in made : config[tls[t]] = IF t \in changed THEN "changed" ELSE "hardened"

=============================================================================
