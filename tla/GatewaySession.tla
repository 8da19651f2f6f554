--------------------------- MODULE GatewaySession ---------------------------
(***************************************************************************)
(* The daemon's side of the gateway: src/src/collector/gateway_client.rs   *)
(* as Scheduler::run uses it.  A JWT buys a session (check_jwt), a session *)
(* opens the /ivp endpoints (probe_meters, get_meter_readings), and the    *)
(* gateway forgets sessions whenever it likes.                             *)
(*                                                                         *)
(* The gateway is external: what it may answer is read from what the       *)
(* client distinguishes.  A request is sent, served and received in three  *)
(* steps, so that sessions end and time passes between them; the client's  *)
(* timeout bounds the three.  The inverters' endpoint takes the JWT alone, *)
(* never asks for a session and touches nothing here.                      *)
(***************************************************************************)
EXTENDS Integers, FiniteSets

CONSTANTS
  Sessions,    \* session ids
  Timeout,     \* the HTTP client's timeout, ten seconds in the code
  MaxClock,    \* bound on the wall clock
  None         \* no session, no reply, no reading

ASSUME SessionsAssumption == IsFiniteSet(Sessions) /\ Cardinality(Sessions) >= 2
ASSUME TimeAssumption == Timeout \in Nat \ {0} /\ MaxClock \in Nat
ASSUME NoneAssumption == None \notin Sessions /\ None \notin Nat

VARIABLES
  clock,      \* the wall clock, which does not jump here
  live,       \* the sessions the gateway accepts
  calm,       \* the gateway and the network are well-behaved from now on
  pc,         \* where the client is; a request is under way unless "down", "idle"
  sessionId,  \* session_id
  asked,      \* when the request under way was sent
  reply,      \* the gateway's reply to it, on its way
  outcome,    \* of the last poll: an error or a reading with its timestamp
  requests,   \* history: requests made in this poll
  trusted     \* history: this poll began in calm

gateway == << live, calm >>
client == << pc, sessionId, asked, outcome >>
vars == << clock, gateway, client, reply, requests, trusted >>

InFlight == pc \notin {"down", "idle"}

\* What the client tells apart in a response.
Refused == [status |-> "refused"]            \* neither success nor 401, or no meter
Unauthorized == [status |-> "unauthorized"]
Granted(session) == [status |-> "ok", session |-> session]
Counters(taken) == [status |-> "ok", taken |-> taken]
Enabled == [status |-> "ok"]                 \* both meters present and enabled

Error == [reading |-> FALSE]
Reading(taken, stamp) == [reading |-> TRUE, taken |-> taken, stamp |-> stamp]

Init ==
  /\ clock = 0
  /\ live = {}
  /\ calm = FALSE
  /\ pc = "down"
  /\ sessionId = None
  /\ asked = 0
  /\ reply = None
  /\ outcome = Error
  /\ requests = 0
  /\ trusted = FALSE

-----------------------------------------------------------------------------
(* The environment. *)

\* No request outlives the client's timeout.
Tick ==
  /\ clock < MaxClock
  /\ InFlight => clock < asked + Timeout
  /\ clock' = clock + 1
  /\ UNCHANGED << gateway, client, reply, requests, trusted >>

\* The gateway restarts, or a session ends: nothing announces it.
Forget(session) ==
  /\ ~calm
  /\ live' = live \ {session}
  /\ UNCHANGED << clock, calm, client, reply, requests, trusted >>

\* From here on every request is answered in time and as it should be, and no
\* session ends: the hypothesis of the liveness properties.
Settle ==
  /\ ~calm
  /\ calm' = TRUE
  /\ UNCHANGED << clock, live, client, reply, requests, trusted >>

Crash ==
  /\ ~calm
  /\ pc /= "down"
  /\ pc' = "down" /\ sessionId' = None /\ reply' = None
  /\ UNCHANGED << clock, gateway, asked, outcome, requests, trusted >>

-----------------------------------------------------------------------------
(* The gateway's answers. *)

Serve(response) ==
  /\ reply = None
  /\ reply' = response
  /\ UNCHANGED << clock, calm, client, requests, trusted >>

\* The JWT is accepted: a session, and maybe the end of others; or, from
\* another firmware, a success without a session cookie.
ServeJwt ==
  /\ pc \in {"auth", "reauth"}
  /\ \/ \E kept \in SUBSET live :
          \E session \in Sessions \ (kept \cup {sessionId}) :
            Serve(Granted(session)) /\ live' = kept \cup {session}
     \/ ~calm /\ Serve(Granted(None)) /\ UNCHANGED live
     \/ ~calm /\ Serve(Refused) /\ UNCHANGED live

ServeIvp ==
  /\ pc \in {"probe", "read", "reread"}
  /\ \/ sessionId \in live /\ Serve(IF pc = "probe" THEN Enabled ELSE Counters(clock))
     \/ sessionId \notin live /\ Serve(Unauthorized)
     \/ ~calm /\ Serve(Refused)
  /\ UNCHANGED live

-----------------------------------------------------------------------------
(* The client. *)

Send(place) ==
  /\ pc' = place
  /\ asked' = clock
  /\ reply' = None

\* Started by its supervisor: docker-compose.yml has restart: unless-stopped.
Start ==
  /\ pc = "down"
  /\ Send("auth")
  /\ UNCHANGED << clock, gateway, sessionId, outcome, requests, trusted >>

\* Scheduler::run returns, and the daemon with it.
Halt ==
  /\ pc' = "down" /\ sessionId' = None /\ reply' = None
  /\ UNCHANGED << asked, outcome >>

\* Slip: a session the client has is kept.
NewSessionKept == IF sessionId = None THEN reply.session ELSE sessionId

\* The session check_jwt leaves: none when the response has no cookie.
NewSession == reply.session

Replied(status) == reply /= None /\ reply.status = status

\* check_jwt at startup, then probe_meters with what it brought.
CheckJwt ==
  /\ pc = "auth" /\ Replied("ok")
  /\ sessionId' = NewSession
  /\ Send("probe")
  /\ UNCHANGED << clock, gateway, outcome, requests, trusted >>

ProbeMeters ==
  /\ pc = "probe" /\ Replied("ok")
  /\ pc' = "idle" /\ reply' = None
  /\ UNCHANGED << clock, gateway, sessionId, asked, outcome, requests, trusted >>

\* A lost or late response: reqwest's error, at the timeout at the latest.
Lost == ~calm /\ reply = None

BootFails ==
  /\ pc \in {"auth", "probe"}
  /\ Lost \/ Replied("refused") \/ Replied("unauthorized")
  /\ Halt
  /\ UNCHANGED << clock, gateway, requests, trusted >>

\* A tick of the poll timer.
Poll ==
  /\ pc = "idle"
  /\ Send("read")
  /\ requests' = 1
  /\ trusted' = calm
  /\ UNCHANGED << clock, gateway, sessionId, outcome >>

Finish(result) ==
  /\ pc' = "idle" /\ reply' = None
  /\ outcome' = result
  /\ UNCHANGED << clock, gateway, sessionId, asked, requests, trusted >>

\* Slip: the timestamp of the request instead of the response.
StampSent == asked

\* unix_now() after get_meter_readings has returned.
Stamp == clock

ReceiveReading ==
  /\ pc \in {"read", "reread"} /\ Replied("ok")
  /\ Finish(Reading(reply.taken, Stamp))

\* Slip: a 401 is an error like any other.
UnauthorizedIsFinal ==
  /\ pc = "read" /\ Replied("unauthorized")
  /\ Finish(Error)

\* get_meter_readings: the first 401 buys a new session ...
Reauthenticate ==
  /\ pc = "read" /\ Replied("unauthorized")
  /\ Send("reauth")
  /\ requests' = requests + 1
  /\ UNCHANGED << clock, gateway, sessionId, outcome, trusted >>

\* ... for one more try,
Reread ==
  /\ pc = "reauth" /\ Replied("ok")
  /\ sessionId' = NewSession
  /\ Send("reread")
  /\ requests' = requests + 1
  /\ UNCHANGED << clock, gateway, outcome, trusted >>

\* and everything else is the poll's error; the session id stays as it is.
PollFails ==
  /\ \/ pc \in {"read", "reauth", "reread"} /\ (Lost \/ Replied("refused"))
     \/ pc = "reread" /\ Replied("unauthorized")
  /\ Finish(Error)

-----------------------------------------------------------------------------
Serving == ServeJwt \/ ServeIvp

Client ==
  \/ Start \/ CheckJwt \/ ProbeMeters \/ BootFails
  \/ Poll \/ ReceiveReading \/ Reauthenticate \/ Reread \/ PollFails

Next ==
  \/ Tick \/ (\E s \in live : Forget(s)) \/ Settle \/ Crash
  \/ Serving \/ Client

Spec == Init /\ [][Next]_vars

\* The supervisor restarts the daemon, the poll timer ticks, requests are
\* answered or time out, and the runtime polls the future that waits for them.
FairSpec == Spec /\ WF_vars(Client) /\ WF_vars(Serving)

-----------------------------------------------------------------------------
\* The variables range over what the client and the gateway can hold.
TypeOK ==
  /\ clock \in 0 .. MaxClock
  /\ live \subseteq Sessions
  /\ calm \in BOOLEAN
  /\ pc \in {"down", "auth", "probe", "idle", "read", "reauth", "reread"}
  /\ sessionId \in Sessions \cup {None}
  /\ asked \in 0 .. clock
  /\ reply \in {None, Refused, Unauthorized, Enabled} \cup
               { Granted(s) : s \in Sessions \cup {None} } \cup
               { Counters(t) : t \in asked .. clock }
  /\ reply /= None => InFlight
  /\ outcome \in {Error} \cup { Reading(t[1], t[2]) : t \in (0 .. clock) \X (0 .. clock) }
  /\ requests \in 0 .. 3
  /\ trusted \in BOOLEAN

\* One poll is enough to get over whatever the gateway forgot before: a poll
\* that begins in calm ends with a reading, with the session it found, with a
\* session lost without notice, or with no session at all.
CalmPollReads == pc = "idle" /\ trusted => outcome.reading

\* A reading's counters were read no later than its timestamp says, and no
\* more than one timeout earlier, re-authentication or not: that is how far
\* energy can slip over a window's boundary.
StampedInTime ==
  outcome.reading => /\ outcome.taken <= outcome.stamp
                     /\ outcome.stamp <= outcome.taken + Timeout

\* A session lost without notice is got over without an operator, and so is a
\* daemon that halted: once the gateway stays calm, readings come.
ReadingsResume == calm ~> (pc = "idle" /\ trusted /\ outcome.reading)
=============================================================================
