------------------------ MODULE GatewaySessionProofs ------------------------
(***************************************************************************)
(* What holds of the client and its session for every timeout, every set   *)
(* of sessions and everything the gateway may forget.                      *)
(***************************************************************************)
EXTENDS GatewaySession, TLAPS

-----------------------------------------------------------------------------
(* The inductive invariant: what a reply can be depends on where the       *)
(* client is, and a poll that began in calm never leaves the path to a     *)
(* reading.                                                                *)

ReplyInv ==
  /\ pc \in {"down", "idle"} => reply = None
  /\ pc \in {"auth", "reauth"} =>
       \/ reply \in {None, Refused}
       \/ \E s \in Sessions \cup {None} : reply = Granted(s)
  /\ pc = "probe" => reply \in {None, Refused, Unauthorized, Enabled}
  /\ pc \in {"read", "reread"} =>
       \/ reply \in {None, Refused, Unauthorized}
       \/ \E t \in asked .. clock : reply = Counters(t)

\* No request is older than the client's timeout.
InTimeInv == InFlight => clock <= asked + Timeout

RequestsInv ==
  /\ pc = "read" => requests = 1
  /\ pc = "reauth" => requests = 2

OutcomeInv ==
  \/ outcome = Error
  \/ \E t \in 0 .. clock, s \in 0 .. clock :
       outcome = Reading(t, s) /\ t <= s /\ s <= t + Timeout

CalmInv ==
  trusted =>
    /\ calm
    /\ pc \in {"idle", "read", "reauth", "reread"}
    /\ pc = "idle" => outcome.reading
    /\ pc = "read" => ~ Replied("refused")
    /\ pc = "reauth" => reply = None \/ \E s \in live : reply = Granted(s)
    /\ pc = "reread" => /\ sessionId \in live
                        /\ reply = None \/ \E t \in asked .. clock : reply = Counters(t)

SessionInv == TypeOK /\ ReplyInv /\ InTimeInv /\ RequestsInv /\ OutcomeInv /\ CalmInv

LEMMA SessionInit == Init => SessionInv
  <1> SUFFICES ASSUME Init PROVE SessionInv
    OBVIOUS
  <1>1. TypeOK
    <2> USE DEF Init
    <2>1. clock \in 0 .. MaxClock /\ asked \in 0 .. clock /\ requests \in 0 .. 3
      BY TimeAssumption
    <2>2. calm \in BOOLEAN /\ trusted \in BOOLEAN
      BY Zenon
    <2>3. outcome \in {Error} /\ live \subseteq Sessions
      OBVIOUS
    <2> QED BY <2>1, <2>2, <2>3 DEF TypeOK, InFlight
  <1>2. ReplyInv /\ InTimeInv /\ RequestsInv /\ OutcomeInv /\ CalmInv
    BY DEF Init, ReplyInv, InTimeInv, InFlight, RequestsInv, OutcomeInv, CalmInv
  <1> QED BY <1>1, <1>2 DEF SessionInv

LEMMA SessionNext == SessionInv /\ [Next]_vars => SessionInv'
  <1> SUFFICES ASSUME SessionInv, [Next]_vars PROVE SessionInv'
    OBVIOUS
  <1> USE TimeAssumption, NoneAssumption
      DEF SessionInv, TypeOK, ReplyInv, InTimeInv, RequestsInv, OutcomeInv, CalmInv,
          InFlight, gateway, client, Refused, Unauthorized, Granted, Counters, Enabled,
          Error, Reading, Replied
  <1>1. CASE Tick
    BY <1>1 DEF Tick
  <1>2. ASSUME NEW s \in live, Forget(s) PROVE SessionInv'
    BY <1>2 DEF Forget
  <1>3. CASE Settle
    BY <1>3 DEF Settle
  <1>4. CASE Crash
    BY <1>4 DEF Crash
  <1>5. CASE ServeJwt
    BY <1>5 DEF ServeJwt, Serve
  <1>6. CASE ServeIvp
    BY <1>6 DEF ServeIvp, Serve
  <1>7. CASE Start
    BY <1>7 DEF Start, Send
  <1>8. CASE CheckJwt
    BY <1>8 DEF CheckJwt, Send, NewSession, Replied
  <1>9. CASE ProbeMeters
    BY <1>9 DEF ProbeMeters, Replied
  <1>10. CASE BootFails
    BY <1>10 DEF BootFails, Halt
  <1>11. CASE Poll
    BY <1>11 DEF Poll, Send
  <1>12. CASE ReceiveReading
    <2>1. PICK t \in asked .. clock : reply = Counters(t)
      BY <1>12 DEF ReceiveReading, Replied
    <2>2. /\ t \in 0 .. clock /\ clock \in 0 .. clock
          /\ t <= clock /\ clock <= t + Timeout
      BY <1>12, <2>1 DEF ReceiveReading
    <2>3. outcome' = Reading(t, clock)
      BY <1>12, <2>1 DEF ReceiveReading, Finish, Stamp
    <2>4. pc' = "idle" /\ reply' = None /\ outcome'.reading
          /\ UNCHANGED << clock, gateway, sessionId, asked, requests, trusted >>
      BY <1>12, <2>3 DEF ReceiveReading, Finish
    <2>5. TypeOK'
      <3>1. << t, clock >> \in (0 .. clock) \X (0 .. clock)
        BY <2>2
      <3> HIDE DEF Reading
      <3>2. outcome' \in { Reading(u[1], u[2]) : u \in (0 .. clock) \X (0 .. clock) }
        BY <2>3, <3>1
      <3> QED BY <2>4, <3>2
    <2>6. OutcomeInv'
      <3> HIDE DEF Reading
      <3> QED BY <2>2, <2>3, <2>4
    <2> QED BY <2>4, <2>5, <2>6
  <1>13. CASE Reauthenticate
    BY <1>13 DEF Reauthenticate, Send, Replied
  <1>14. CASE Reread
    BY <1>14 DEF Reread, Send, Replied, NewSession
  <1>15. CASE PollFails
    BY <1>15 DEF PollFails, Finish, Lost, Replied
  <1>16. CASE UNCHANGED vars
    BY <1>16 DEF vars
  <1> QED
    BY <1>1, <1>2, <1>3, <1>4, <1>5, <1>6, <1>7, <1>8, <1>9, <1>10, <1>11,
       <1>12, <1>13, <1>14, <1>15, <1>16 DEF Next, Serving, Client

LEMMA SessionInvariant == Spec => []SessionInv
  BY SessionInit, SessionNext, PTL DEF Spec

-----------------------------------------------------------------------------
\* Whatever the gateway answers or forgets, the client's variables keep their
\* types: no reply without a request, no poll of more than three requests.
THEOREM SessionTypes == Spec => []TypeOK
  BY SessionInvariant, PTL DEF SessionInv

\* A poll that begins in calm ends with a reading, whatever the gateway forgot
\* before and wherever between two requests it forgot it.
THEOREM OnePollIsEnough == Spec => []CalmPollReads
  <1>1. SessionInv => CalmPollReads
    BY DEF SessionInv, CalmInv, CalmPollReads
  <1> QED BY <1>1, SessionInvariant, PTL

\* A reading's timestamp is never earlier than its counters, nor later by more
\* than the client's timeout.
THEOREM StampsAreInTime == Spec => []StampedInTime
  <1>1. SessionInv => StampedInTime
    BY TimeAssumption DEF SessionInv, OutcomeInv, StampedInTime, Error, Reading
  <1> QED BY <1>1, SessionInvariant, PTL
=============================================================================
