---- MODULE RealtimeRelay ----
(***************************************************************************)
(* The bridge of routes/realtime.ts between the socket of a desktop client *)
(* and the socket of the transcription upstream: the buffer of the frames  *)
(* that arrive while the upstream is dialled, the session.update the relay *)
(* sends by itself and the one echo it swallows, the heartbeat on both     *)
(* legs, and the propagation of closes, errors and rejected handshakes.    *)
(*                                                                         *)
(* Each action is one event of a socket or of the timer with the whole of  *)
(* its listeners. Time is counted in units that divide the interval, the   *)
(* timeout and the handshake ceiling. What the ws library does by itself   *)
(* (the closing handshake and its timer, the abort of a dial, the answer   *)
(* to a ping) is modelled from how the bridge relies on it.                *)
(***************************************************************************)
EXTENDS Naturals, Sequences, Ascending

CONSTANTS
  Interval,    \* heartbeat.intervalMs
  Timeout,     \* heartbeat.timeoutMs
  Handshake,   \* handshakeTimeout of the upstream socket
  MaxHeard,    \* bound: frames the client sends
  Rejects      \* the upstream may refuse a session.update

ASSUME RelayAssumption ==
  /\ Interval \in Nat \ {0}
  /\ Timeout \in Nat
  /\ Handshake \in Nat
  /\ Handshake <= Interval + Timeout
  /\ MaxHeard \in Nat
  /\ Rejects \in BOOLEAN

Legs == {"client", "upstream"}
Other(leg) == IF leg = "client" THEN "upstream" ELSE "client"

\* "aborting": a dial that was given up, its error and close events not yet run.
States == {"connecting", "open", "aborting", "closing", "closed"}

\* Close codes by what the relay does with them: "normal" stands for 1000-1003
\* and 3000-4999, "abnormal" for 1005 and 1006.
Codes == {"none", "normal", "policy", "retry", "internal", "abnormal"}
\* What the close event of a leg may carry.
PeerCodes == {"normal", "policy", "abnormal"}
Statuses == {"unauthorized", "limited", "unavailable"}

\* A frame of the client: audio, its own session.update, or one that does not parse.
Kinds == {"audio", "update", "malformed"}

VARIABLES
  state,      \* readyState of each leg
  timer,      \* heartbeatTimer is set
  sinceTick,  \* time since the heartbeat last ran
  age,        \* per leg: time since lastPongAt, lastUpstreamPongAt
  ping,       \* per leg: 1 + the time the oldest unanswered ping has waited, 0 if none
  gone,       \* per leg: 1 + the time the peer has been unreachable, 0 if it answers
  dial,       \* time since the upstream was dialled
  code,       \* the code the relay has closed the client with
  rejected,   \* the status the upstream has refused the handshake with
  heard,      \* the frames of the client, in order
  opened,     \* upstreamOpen
  pending,    \* pendingTuples: positions in heard
  got,        \* what the upstream was sent: positions in heard, 0 the relay's own update
  answered,   \* how many of these the upstream has answered
  echo,       \* relaySessionUpdateEchoPending
  shown       \* the answers the client was sent

clocks == <<sinceTick, age, ping, gone, dial>>
frames == <<heard, opened, pending, got, answered, echo, shown>>
relayVars == <<state, timer, sinceTick, age, ping, gone, dial, code, rejected,
          heard, opened, pending, got, answered, echo, shown>>

\* A client whose upgrade was accepted; the route dials and bridges at once.
RelayInit ==
  /\ state = [leg \in Legs |-> IF leg = "client" THEN "open" ELSE "connecting"]
  /\ timer = TRUE
  /\ sinceTick = 0
  /\ age = [leg \in Legs |-> 0]
  /\ ping = [leg \in Legs |-> 0]
  /\ gone = [leg \in Legs |-> 0]
  /\ dial = 0
  /\ code = "none"
  /\ rejected = "none"
  /\ heard = <<>>
  /\ opened = FALSE
  /\ pending = <<>>
  /\ got = <<>>
  /\ answered = 0
  /\ echo = FALSE
  /\ shown = <<>>

WellFormed(i) == heard[i] # "malformed"

\* What forwarding the frames of the buffer one by one lets through, in its order.
Kept(list) ==
  LET at == InOrder({k \in DOMAIN list : WellFormed(list[k])})
  IN [k \in DOMAIN at |-> list[at[k]]]

---------------------------------------------------------------------------
(* Frames                                                                  *)

\* A frame of the client: buffered until the upstream is open, then forwarded
\* unless it does not parse. A client the relay has closed may still be heard, one
\* that has closed itself is not; a send on a socket that is closing is dropped.
ClientFrame(kind) ==
  /\ \/ state["client"] = "open"
     \/ state["client"] = "closing" /\ code # "none"
  /\ gone["client"] = 0
  /\ Len(heard) < MaxHeard
  /\ heard' = Append(heard, kind)
  /\ IF opened
     THEN /\ got' = IF kind # "malformed" /\ state["upstream"] = "open"
                    THEN Append(got, Len(heard) + 1) ELSE got
          /\ UNCHANGED pending
     ELSE pending' = Append(pending, Len(heard) + 1) /\ UNCHANGED got
  /\ UNCHANGED <<state, timer, clocks, code, rejected, opened, answered, echo, shown>>

\* Mutant: the buffer is flushed before the session is configured.
UpstreamOpensConfigLast ==
  /\ state["upstream"] = "connecting"
  /\ gone["upstream"] = 0
  /\ state' = [state EXCEPT !["upstream"] = "open"]
  /\ opened' = TRUE
  /\ echo' = TRUE
  /\ got' = Append(Kept(pending), 0)
  /\ pending' = <<>>
  /\ age' = [age EXCEPT !["upstream"] = 0]
  /\ UNCHANGED <<timer, sinceTick, ping, gone, dial, code, rejected, heard, answered, shown>>

\* The dial succeeds: the relay's own session.update goes out first, then the
\* buffer; the upstream's pong clock starts.
UpstreamOpens ==
  /\ state["upstream"] = "connecting"
  /\ gone["upstream"] = 0
  /\ state' = [state EXCEPT !["upstream"] = "open"]
  /\ opened' = TRUE
  /\ echo' = TRUE
  /\ got' = <<0>> \o Kept(pending)
  /\ pending' = <<>>
  /\ age' = [age EXCEPT !["upstream"] = 0]
  /\ UNCHANGED <<timer, sinceTick, ping, gone, dial, code, rejected, heard, answered, shown>>

Asks(i) == i # 0 => heard[i] = "update"

\* Mutant: the flag is not cleared with the first echo.
UpstreamAnswersSwallowed(refused) ==
  /\ state["upstream"] = "open"
  /\ gone["upstream"] = 0
  /\ answered < Len(got)
  /\ answered' = answered + 1
  /\ LET i == got[answered + 1]
         updated == Asks(i) /\ ~refused
     IN /\ refused => Rejects /\ Asks(i)
        /\ shown' = IF state["client"] = "open" /\ ~(echo /\ updated)
                    THEN Append(shown, i) ELSE shown
  /\ UNCHANGED <<state, timer, clocks, code, rejected, heard, opened, pending, got, echo>>

\* The upstream answers the next frame it was sent; the answer to a session.update
\* is the echo session.updated, or an error when it refuses it. The first echo seen
\* while the relay's own is pending is swallowed, all else goes to an open client.
UpstreamAnswers(refused) ==
  /\ state["upstream"] = "open"
  /\ gone["upstream"] = 0
  /\ answered < Len(got)
  /\ answered' = answered + 1
  /\ LET i == got[answered + 1]
         updated == Asks(i) /\ ~refused
     IN /\ refused => Rejects /\ Asks(i)
        /\ IF state["client"] # "open" THEN UNCHANGED <<echo, shown>>
           ELSE IF echo /\ updated THEN echo' = FALSE /\ UNCHANGED shown
           ELSE shown' = Append(shown, i) /\ UNCHANGED echo
  /\ UNCHANGED <<state, timer, clocks, code, rejected, heard, opened, pending, got>>

---------------------------------------------------------------------------
(* Teardown                                                                *)

\* close or terminate of one socket: it goes down later, a dial is given up.
Down(s) == IF s = "open" THEN "closing" ELSE IF s = "connecting" THEN "aborting" ELSE s

SafeCode(c) == IF c = "normal" THEN c ELSE "internal"

\* The code an open client is closed with.
ClosesClient(c) == code' = IF state["client"] = "open" THEN c ELSE code

\* Mutant: the timer outlives the socket.
CloseBothKeepsTimer(leg, c) ==
  /\ state' = [state EXCEPT ![leg] = "closed", ![Other(leg)] = Down(@)]
  /\ IF leg = "upstream" THEN ClosesClient(SafeCode(c)) ELSE UNCHANGED code
  /\ UNCHANGED timer

\* Mutant: a peer that is still being dialled is left alone.
CloseBothOpenOnly(leg, c) ==
  /\ timer' = FALSE
  /\ state' = [state EXCEPT ![leg] = "closed",
                 ![Other(leg)] = IF @ = "open" THEN "closing" ELSE @]
  /\ IF leg = "upstream" THEN ClosesClient(SafeCode(c)) ELSE UNCHANGED code

\* The close event of a leg: the timer stops, the other leg is closed too.
CloseBoth(leg, c) ==
  /\ timer' = FALSE
  /\ state' = [state EXCEPT ![leg] = "closed", ![Other(leg)] = Down(@)]
  /\ IF leg = "upstream" THEN ClosesClient(SafeCode(c)) ELSE UNCHANGED code

\* The peer of an open leg closes it, or its connection is reset: readyState
\* changes, and no listener runs before the socket is closed.
PeerCloses(leg) ==
  /\ state[leg] = "open"
  /\ gone[leg] = 0
  /\ state' = [state EXCEPT ![leg] = "closing"]
  /\ UNCHANGED <<timer, code, clocks, rejected, frames>>

\* A leg that is going down is closed, with the code of its peer if that has sent
\* one: the closing handshake is over, or its timer has run out.
Closed(leg, c) ==
  /\ state[leg] = "closing"
  /\ CloseBoth(leg, c)
  /\ UNCHANGED <<clocks, rejected, frames>>

\* A frame of the client that breaks the protocol.
ClientErrs ==
  /\ state["client"] = "open"
  /\ gone["client"] = 0
  /\ timer' = FALSE
  /\ state' = [leg \in Legs |->
                 IF state[leg] = "open" THEN "closing" ELSE state[leg]]
  /\ UNCHANGED <<clocks, code, rejected, frames>>

\* A frame of the upstream that breaks the protocol.
UpstreamErrs ==
  /\ state["upstream"] = "open"
  /\ gone["upstream"] = 0
  /\ timer' = FALSE
  /\ ClosesClient("internal")
  /\ state' = [leg \in Legs |->
                 IF state[leg] = "open" THEN "closing" ELSE state[leg]]
  /\ UNCHANGED <<clocks, rejected, frames>>

\* The dial is refused, or has lasted as long as the handshake may.
DialFails ==
  /\ state["upstream"] = "connecting"
  /\ state' = [state EXCEPT !["upstream"] = "aborting"]
  /\ UNCHANGED <<timer, clocks, code, rejected, frames>>

\* The error and close events of a dial that was given up.
Aborted ==
  /\ state["upstream"] = "aborting"
  /\ timer' = FALSE
  /\ ClosesClient("internal")
  /\ state' = [state EXCEPT !["upstream"] = "closed", !["client"] = Down(@)]
  /\ UNCHANGED <<clocks, rejected, frames>>

\* mapUpstreamStatusToCloseCode.
MapStatus(status) ==
  IF status = "unauthorized" THEN "policy"
  ELSE IF status = "limited" THEN "retry" ELSE "internal"

\* Mutant: the mapped code goes through safeCode.
HandshakeRejectedSafe(status) ==
  /\ state["upstream"] = "connecting"
  /\ gone["upstream"] = 0
  /\ timer' = FALSE
  /\ rejected' = status
  /\ ClosesClient(SafeCode(MapStatus(status)))
  /\ state' = [leg \in Legs |-> Down(state[leg])]
  /\ UNCHANGED <<clocks, frames>>

\* The upstream answers the handshake with an HTTP status (unexpected-response).
HandshakeRejected(status) ==
  /\ state["upstream"] = "connecting"
  /\ gone["upstream"] = 0
  /\ timer' = FALSE
  /\ rejected' = status
  /\ ClosesClient(MapStatus(status))
  /\ state' = [leg \in Legs |-> Down(state[leg])]
  /\ UNCHANGED <<clocks, frames>>

---------------------------------------------------------------------------
(* The heartbeat                                                           *)

TickDue == timer /\ sinceTick = Interval /\ state["upstream"] # "aborting"

\* Mutant: the pong is compared with the timeout alone.
StaleEarly == \E leg \in Legs : age[leg] > Timeout

\* Mutant: only the client's pongs count.
StaleClient == age["client"] > Interval + Timeout

\* A peer was last heard of more than an interval and the timeout ago.
Stale == \E leg \in Legs : age[leg] > Interval + Timeout

\* A peer has been quiet for too long: both legs are terminated.
HeartbeatCuts ==
  /\ TickDue
  /\ Stale
  /\ timer' = FALSE
  /\ sinceTick' = 0
  /\ state' = [leg \in Legs |-> Down(state[leg])]
  /\ UNCHANGED <<age, ping, gone, dial, code, rejected, frames>>

\* Every open leg is pinged.
HeartbeatPings ==
  /\ TickDue
  /\ ~Stale
  /\ sinceTick' = 0
  /\ ping' = [leg \in Legs |->
                IF state[leg] = "open" /\ ping[leg] = 0 THEN 1 ELSE ping[leg]]
  /\ UNCHANGED <<state, timer, age, gone, dial, code, rejected, frames>>

\* A peer answers.
Pong(leg) ==
  /\ state[leg] = "open"
  /\ gone[leg] = 0
  /\ ping[leg] > 0
  /\ age' = [age EXCEPT ![leg] = 0]
  /\ ping' = [ping EXCEPT ![leg] = 0]
  /\ UNCHANGED <<state, timer, sinceTick, gone, dial, code, rejected, frames>>

\* A peer becomes unreachable and no packet says so.
Vanishes(leg) ==
  /\ state[leg] \in {"connecting", "open"}
  /\ gone[leg] = 0
  /\ gone' = [gone EXCEPT ![leg] = 1]
  /\ UNCHANGED <<state, timer, sinceTick, age, ping, dial, code, rejected, frames>>

Runs(n) == IF n = 0 THEN 0 ELSE n + 1

\* One unit of time, while a timer of the bridge is set: never past the heartbeat
\* or the handshake ceiling, nor before an aborted dial has run its events.
TimePasses ==
  /\ timer \/ state["upstream"] = "connecting"
  /\ state["upstream"] # "aborting"
  /\ timer => sinceTick < Interval
  /\ state["upstream"] = "connecting" => dial < Handshake
  /\ dial' = IF state["upstream"] = "connecting" THEN dial + 1 ELSE dial
  /\ IF timer
     THEN /\ sinceTick' = sinceTick + 1
          /\ age' = [leg \in Legs |-> age[leg] + 1]
          /\ ping' = [leg \in Legs |-> Runs(ping[leg])]
          /\ gone' = [leg \in Legs |-> Runs(gone[leg])]
     ELSE UNCHANGED <<sinceTick, age, ping, gone>>
  /\ UNCHANGED <<state, timer, code, rejected, frames>>

---------------------------------------------------------------------------

Relayed ==
  \/ UpstreamOpens
  \/ \E kind \in Kinds : ClientFrame(kind)
  \/ \E refused \in BOOLEAN : UpstreamAnswers(refused)

TornDown ==
  \/ \E leg \in Legs : PeerCloses(leg)
  \/ \E leg \in Legs, c \in PeerCodes : Closed(leg, c)
  \/ ClientErrs
  \/ UpstreamErrs
  \/ DialFails
  \/ Aborted
  \/ \E status \in Statuses : HandshakeRejected(status)

Timed ==
  \/ HeartbeatCuts
  \/ HeartbeatPings
  \/ TimePasses
  \/ \E leg \in Legs : Pong(leg) \/ Vanishes(leg)

RelayNext == Relayed \/ TornDown \/ Timed

RelaySpec == RelayInit /\ [][RelayNext]_relayVars

\* Timers fire, a socket that goes down closes, a dial ends: what the event loop
\* and the ws library do by themselves. Nothing is assumed of the peers.
RelayFairness ==
  /\ WF_relayVars(TimePasses)
  /\ WF_relayVars(HeartbeatCuts \/ HeartbeatPings)
  /\ WF_relayVars(DialFails)
  /\ WF_relayVars(Aborted)
  /\ \A leg \in Legs : WF_relayVars(\E c \in PeerCodes : Closed(leg, c))

FairRelaySpec == RelaySpec /\ RelayFairness

---------------------------------------------------------------------------
(* Properties                                                              *)

\* The type invariant, of the control; the frames are FramesInOrder's.
RelayTypeOK ==
  /\ state \in [Legs -> States]
  /\ timer \in BOOLEAN
  /\ sinceTick \in 0 .. Interval
  /\ age \in [Legs -> Nat]
  /\ ping \in [Legs -> Nat]
  /\ gone \in [Legs -> Nat]
  /\ dial \in 0 .. Handshake
  /\ code \in Codes
  /\ rejected \in Statuses \cup {"none"}

Up(leg) == state[leg] \in {"connecting", "open"}

\* The heartbeat outlives no socket (routes/realtime.ts:587, "A timer outliving its
\* sockets is itself a leak"): it is gone when either leg is closed, and before that
\* whenever the relay has closed the client or the upstream has refused the dial. No
\* path stops it while both legs can be used.
TimerWhileUp ==
  /\ timer => /\ \A leg \in Legs : state[leg] # "closed"
              /\ code = "none" /\ rejected = "none"
  /\ ~timer => \E leg \in Legs : ~Up(leg)

\* A session whose peers answer every ping within the timeout is never cut, although
\* the clock of the upstream starts before it is open and pings are only sent to
\* open legs. (A leg whose peer has closed it is pinged no more, and may be cut.)
HeartbeatJust ==
  [][HeartbeatCuts => \E leg \in Legs : ping[leg] > Timeout + 1 \/ state[leg] = "closing"]_relayVars

\* A peer that vanishes without a packet is noticed within two intervals and the
\* timeout, whenever it was last heard of.
DeadNoticed ==
  timer => \A leg \in Legs : gone[leg] <= 2 * Interval + Timeout + 1

\* The detection time config/realtime.ts gives: 20 s and 20 s, "so a dead client is
\* detected in ~40s worst case".
DeadNoticedInTime ==
  timer => gone["client"] <= Interval + Timeout + 1

\* A client whose upstream rejected the handshake learns why: the code of the
\* status, not the 1011 of the error and close events that follow.
RejectionKept ==
  rejected # "none" /\ code # "none" => code = MapStatus(rejected)

\* The client gets the answer to every frame of its own, in order, and none to the
\* relay's update: the one echo that is swallowed is the relay's (while the
\* upstream does not refuse it).
AnswersOwn ==
  ~Rejects /\ state["client"] = "open" =>
    /\ \A k \in DOMAIN got : got[k] = 0 <=> k = 1
    /\ shown = SubSeq(got, 2, answered)

Line == IF ~opened THEN IF Up("upstream") THEN "dialling" ELSE "down"
        ELSE IF state["upstream"] = "open" THEN "up" ELSE "down"

Said == InOrder({i \in DOMAIN heard : WellFormed(i)})

Channel == INSTANCE FrameChannel WITH
  Frames <- 1 .. MaxHeard, line <- Line, said <- Said,
  delivered <- IF got = <<>> THEN got ELSE Tail(got)

\* The upstream is sent the relay's update first and then what the client said,
\* nothing lost, repeated or reordered across the opening of the upstream.
FramesInOrder == Channel!Spec

\* A session that has lost a leg, or a peer, ends: no leg of it is left open.
SessionEnds ==
  (\E leg \in Legs : ~Up(leg) \/ gone[leg] > 0) ~> (\A leg \in Legs : state[leg] = "closed")
====
