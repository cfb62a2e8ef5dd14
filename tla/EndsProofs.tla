----------------------------- MODULE EndsProofs -----------------------------
(***************************************************************************)
(* What holds of the two ends of the link, whatever the radio does to what *)
(* they send: of link supervision (LinkHealth), of peer discovery and the  *)
(* camera stream (PeerLink), of the RTK base (RtkBase) and of the mission  *)
(* bridge (MissionBridge).  They keep no state in common; each has its own *)
(* invariant.                                                              *)
(***************************************************************************)
EXTENDS MissionBridge, PeerLink, LinkHealth, RtkBase, FiniteSetTheorems, TLAPS

-----------------------------------------------------------------------------
(* Link supervision. The time that a receive thread notes is that of the   *)
(* latest arrival, so that the one comparison of publish_link_stats stands *)
(* for all arrivals. It may lie after the clock that publish_link_stats    *)
(* has read; then the unsigned difference wraps to more than any timeout.  *)

\* last is the latest of times, which are not after now, or Never if there is none.
Latest(now, last, times) ==
    /\ last \in 0..now
    /\ times \subseteq 1..now
    /\ last # Never => last \in times
    /\ \A t \in times : t <= last

HealthInv ==
    /\ clock \in Nat \ {0} /\ clock <= MaxClock
    /\ now_ns \in 0..clock
    /\ arrivals = [any |-> arrivals.any, radio |-> arrivals.radio]
    /\ Latest(clock, last_rx, arrivals.any)
    /\ Latest(clock, last_radio, arrivals.radio)

\* The unsigned difference of two times is their distance, or huge.
LEMMA UnsignedDifference ==
    ASSUME NEW now \in Nat, NEW then \in Nat, now <= MaxClock, then <= MaxClock
    PROVE  /\ then <= now => Age(now, then) = now - then
           /\ then > now => Age(now, then) > LinkTimeout
<1>1. Wrap > MaxClock + LinkTimeout /\ Wrap \in Nat /\ MaxClock \in Nat /\ LinkTimeout \in Nat
  BY WrapAssumption, LinkTimeoutAssumption
<1>2. ASSUME NEW n \in 0..Wrap - 1 PROVE n % Wrap = n
  BY <1>1, <1>2
<1>3. ASSUME NEW n \in 1..Wrap - 1 PROVE (0 - n) % Wrap = Wrap - n
  BY <1>1, <1>3
<1>4. CASE then <= now
  <2>1. now - then \in 0..Wrap - 1
    BY <1>1, <1>4
  <2> QED BY <1>2, <1>4, <2>1 DEF Age
<1>5. CASE then > now
  <2>1. then - now \in 1..Wrap - 1 /\ now - then = 0 - (then - now)
    BY <1>1, <1>5
  <2>2. Age(now, then) = Wrap - (then - now)
    BY <1>3, <2>1 DEF Age
  <2> QED BY <1>1, <1>5, <2>2
<1> QED BY <1>4, <1>5

\* The comparison of publish_link_stats answers for all arrivals.
LEMMA RecentlyAgrees ==
    ASSUME HealthInv, NEW last, NEW times, Latest(clock, last, times)
    PROVE  Agrees(Recently(now_ns, last), times)
<1>1. /\ clock \in Nat /\ clock <= MaxClock /\ now_ns \in 0..clock /\ last \in 0..clock
      /\ times \subseteq 1..clock /\ LinkTimeout \in Nat /\ MaxClock \in Nat
  BY LinkTimeoutAssumption, WrapAssumption DEF HealthInv, Latest
<1>2. /\ last <= now_ns => Age(now_ns, last) = now_ns - last
      /\ last > now_ns => Age(now_ns, last) > LinkTimeout
  <2>1. now_ns \in Nat /\ last \in Nat /\ now_ns <= MaxClock /\ last <= MaxClock
    BY <1>1
  <2> QED BY <2>1, UnsignedDifference
<1>3. ASSUME Recently(now_ns, last) PROVE Heard(times)
  <2>1. last \in times /\ Age(now_ns, last) < LinkTimeout
    BY <1>3 DEF Recently, Latest
  <2>2. last <= now_ns
    <3>1. Age(now_ns, last) \in Int
      BY <1>1, <2>1, WrapAssumption DEF Age
    <3> QED BY <1>1, <1>2, <2>1, <3>1
  <2> QED BY <1>2, <2>1, <2>2 DEF Heard
<1>4. ASSUME Heard(times) PROVE Recently(now_ns, last) \/ HeardLater(times)
  <2>1. PICK t \in times : t <= now_ns /\ now_ns - t < LinkTimeout
    BY <1>4 DEF Heard
  <2>2. t \in 1..clock /\ t <= last
    BY <1>1, <2>1 DEF Latest
  <2>3. last # Never /\ last \in times
    BY <1>1, <2>2 DEF Latest, Never
  <2>4. CASE last > now_ns
    BY <2>3, <2>4 DEF HeardLater
  <2>5. CASE last <= now_ns
    <3>1. now_ns - last < LinkTimeout
      BY <1>1, <2>1, <2>2, <2>5
    <3> QED BY <1>2, <2>3, <2>5, <3>1 DEF Recently
  <2> QED BY <1>1, <2>4, <2>5
<1> QED BY <1>3, <1>4 DEF Agrees

LEMMA HealthInitially == HealthInit => HealthInv
BY WrapAssumption DEF HealthInit, HealthInv, Latest, Never

LEMMA LatestStays ==
    ASSUME NEW now \in Nat, NEW last, NEW times, Latest(now, last, times)
    PROVE  Latest(now + 1, last, times)
<1>1. 0..now \subseteq 0..now + 1 /\ 1..now \subseteq 1..now + 1
  OBVIOUS
<1> QED BY <1>1 DEF Latest

LEMMA LatestArrives ==
    ASSUME NEW now \in Nat, now # 0, NEW last, NEW times, Latest(now, last, times)
    PROVE  Latest(now, now, times \cup {now})
<1>1. now \in 0..now /\ now \in 1..now
  OBVIOUS
<1>2. ASSUME NEW t \in times \cup {now} PROVE t <= now
  <2>1. t \in 1..now
    BY <1>1 DEF Latest
  <2> QED BY <2>1
<1> QED BY <1>1, <1>2 DEF Latest

LEMMA HealthInductive == ASSUME HealthInv, [HealthNext]_healthVars PROVE HealthInv'
<1> USE DEF HealthInv
<1>1. CASE ClockTicks
  <2>1. /\ clock < MaxClock /\ clock' = clock + 1
        /\ UNCHANGED <<last_rx, last_radio, arrivals, now_ns>>
    BY <1>1 DEF ClockTicks, rxVars, statsVars
  <2>2. /\ clock' \in Nat \ {0} /\ clock' <= MaxClock /\ now_ns' \in 0..clock'
    BY <2>1, WrapAssumption
  <2>3. /\ Latest(clock', last_rx, arrivals.any)
        /\ Latest(clock', last_radio, arrivals.radio)
    BY <2>1, LatestStays
  <2> QED BY <2>1, <2>2, <2>3
<1>2. CASE ReceiveBytes
  <2>1. /\ clock' = clock /\ now_ns' = now_ns /\ last_rx' = clock /\ last_radio' = last_radio
        /\ arrivals' = [arrivals EXCEPT !.any = @ \cup {clock}]
    BY <1>2 DEF ReceiveBytes, Noted, statsVars
  <2>2. /\ arrivals'.any = arrivals.any \cup {clock} /\ arrivals'.radio = arrivals.radio
        /\ arrivals' = [any |-> arrivals'.any, radio |-> arrivals'.radio]
    BY <2>1
  <2>3. Latest(clock, clock, arrivals.any \cup {clock})
    BY LatestArrives
  <2> QED BY <2>1, <2>2, <2>3
<1>3. CASE ReceiveRadioStatus
  <2>1. /\ clock' = clock /\ now_ns' = now_ns /\ last_rx' = clock /\ last_radio' = clock
        /\ arrivals' = [any |-> arrivals.any \cup {clock}, radio |-> arrivals.radio \cup {clock}]
    BY <1>3 DEF ReceiveRadioStatus, Noted, statsVars
  <2>2. /\ Latest(clock, clock, arrivals.any \cup {clock})
        /\ Latest(clock, clock, arrivals.radio \cup {clock})
    BY LatestArrives
  <2> QED BY <2>1, <2>2
<1>4. CASE ReadClock
  <2>1. /\ now_ns' = clock /\ UNCHANGED <<clock, last_rx, last_radio, arrivals>>
    BY <1>4 DEF ReadClock, rxVars
  <2>2. clock \in 0..clock
    OBVIOUS
  <2> QED BY <2>1, <2>2
<1>5. CASE PublishLinkStats
  <2>1. /\ now_ns' = Never /\ UNCHANGED <<clock, last_rx, last_radio, arrivals>>
    BY <1>5 DEF PublishLinkStats, rxVars
  <2>2. Never \in 0..clock
    BY DEF Never
  <2> QED BY <2>1, <2>2
<1>6. CASE UNCHANGED <<clock, rxVars, statsVars>>
  BY <1>6 DEF rxVars, statsVars
<1>7. \/ Unplug \/ Replug \/ SerialNext \/ UNCHANGED healthVars
      => UNCHANGED <<clock, rxVars, statsVars>>
  BY DEF Unplug, Replug, SerialNext, LoseSerial, OpenSerial, SwapSerial, healthVars,
         rxVars, statsVars
<1> QED BY <1>1, <1>2, <1>3, <1>4, <1>5, <1>6, <1>7 DEF HealthNext

LEMMA HealthInvariant == HealthSpec => []HealthInv
BY HealthInitially, HealthInductive, PTL DEF HealthSpec

\* A link is reported as up if and only if something has come over it within the
\* timeout, but for what comes while the report is made (publish_link_stats).
THEOREM LinkStateIsTrue == HealthSpec => LinkStateTrue
<1>1. ASSUME HealthInv, [HealthNext]_healthVars, Reports
      PROVE  /\ Agrees(link_stats'.mavlink_connected, arrivals.any)
             /\ Agrees(link_stats'.radio_ok, arrivals.radio)
  <2>1. PublishLinkStats
    <3>1. ~ \/ ClockTicks \/ ReceiveBytes \/ ReceiveRadioStatus
            \/ Unplug \/ Replug \/ SerialNext \/ UNCHANGED healthVars
      BY <1>1 DEF Reports, ClockTicks, ReceiveBytes, ReceiveRadioStatus, Unplug, Replug,
                  SerialNext, LoseSerial, OpenSerial, SwapSerial, healthVars, statsVars
    <3>2. ~ReadClock
      BY <1>1 DEF Reports, ReadClock
    <3> QED BY <1>1, <3>1, <3>2 DEF HealthNext
  <2>2. /\ link_stats'.mavlink_connected = Recently(now_ns, last_rx)
        /\ link_stats'.radio_ok = Recently(now_ns, last_radio)
    BY <2>1 DEF PublishLinkStats
  <2>3. /\ Agrees(Recently(now_ns, last_rx), arrivals.any)
        /\ Agrees(Recently(now_ns, last_radio), arrivals.radio)
    <3>1. Latest(clock, last_rx, arrivals.any) /\ Latest(clock, last_radio, arrivals.radio)
      BY <1>1 DEF HealthInv
    <3> QED BY <1>1, <3>1, RecentlyAgrees
  <2> QED BY <2>2, <2>3
<1> QED BY <1>1, HealthInvariant, PTL DEF HealthSpec, LinkStateTrue

-----------------------------------------------------------------------------
(* Peer discovery and the camera stream. The ground station asks for a     *)
(* stream only when it knows its peer. It learns the peer from a vehicle   *)
(* that sends to it; a vehicle that has had a beacon sends to where that   *)
(* came from; and beacons do not outlast the ground station that sent      *)
(* them. So the address that a start request finds on the vehicle is never *)
(* that of an earlier ground station.                                      *)

GcsAddress == GcsHosts \cup {NoHost}
UavAddress == UavHosts \cup {NoHost}

PeerTypeOK ==
    /\ gcs \in [host : GcsHosts, peer : UavAddress, tick : Int, streaming : BOOLEAN]
    /\ uav \in [host : UavHosts, peer : GcsAddress, gcs_ip : GcsAddress,
                streaming : BOOLEAN, transport : GcsAddress]
    /\ beacons \subseteq {gcs.host}
    /\ requests \subseteq BOOLEAN /\ stats \subseteq BOOLEAN
    /\ events \in Nat

\* The vehicle sends to where the last beacon came from.
SendsToBeacon == uav.gcs_ip # NoHost => uav.peer = uav.gcs_ip

\* A ground station that knows the vehicle is the one that the vehicle knows.
KnownInTurn == gcs.peer # NoHost => uav.gcs_ip \in {NoHost, gcs.host}

AsksPeerOnly == requests # {} => gcs.peer # NoHost

PeerInv ==
    PeerTypeOK /\ SendsToBeacon /\ KnownInTurn /\ AsksPeerOnly /\ SilentUnlessAsked

LEMMA PeerInitially == PeerInit => PeerInv
<1>1. ASSUME NEW h \in GcsHosts
      PROVE  GcsStarted(h) \in [host : GcsHosts, peer : UavAddress, tick : Int,
                                streaming : BOOLEAN]
  BY DEF GcsStarted, UavAddress
<1>2. ASSUME NEW h \in UavHosts
      PROVE  UavStarted(h) \in [host : UavHosts, peer : GcsAddress, gcs_ip : GcsAddress,
                                streaming : BOOLEAN, transport : GcsAddress]
  BY DEF UavStarted, GcsAddress
<1>3. PeerInit => PeerTypeOK
  BY <1>1, <1>2 DEF PeerInit, PeerStart, PeerTypeOK
<1>4. PeerInit => SendsToBeacon /\ KnownInTurn /\ AsksPeerOnly /\ SilentUnlessAsked
  BY DEF PeerInit, PeerStart, GcsStarted, UavStarted, SendsToBeacon, KnownInTurn,
         AsksPeerOnly, SilentUnlessAsked, FramesTo
<1> QED BY <1>3, <1>4 DEF PeerInv

LEMMA PeerInductive == ASSUME PeerInv, [PeerNext]_peerVars PROVE PeerInv'
<1> USE HostsAssumption
    DEF PeerInv, PeerTypeOK, SendsToBeacon, KnownInTurn, AsksPeerOnly, SilentUnlessAsked,
        FramesTo, GcsAddress, UavAddress
<1>1. CASE SendPeerBeacon
  <2>1. /\ \E t \in Int : gcs' = [gcs EXCEPT !.tick = t]
        /\ beacons' \subseteq beacons \cup {gcs.host}
        /\ UNCHANGED <<uav, requests, stats, events>>
    <3>1. (gcs.tick + 1) % Keepalive \in Int
      BY KeepaliveAssumption
    <3> QED BY <1>1, <3>1 DEF SendPeerBeacon
  <2> QED BY <2>1
<1>2. ASSUME NEW h \in GcsHosts, HandlePeerBeacon(h) PROVE PeerInv'
  <2>1. /\ h = gcs.host
        /\ uav' = [uav EXCEPT !.peer = h, !.gcs_ip = h, !.transport = Transport(h)]
        /\ beacons' \subseteq beacons /\ UNCHANGED <<gcs, requests, stats, events>>
    BY <1>2 DEF HandlePeerBeacon, Target
  <2>2. Transport(h) \in GcsAddress /\ (Transport(h) # NoHost => uav.streaming)
    BY DEF Transport
  <2> QED BY <2>1, <2>2
<1>3. CASE UavHears
  BY <1>3 DEF UavHears, Latch
<1>4. CASE GcsHears
  BY <1>4 DEF GcsHears, Latch
<1>5. ASSUME NEW b \in BOOLEAN, OnCameraStreamRequest(b) PROVE PeerInv'
  <2>1. /\ gcs.peer # NoHost /\ gcs' = [gcs EXCEPT !.streaming = b]
        /\ requests' \subseteq requests \cup {b}
        /\ events' = events + 1 /\ UNCHANGED <<uav, beacons, stats>>
    BY <1>5 DEF OnCameraStreamRequest, Event, PeerKnown
  <2> QED BY <2>1
<1>6. CASE StartCameraStream
  BY <1>6 DEF StartCameraStream
<1>7. CASE StopCameraStream
  BY <1>7 DEF StopCameraStream
<1>8. CASE SendRadioStats
  BY <1>8 DEF SendRadioStats
<1>9. ASSUME NEW b \in BOOLEAN, NamedValue(b) PROVE PeerInv'
  BY <1>9 DEF NamedValue, Displayed
<1>10. ASSUME NEW h \in GcsHosts, GcsRestarts(h) PROVE PeerInv'
  <2>1. /\ gcs' = [host |-> h, peer |-> NoHost, tick |-> 0, streaming |-> FALSE]
        /\ beacons' = {} /\ requests' = {} /\ stats' = {}
        /\ events' = events + 1 /\ UNCHANGED uav
    BY <1>10 DEF GcsRestarts, Event, GcsStarted
  <2> QED BY <2>1
<1>11. CASE UavRestarts
  <2>1. /\ uav' = [host |-> uav.host, peer |-> NoHost, gcs_ip |-> NoHost,
                   streaming |-> FALSE, transport |-> NoHost]
        /\ beacons' = {} /\ requests' = {} /\ stats' = {}
        /\ events' = events + 1 /\ UNCHANGED gcs
    BY <1>11 DEF UavRestarts, Event, UavStarted
  <2> QED BY <2>1
<1>12. ASSUME NEW h \in UavHosts, UavMoves(h) PROVE PeerInv'
  BY <1>12 DEF UavMoves, Event
<1>13. CASE UNCHANGED peerVars
  BY <1>13 DEF peerVars
<1> QED BY <1>1, <1>2, <1>3, <1>4, <1>5, <1>6, <1>7, <1>8, <1>9, <1>10, <1>11, <1>12, <1>13
        DEF PeerNext

LEMMA PeerInvariant == PeerSpec => []PeerInv
BY PeerInitially, PeerInductive, PTL DEF PeerSpec

\* A stream that was stopped or never asked for sends no frames, whatever beacons,
\* requests and restarts come in whatever order (CommsUav::on_camera_frame).
THEOREM StoppedStreamIsSilent == PeerSpec => []SilentUnlessAsked
<1>1. PeerInv => SilentUnlessAsked
  BY DEF PeerInv
<1> QED BY <1>1, PeerInvariant, PTL

\* A start request brings the frames to the ground station that sent it or, until a
\* beacon comes, nowhere (CommsUav::start_camera_stream).
THEOREM StreamIsForSender == PeerSpec => StreamReachesSender
<1>1. ASSUME PeerInv, [PeerNext]_peerVars, Starts PROVE uav'.transport \in {NoHost, gcs.host}
  <2> USE <1>1 DEF Starts, PeerInv, PeerTypeOK
  <2>1. CASE StartCameraStream
    <3>1. uav'.transport = uav.gcs_ip
      BY <2>1 DEF StartCameraStream
    <3>2. uav.gcs_ip \in {NoHost, gcs.host}
      BY DEF AsksPeerOnly, KnownInTurn
    <3> QED BY <3>1, <3>2
  <2>2. requests' # requests /\ events' = events
    OBVIOUS
  <2>3. ~SendPeerBeacon /\ ~UavHears /\ ~GcsHears /\ ~SendRadioStats /\ ~StopCameraStream
    BY <2>2 DEF SendPeerBeacon, UavHears, GcsHears, SendRadioStats, StopCameraStream
  <2>4. ASSUME NEW h \in GcsHosts PROVE ~HandlePeerBeacon(h) /\ ~GcsRestarts(h)
    BY <2>2 DEF HandlePeerBeacon, GcsRestarts, Event
  <2>5. ASSUME NEW b \in BOOLEAN PROVE ~NamedValue(b) /\ ~OnCameraStreamRequest(b)
    BY <2>2 DEF NamedValue, OnCameraStreamRequest, Event
  <2>6. ASSUME NEW h \in UavHosts PROVE ~UavMoves(h)
    BY <2>2 DEF UavMoves, Event
  <2>7. ~UavRestarts /\ ~UNCHANGED peerVars
    BY <2>2 DEF UavRestarts, Event, peerVars
  <2> QED BY <1>1, <2>1, <2>3, <2>4, <2>5, <2>6, <2>7 DEF PeerNext
<1> QED BY <1>1, PeerInvariant, PTL DEF PeerSpec, StreamReachesSender

-----------------------------------------------------------------------------
(* The RTK base. What the thread has learnt from the receiver stays true   *)
(* while the Serial it has open works: only the thread itself resets a     *)
(* survey, and a power cycle, which would do so too, breaks the            *)
(* connection.                                                             *)

Stages == {"waiting", "polling", "configuring", "starting", "enabling", "resuming",
           "surveying", "streaming", "ended"}

BaseTypeOK ==
    /\ receiver \in [plugged : BOOLEAN, survey : {"none", "active", "valid"}, rtcm : BOOLEAN]
    /\ reader \in Stages
    /\ serial \in BOOLEAN /\ unanswered \in BOOLEAN

\* What the stage of the thread tells of the receiver at the other end.
StageKnows ==
    serial =>
        /\ reader = "configuring" /\ receiver.survey # "none" => unanswered
        /\ reader = "resuming" => receiver.survey = "valid"
        /\ reader = "surveying" => receiver.rtcm
        /\ reader = "streaming" => receiver.rtcm /\ receiver.survey # "none"

BaseInv == BaseTypeOK /\ StageKnows

LEMMA BaseInitially == BaseInit => BaseInv
BY DEF BaseInit, BaseStart, BaseInv, BaseTypeOK, StageKnows, Stages

LEMMA BaseInductive == ASSUME BaseInv, [BaseNext]_baseVars PROVE BaseInv'
<1> USE DEF BaseInv, BaseTypeOK, StageKnows, Stages
<1>1. CASE WaitForPort
  BY <1>1 DEF WaitForPort, Opened
<1>2. CASE SurveyState
  BY <1>2 DEF SurveyState, After, Fault
<1>3. CASE ResetTimeMode
  BY <1>3 DEF ResetTimeMode
<1>4. CASE StartSurvey
  BY <1>4 DEF StartSurvey, Fault
<1>5. CASE EnableOutput
  BY <1>5 DEF EnableOutput
<1>6. CASE WaitForSurvey
  BY <1>6 DEF WaitForSurvey, SurveyOver
<1>7. CASE LinkLost \/ ThreadEnds
  BY <1>7 DEF LinkLost, ThreadEnds
<1>8. CASE SurveyEnds
  BY <1>8 DEF SurveyEnds
<1>9. CASE Disconnect \/ PowerCycle
  <2>1. serial' = FALSE /\ UNCHANGED <<reader, unanswered>>
    BY <1>9 DEF Disconnect, PowerCycle
  <2>2. receiver' \in [plugged : BOOLEAN, survey : {"none", "active", "valid"}, rtcm : BOOLEAN]
    <3>1. CASE Disconnect
      BY <3>1 DEF Disconnect
    <3>2. CASE PowerCycle
      BY <3>2 DEF PowerCycle
    <3> QED BY <1>9, <3>1, <3>2
  <2> QED BY <2>1, <2>2
<1>10. CASE Connect
  BY <1>10 DEF Connect
<1>11. CASE UNCHANGED baseVars
  BY <1>11 DEF baseVars
<1> QED BY <1>1, <1>2, <1>3, <1>4, <1>5, <1>6, <1>7, <1>8, <1>9, <1>10, <1>11
        DEF BaseNext, ReaderNext

LEMMA BaseInvariant == BaseSpec => []BaseInv
BY BaseInitially, BaseInductive, PTL DEF BaseSpec

\* Corrections that are passed on come from a receiver that has them enabled and has
\* begun its survey at least, whatever was lost before (RtcmReader._run).
THEOREM StreamIsSurveyed == BaseSpec => []StreamSurveyed
<1>1. BaseInv => StreamSurveyed
  BY DEF BaseInv, StageKnows, StreamSurveyed, Streaming
<1> QED BY <1>1, BaseInvariant, PTL

\* A survey that the receiver still holds is not started over, unless a poll was not
\* answered in time (RtcmReader._survey_state, _configure_receiver).
THEOREM SurveyIsKept == BaseSpec => SurveyKept
<1>1. ASSUME BaseInv, [BaseNext]_baseVars, receiver.survey # "none", receiver'.survey = "none"
      PROVE  ~receiver'.plugged \/ unanswered
  <2> USE <1>1 DEF BaseInv, BaseTypeOK, StageKnows, Stages
  <2>1. CASE ResetTimeMode
    BY <2>1 DEF ResetTimeMode
  <2>2. CASE StartSurvey \/ EnableOutput \/ SurveyEnds
    BY <2>2 DEF StartSurvey, EnableOutput, SurveyEnds
  <2>3. CASE Disconnect \/ PowerCycle
    BY <2>3 DEF Disconnect, PowerCycle
  <2>4. CASE Connect
    BY <2>4 DEF Connect
  <2>5. CASE UNCHANGED receiver
    BY <2>5
  <2>6. WaitForPort \/ SurveyState \/ WaitForSurvey \/ LinkLost \/ ThreadEnds
          => UNCHANGED receiver
    BY DEF WaitForPort, SurveyState, WaitForSurvey, LinkLost, ThreadEnds
  <2>7. UNCHANGED baseVars => UNCHANGED receiver
    BY DEF baseVars
  <2> QED BY <2>1, <2>2, <2>3, <2>4, <2>5, <2>6, <2>7 DEF BaseNext, ReaderNext
<1> QED BY <1>1, BaseInvariant, PTL DEF BaseSpec, SurveyKept

-----------------------------------------------------------------------------
(* The mission bridge. Every start that the executor has taken, every      *)
(* start message on the link and every send that the request in hand has   *)
(* left is one of the MISSION_MAX_RETRIES sends of one start request; a    *)
(* message moves from one of these to the next and a lost one leaves them. *)

BridgeTypeOK ==
    /\ request \in [Requests -> [active : BOOLEAN, blob : Plans \cup {NoPlan}, attempts : Nat]]
    /\ up \in [Requests \X Plans -> Nat]
    /\ begun \in Nat /\ runs \in Nat

ActiveIsAllowed ==
    \A k \in Requests : request[k].active =>
        request[k].blob \in Plans /\ request[k].attempts <= MaxAttempts

\* The start messages of the link, each by its plan and its number among those of the plan.
StartsOn(link) == {x \in Plans \X Nat : x[2] \in 1..link[<<"start", x[1]>>]}

\* The sends that the start request in hand has left.
SendsLeft == IF request["start"].active THEN MaxAttempts - request["start"].attempts ELSE 0

\* What has flown, what is on the way and what may still be sent, all together.
StartsAllowed ==
    /\ IsFiniteSet(StartsOn(up))
    /\ runs + Cardinality(StartsOn(up)) + SendsLeft <= begun * MaxAttempts

BridgeInv == BridgeTypeOK /\ ActiveIsAllowed /\ StartsAllowed

LEMMA BridgeInitially == BridgeInit => BridgeInv
<1> SUFFICES ASSUME BridgeInit PROVE BridgeInv
  OBVIOUS
<1> USE DEF BridgeInit
<1>1. Idle \in [active : BOOLEAN, blob : Plans \cup {NoPlan}, attempts : Nat] /\ ~Idle.active
  BY DEF Idle
<1>2. BridgeTypeOK
  BY <1>1 DEF BridgeTypeOK
<1>3. ActiveIsAllowed
  BY <1>1 DEF ActiveIsAllowed
<1>4. StartsOn(up) = {}
  <2> SUFFICES ASSUME NEW p \in Plans, NEW n \in Nat, n \in 1..up[<<"start", p>>] PROVE FALSE
    BY DEF StartsOn
  <2>1. up[<<"start", p>>] = 0
    BY DEF Requests
  <2> QED BY <2>1
<1>5. SendsLeft = 0
  BY <1>1 DEF SendsLeft, Requests
<1>6. begun * MaxAttempts = 0
  BY BoundsAssumption
<1>7. StartsAllowed
  <2>1. IsFiniteSet(StartsOn(up)) /\ Cardinality(StartsOn(up)) = 0
    BY <1>4, FS_EmptySet
  <2> QED BY <1>5, <1>6, <2>1 DEF StartsAllowed
<1> QED BY <1>2, <1>3, <1>7 DEF BridgeInv

\* A start message that is sent is one more on the link, or is lost.
LEMMA StartSent ==
    ASSUME NEW link \in [Requests \X Plans -> Nat], NEW p \in Plans, IsFiniteSet(StartsOn(link)),
           NEW sent \in Send(link, <<"start", p>>)
    PROVE  /\ sent \in [Requests \X Plans -> Nat]
           /\ IsFiniteSet(StartsOn(sent))
           /\ Cardinality(StartsOn(sent)) <= Cardinality(StartsOn(link)) + 1
<1> DEFINE m == <<"start", p>>
           n == link[m] + 1
<1>0. m \in Requests \X Plans /\ link[m] \in Nat /\ n \in Nat
  BY DEF Requests
<1>1. Cardinality(StartsOn(link)) \in Nat
  BY FS_CardinalityType
<1>2. CASE sent = link
  BY <1>1, <1>2
<1>3. CASE sent = [link EXCEPT ![m] = @ + 1]
  <2>1. sent \in [Requests \X Plans -> Nat] /\ sent[m] = n
    BY <1>0, <1>3
  <2>2. ASSUME NEW q \in Plans, q # p PROVE sent[<<"start", q>>] = link[<<"start", q>>]
    <3>1. <<"start", q>> \in Requests \X Plans /\ <<"start", q>> # m
      BY <2>2 DEF Requests
    <3> QED BY <1>3, <3>1
  <2>3. StartsOn(sent) = StartsOn(link) \cup {<<p, n>>}
    <3>1. ASSUME NEW q \in Plans, NEW i \in Nat
          PROVE  i \in 1..sent[<<"start", q>>]
                   <=> i \in 1..link[<<"start", q>>] \/ (q = p /\ i = n)
      <4>1. CASE q = p
        <5>1. link[m] \in Nat /\ sent[m] = link[m] + 1
          BY <1>0, <2>1
        <5>2. i \in 1..link[m] + 1 <=> i \in 1..link[m] \/ i = link[m] + 1
          BY ONLY <5>1, i \in Nat
        <5> QED BY <4>1, <5>1, <5>2
      <4>2. CASE q # p
        BY <2>2, <4>2
      <4> QED BY <4>1, <4>2
    <3>2. <<p, n>> \in Plans \X Nat
      BY <1>0
    <3> HIDE DEF m, n
    <3> QED BY <3>1, <3>2 DEF StartsOn
  <2>4. /\ IsFiniteSet(StartsOn(sent))
        /\ Cardinality(StartsOn(sent)) = IF <<p, n>> \in StartsOn(link)
                                          THEN Cardinality(StartsOn(link))
                                          ELSE Cardinality(StartsOn(link)) + 1
    BY ONLY IsFiniteSet(StartsOn(link)), <2>3, FS_AddElement
  <2> QED BY <1>1, <2>1, <2>4
<1> QED BY <1>2, <1>3 DEF Send

\* Of other messages there may be more or fewer.
LEMMA OthersDoNotCount ==
    ASSUME NEW link \in [Requests \X Plans -> Nat], NEW k \in Requests, k # "start",
           NEW p \in Plans, NEW other,
           other \in Send(link, <<k, p>>) \/ (link[<<k, p>>] > 0 /\ other = Take(link, <<k, p>>))
    PROVE  other \in [Requests \X Plans -> Nat] /\ StartsOn(other) = StartsOn(link)
<1>1. <<k, p>> \in Requests \X Plans /\ link[<<k, p>>] \in Nat
  OBVIOUS
<1>2. /\ other \in [Requests \X Plans -> Nat]
      /\ \A q \in Plans : other[<<"start", q>>] = link[<<"start", q>>]
  <2>1. ASSUME NEW q \in Plans PROVE <<"start", q>> \in Requests \X Plans /\ <<"start", q>> # <<k, p>>
    BY DEF Requests
  <2>2. PICK i \in Nat : other = link \/ other = [link EXCEPT ![<<k, p>>] = i]
    <3>1. link[<<k, p>>] + 1 \in Nat /\ (link[<<k, p>>] > 0 => link[<<k, p>>] - 1 \in Nat)
      BY <1>1
    <3> QED BY <3>1 DEF Send, Take
  <2> QED BY <1>1, <2>1, <2>2
<1> QED BY <1>2 DEF StartsOn

LEMMA StartTaken ==
    ASSUME NEW link \in [Requests \X Plans -> Nat], NEW p \in Plans, IsFiniteSet(StartsOn(link)),
           link[<<"start", p>>] > 0, NEW rest, rest = Take(link, <<"start", p>>)
    PROVE  /\ rest \in [Requests \X Plans -> Nat]
           /\ IsFiniteSet(StartsOn(rest))
           /\ Cardinality(StartsOn(rest)) = Cardinality(StartsOn(link)) - 1
<1> DEFINE m == <<"start", p>>
           n == link[m]
<1>0. m \in Requests \X Plans /\ n \in Nat /\ n > 0 /\ n - 1 \in Nat
  BY DEF Requests
<1>1. rest \in [Requests \X Plans -> Nat] /\ rest[m] = n - 1
  BY <1>0 DEF Take
<1>2. ASSUME NEW q \in Plans, q # p PROVE rest[<<"start", q>>] = link[<<"start", q>>]
  <2>1. <<"start", q>> \in Requests \X Plans /\ <<"start", q>> # m
    BY <1>2 DEF Requests
  <2> QED BY <2>1 DEF Take
<1>3. StartsOn(rest) = StartsOn(link) \ {<<p, n>>} /\ <<p, n>> \in StartsOn(link)
  <2>1. ASSUME NEW q \in Plans, NEW i \in Nat
        PROVE  i \in 1..rest[<<"start", q>>]
                 <=> i \in 1..link[<<"start", q>>] /\ ~(q = p /\ i = n)
    <3>1. CASE q = p
      BY <1>0, <1>1, <3>1
    <3>2. CASE q # p
      BY <1>2, <3>2
    <3> QED BY <3>1, <3>2
  <2>2. <<p, n>> \in Plans \X Nat /\ n \in 1..link[<<"start", p>>]
    BY <1>0
  <2> HIDE DEF m, n
  <2> QED BY <2>1, <2>2 DEF StartsOn
<1>4. /\ IsFiniteSet(StartsOn(rest))
      /\ Cardinality(StartsOn(rest)) = Cardinality(StartsOn(link)) - 1
  BY ONLY IsFiniteSet(StartsOn(link)), <1>3, FS_RemoveElement
<1> QED BY <1>1, <1>4

LEMMA BridgeInductive == ASSUME BridgeInv, [BridgeNext]_bridgeVars PROVE BridgeInv'
<1> USE DEF BridgeInv
<1>0. /\ BridgeTypeOK /\ ActiveIsAllowed /\ StartsAllowed
      /\ request \in [Requests -> [active : BOOLEAN, blob : Plans \cup {NoPlan}, attempts : Nat]]
      /\ up \in [Requests \X Plans -> Nat]
      /\ begun \in Nat /\ runs \in Nat /\ "start" \in Requests
      /\ MaxAttempts \in Nat \ {0} /\ begun * MaxAttempts \in Nat
      /\ IsFiniteSet(StartsOn(up)) /\ Cardinality(StartsOn(up)) \in Nat
      /\ SendsLeft \in Nat
  <2>1. request["start"].active => request["start"].attempts \in 0..MaxAttempts
    BY BoundsAssumption DEF BridgeTypeOK, ActiveIsAllowed, Requests
  <2>2. SendsLeft \in Nat
    BY <2>1, BoundsAssumption DEF SendsLeft
  <2> QED BY <2>2, BoundsAssumption, FS_CardinalityType DEF BridgeTypeOK, StartsAllowed, Requests
<1>1. ASSUME NEW k \in Requests, NEW p \in Plans, OnMission(k, p) PROVE BridgeInv'
  <2>1. PICK r : r = [active |-> TRUE, blob |-> p, attempts |-> 1]
    OBVIOUS
  <2>2. /\ r \in [active : BOOLEAN, blob : Plans \cup {NoPlan}, attempts : Nat]
        /\ r.active = TRUE /\ r.blob = p /\ r.attempts = 1
    BY <2>1
  <2>3. /\ begun' = IF k = "start" THEN begun + 1 ELSE begun
        /\ request' = [request EXCEPT ![k] = r]
        /\ up' \in Send(up, <<k, p>>) /\ runs' = runs
    BY <1>1, <2>1 DEF OnMission
  <2>4. up' \in [Requests \X Plans -> Nat]
    <3>1. CASE k = "start"
      BY <1>0, <2>3, <3>1, StartSent
    <3>2. CASE k # "start"
      BY <1>0, <2>3, <3>2, OthersDoNotCount
    <3> QED BY <3>1, <3>2
  <2>5. BridgeTypeOK'
    <3>1. request' \in [Requests ->
                          [active : BOOLEAN, blob : Plans \cup {NoPlan}, attempts : Nat]]
      BY <1>0, <2>2, <2>3
    <3>2. begun' \in Nat /\ runs' \in Nat
      BY <1>0, <2>3
    <3> QED BY <2>4, <3>1, <3>2 DEF BridgeTypeOK
  <2>6. ActiveIsAllowed'
    BY <1>0, <2>2, <2>3 DEF ActiveIsAllowed
  <2>7. CASE k = "start"
    <3>1. /\ IsFiniteSet(StartsOn(up'))
          /\ Cardinality(StartsOn(up')) <= Cardinality(StartsOn(up)) + 1
      BY <1>0, <2>3, <2>7, StartSent
    <3>2. SendsLeft' = MaxAttempts - 1
      BY <1>0, <2>2, <2>3, <2>7 DEF SendsLeft
    <3>3. begun' * MaxAttempts = begun * MaxAttempts + MaxAttempts
      BY <1>0, <2>3, <2>7
    <3>4. runs' + Cardinality(StartsOn(up')) + SendsLeft' <= begun' * MaxAttempts
      <4>1. Cardinality(StartsOn(up')) \in Nat
        BY <3>1, FS_CardinalityType
      <4>2. runs + Cardinality(StartsOn(up)) + SendsLeft <= begun * MaxAttempts
        BY <1>0 DEF StartsAllowed
      <4> QED BY <1>0, <2>3, <3>1, <3>2, <3>3, <4>1, <4>2
    <3> QED BY <2>5, <2>6, <3>1, <3>4 DEF StartsAllowed
  <2>8. CASE k # "start"
    <3>1. StartsOn(up') = StartsOn(up)
      BY <1>0, <2>3, <2>8, OthersDoNotCount
    <3>2. request'["start"] = request["start"] /\ begun' = begun
      BY <1>0, <2>3, <2>8
    <3> QED BY <1>0, <2>3, <2>5, <2>6, <3>1, <3>2 DEF StartsAllowed, SendsLeft
  <2> QED BY <2>7, <2>8
<1>2. ASSUME NEW k \in Requests, Retry(k) PROVE BridgeInv'
  <2>1. PICK p \in Plans, n \in Nat : request[k].blob = p /\ request[k].attempts = n
    BY <1>0, <1>2 DEF Retry, ActiveIsAllowed
  <2>2. PICK r : r = [request[k] EXCEPT !.attempts = n + 1]
    OBVIOUS
  <2>3. /\ r \in [active : BOOLEAN, blob : Plans \cup {NoPlan}, attempts : Nat]
        /\ r.active = request[k].active /\ r.blob = p /\ r.attempts = n + 1
    <3>1. request[k] \in [active : BOOLEAN, blob : Plans \cup {NoPlan}, attempts : Nat]
      BY <1>0
    <3> QED BY <2>1, <2>2, <3>1
  <2>4. /\ request[k].active /\ request[k].attempts = n /\ n < MaxAttempts
        /\ request' = [request EXCEPT ![k] = r]
        /\ up' \in Send(up, <<k, p>>) /\ begun' = begun /\ runs' = runs
    BY <1>2, <2>1, <2>2 DEF Retry, history
  <2>5. up' \in [Requests \X Plans -> Nat]
    <3>1. CASE k = "start"
      BY <1>0, <2>4, <3>1, StartSent
    <3>2. CASE k # "start"
      BY <1>0, <2>4, <3>2, OthersDoNotCount
    <3> QED BY <3>1, <3>2
  <2>6. BridgeTypeOK'
    BY <1>0, <2>3, <2>4, <2>5 DEF BridgeTypeOK
  <2>7. ActiveIsAllowed'
    BY <1>0, <2>3, <2>4 DEF ActiveIsAllowed
  <2>8. CASE k = "start"
    <3>1. /\ IsFiniteSet(StartsOn(up'))
          /\ Cardinality(StartsOn(up')) <= Cardinality(StartsOn(up)) + 1
      BY <1>0, <2>4, <2>8, StartSent
    <3>2. SendsLeft = MaxAttempts - n /\ SendsLeft' = MaxAttempts - (n + 1)
      BY <1>0, <2>3, <2>4, <2>8 DEF SendsLeft
    <3>3. runs' + Cardinality(StartsOn(up')) + SendsLeft' <= begun' * MaxAttempts
      <4>1. Cardinality(StartsOn(up')) \in Nat
        BY <3>1, FS_CardinalityType
      <4>2. runs + Cardinality(StartsOn(up)) + SendsLeft <= begun * MaxAttempts
        BY <1>0 DEF StartsAllowed
      <4> QED BY <1>0, <2>4, <3>1, <3>2, <4>1, <4>2
    <3> QED BY <2>6, <2>7, <3>1, <3>3 DEF StartsAllowed
  <2>9. CASE k # "start"
    <3>1. StartsOn(up') = StartsOn(up)
      BY <1>0, <2>4, <2>9, OthersDoNotCount
    <3>2. request'["start"] = request["start"]
      BY <1>0, <2>4, <2>9
    <3> QED BY <1>0, <2>4, <2>6, <2>7, <3>1, <3>2 DEF StartsAllowed, SendsLeft
  <2> QED BY <2>8, <2>9
<1>3. ASSUME NEW r \in [Requests -> [active : BOOLEAN, blob : Plans \cup {NoPlan}, attempts : Nat]],
             \A k \in Requests : \/ r[k] = request[k]
                                 \/ r[k] = [request[k] EXCEPT !.active = FALSE],
             request' = r, UNCHANGED <<begun, runs, up>>
      PROVE  BridgeInv'
  <2>1. ASSUME NEW k \in Requests
        PROVE  r[k].active => request[k].active /\ r[k] = request[k]
    <3>1. [request[k] EXCEPT !.active = FALSE].active = FALSE
      BY <1>0
    <3> QED BY <1>3, <3>1
  <2>2. BridgeTypeOK'
    BY <1>0, <1>3 DEF BridgeTypeOK
  <2>3. ActiveIsAllowed'
    BY <1>0, <1>3, <2>1 DEF ActiveIsAllowed
  <2>4. SendsLeft' \in Nat /\ SendsLeft' <= SendsLeft
    <3>1. CASE r["start"].active
      BY <1>0, <1>3, <2>1, <3>1 DEF SendsLeft
    <3>2. CASE ~r["start"].active
      BY <1>0, <1>3, <3>2 DEF SendsLeft
    <3> QED BY <3>1, <3>2
  <2>5. StartsAllowed'
    BY <1>0, <1>3, <2>4 DEF StartsAllowed
  <2> QED BY <2>2, <2>3, <2>5
<1>4. ASSUME NEW k \in Requests, NEW p \in Plans, Receive(k, p) PROVE BridgeInv'
  <2>1. /\ up[<<k, p>>] > 0 /\ up' = Take(up, <<k, p>>)
        /\ request' = request /\ begun' = begun
    BY <1>4 DEF Receive
  <2>2. runs' = runs \/ (k = "start" /\ runs' = runs + 1)
    BY <1>4 DEF Receive, ReceiveUpload, ReceiveStart, ReceiveAbort
  <2>3. CASE k = "start"
    <3>1. /\ up' \in [Requests \X Plans -> Nat]
          /\ IsFiniteSet(StartsOn(up'))
          /\ Cardinality(StartsOn(up')) = Cardinality(StartsOn(up)) - 1
      BY <1>0, <2>1, <2>3, StartTaken
    <3>2. runs' \in Nat /\ runs' <= runs + 1
      BY <1>0, <2>2
    <3>3. StartsAllowed'
      BY <1>0, <2>1, <3>1, <3>2 DEF StartsAllowed, SendsLeft
    <3> QED BY <1>0, <2>1, <3>1, <3>2, <3>3 DEF BridgeTypeOK, ActiveIsAllowed
  <2>4. CASE k # "start"
    <3>1. up' \in [Requests \X Plans -> Nat] /\ StartsOn(up') = StartsOn(up)
      <4>1. PICK rest : rest = Take(up, <<k, p>>)
        OBVIOUS
      <4>2. rest \in [Requests \X Plans -> Nat] /\ StartsOn(rest) = StartsOn(up)
        BY <1>0, <2>1, <2>4, <4>1, OthersDoNotCount
      <4> QED BY <2>1, <4>1, <4>2
    <3>2. runs' = runs
      BY <2>2, <2>4
    <3>3. StartsAllowed'
      BY <1>0, <2>1, <3>1, <3>2 DEF StartsAllowed, SendsLeft
    <3> QED BY <1>0, <2>1, <3>1, <3>2, <3>3 DEF BridgeTypeOK, ActiveIsAllowed
  <2> QED BY <2>3, <2>4
<1>5. ASSUME NEW k \in Requests, GiveUp(k) PROVE BridgeInv'
  <2>1. PICK r : r = [request[k] EXCEPT !.active = FALSE]
    OBVIOUS
  <2>2. r \in [active : BOOLEAN, blob : Plans \cup {NoPlan}, attempts : Nat]
    BY <1>0, <2>1
  <2>3. request' = [request EXCEPT ![k] = r] /\ UNCHANGED <<begun, runs, up>>
    BY <1>5, <2>1 DEF GiveUp, linkVars, history
  <2>4. /\ request' \in [Requests -> [active : BOOLEAN, blob : Plans \cup {NoPlan}, attempts : Nat]]
        /\ \A l \in Requests : \/ request'[l] = request[l]
                               \/ request'[l] = [request[l] EXCEPT !.active = FALSE]
    BY <1>0, <2>1, <2>2, <2>3
  <2> QED BY <1>3, <2>3, <2>4
<1>7. ASSUME NEW q \in Replies, HandleReply(q) PROVE BridgeInv'
  <2>1. /\ request' = [k \in Requests |->
               IF (k = "upload") = (q = "validate")
               THEN [request[k] EXCEPT !.active = FALSE] ELSE request[k]]
        /\ UNCHANGED <<begun, runs, up>>
    BY <1>7 DEF HandleReply, history
  <2>2. ASSUME NEW k \in Requests
        PROVE  [request[k] EXCEPT !.active = FALSE]
                 \in [active : BOOLEAN, blob : Plans \cup {NoPlan}, attempts : Nat]
    BY <1>0
  <2>3. /\ request' \in [Requests -> [active : BOOLEAN, blob : Plans \cup {NoPlan}, attempts : Nat]]
        /\ \A l \in Requests : \/ request'[l] = request[l]
                               \/ request'[l] = [request[l] EXCEPT !.active = FALSE]
    BY <1>0, <2>1, <2>2
  <2> QED BY <1>3, <2>1, <2>3
<1>6. CASE ExecutorTick \/ UNCHANGED bridgeVars
  <2>1. UNCHANGED <<request, up, begun, runs>>
    BY <1>6 DEF ExecutorTick, bridgeVars, linkVars, history
  <2> QED BY <2>1 DEF BridgeTypeOK, ActiveIsAllowed, StartsAllowed, SendsLeft, StartsOn
<1> QED BY <1>1, <1>2, <1>4, <1>5, <1>6, <1>7 DEF BridgeNext

LEMMA BridgeInvariant == BridgeSpec => []BridgeInv
BY BridgeInitially, BridgeInductive, PTL DEF BridgeSpec

\* The executor starts plans no more often than start requests are sent, that is
\* MISSION_MAX_RETRIES times for each (CommsGcs::check_mission_retries).
THEOREM RunsAreBounded == BridgeSpec => []RunsBounded
<1>1. BridgeInv => RunsBounded
  <2> SUFFICES ASSUME BridgeInv PROVE RunsBounded
    OBVIOUS
  <2>1. /\ runs \in Nat /\ begun * MaxAttempts \in Nat /\ Cardinality(StartsOn(up)) \in Nat
        /\ runs + Cardinality(StartsOn(up)) + SendsLeft <= begun * MaxAttempts
    BY BoundsAssumption, FS_CardinalityType DEF BridgeInv, BridgeTypeOK, StartsAllowed
  <2>2. SendsLeft \in Nat
    <3>1. request["start"].active => request["start"].attempts \in 0..MaxAttempts
      BY BoundsAssumption DEF BridgeInv, BridgeTypeOK, ActiveIsAllowed, Requests
    <3> QED BY <3>1, BoundsAssumption DEF SendsLeft
  <2> QED BY <2>1, <2>2 DEF RunsBounded
<1> QED BY <1>1, BridgeInvariant, PTL
=============================================================================
