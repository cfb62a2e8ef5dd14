------------------------------ MODULE PeerLink ------------------------------
(***************************************************************************)
(* How ground station and vehicle find each other on WiFi and keep a       *)
(* camera stream between them (asr_comms: send_peer_beacon,                *)
(* handle_peer_beacon, udp_socket.h, start_camera_stream,                  *)
(* stop_camera_stream, on_camera_frame, on_camera_stream_request).  The    *)
(* radio always carries; a WiFi packet arrives if it is sent to where the  *)
(* other side is.  Either side may restart, the ground station possibly on *)
(* another host, and the vehicle may be given another address.             *)
(*                                                                         *)
(* Beacons, heartbeats and radio statistics are sent for ever, and a lost  *)
(* one is no different here from a timer that fires later.                 *)
(***************************************************************************)
EXTENDS Integers

CONSTANTS
    GcsHosts,   \* addresses the ground station may have
    UavHosts,   \* addresses the vehicle may have
    NoHost,     \* no address: the WiFi of a side that is off
    Keepalive,  \* 10: beacon timer ticks between two beacons to a known peer
    MaxEvents   \* bound: requests, restarts and moves

ASSUME HostsAssumption == NoHost \notin GcsHosts \cup UavHosts
ASSUME KeepaliveAssumption == Keepalive \in Nat \ {0} /\ MaxEvents \in Nat

VARIABLES
    gcs,       \* the ground station: its host, its peer, beacon_tick_, camera_streaming_
    uav,       \* the vehicle: its host, its peer, gcs_wifi_ip_, camera_streaming_,
               \* camera_transport_
    beacons,   \* beacons under way
    requests,  \* camera requests under way
    stats,     \* values of cam_stream under way
    strayed,   \* history: the vehicle has moved since the ground station started
    events     \* history: requests, restarts and moves

peerVars == <<gcs, uav, beacons, requests, stats, strayed, events>>

GcsStarted(host) == [host |-> host, peer |-> NoHost, tick |-> 0, streaming |-> FALSE]
UavStarted(host) == [host |-> host, peer |-> NoHost, gcs_ip |-> NoHost,
                     streaming |-> FALSE, transport |-> NoHost]

PeerStart(gcsHosts, uavHosts) ==
    /\ gcs \in {GcsStarted(host) : host \in gcsHosts}
    /\ uav \in {UavStarted(host) : host \in uavHosts}
    /\ beacons = {} /\ requests = {} /\ stats = {}
    /\ strayed = FALSE
    /\ events = 0
PeerInit == PeerStart(GcsHosts, UavHosts)
PeersOff == PeerStart({NoHost}, {NoHost})

Event == events < MaxEvents /\ events' = events + 1

\* send_peer_beacon: at every tick until a peer is known, then at every tenth.
SendPeerBeacon ==
    /\ gcs.host # NoHost
    /\ IF gcs.peer = NoHost
       THEN /\ gcs' = [gcs EXCEPT !.tick = 0]
            /\ beacons' = beacons \cup {gcs.host}
       ELSE /\ gcs' = [gcs EXCEPT !.tick = (@ + 1) % Keepalive]
            /\ beacons' = IF gcs'.tick = 0 THEN beacons \cup {gcs.host} ELSE beacons
    /\ UNCHANGED <<uav, requests, stats, strayed, events>>

\* UdpSocket::recv: a side that knows no peer takes the sender of the first packet
\* for it.  UdpSocket::set_target replaces the one it knows.
Latch(peer, host) == IF peer = NoHost THEN host ELSE peer
TargetLatched(host) == Latch(uav.peer, host)
Target(host) == host

\* handle_peer_beacon: a stream asked for before is given a transport; one that has
\* a transport keeps it.
TransportKept(host) == uav.transport
Transport(host) ==
    IF uav.streaming /\ uav.transport = NoHost THEN host ELSE uav.transport
HandlePeerBeacon(host) ==
    /\ host \in beacons
    /\ beacons' = beacons \ {host}
    /\ uav' = [uav EXCEPT !.peer = Target(host), !.gcs_ip = host,
                          !.transport = Transport(host)]
    /\ UNCHANGED <<gcs, requests, stats, strayed, events>>

\* The other side's heartbeats and telemetry, if they are sent to this side.
UavHears ==
    /\ gcs.peer = uav.host
    /\ uav' = [uav EXCEPT !.peer = Latch(@, gcs.host)]
    /\ UNCHANGED <<gcs, beacons, requests, stats, strayed, events>>
GcsHears ==
    /\ uav.peer = gcs.host
    /\ gcs' = [gcs EXCEPT !.peer = Latch(@, uav.host)]
    /\ UNCHANGED <<uav, beacons, requests, stats, strayed, events>>

\* on_camera_stream_request: over WiFi only, and not repeated.
PeerKnown == gcs.peer # NoHost
OnCameraStreamRequest(enabled) ==
    /\ Event
    /\ PeerKnown
    /\ gcs' = [gcs EXCEPT !.streaming = enabled]
    /\ requests' \in {requests} \cup
          IF gcs.peer = uav.host THEN {requests \cup {enabled}} ELSE {}
    /\ UNCHANGED <<uav, beacons, stats, strayed>>

\* start_camera_stream drops the transport it has; stop_camera_stream too.
StartKeepingTransport ==
    /\ TRUE \in requests
    /\ requests' = requests \ {TRUE}
    /\ uav' = [uav EXCEPT !.streaming = TRUE,
                          !.transport = IF @ = NoHost THEN uav.gcs_ip ELSE @]
    /\ UNCHANGED <<gcs, beacons, stats, strayed, events>>
StartCameraStream ==
    /\ TRUE \in requests
    /\ requests' = requests \ {TRUE}
    /\ uav' = [uav EXCEPT !.streaming = TRUE, !.transport = uav.gcs_ip]
    /\ UNCHANGED <<gcs, beacons, stats, strayed, events>>

StopKeepingTransport ==
    /\ FALSE \in requests
    /\ requests' = requests \ {FALSE}
    /\ uav' = [uav EXCEPT !.streaming = FALSE]
    /\ UNCHANGED <<gcs, beacons, stats, strayed, events>>
StopCameraStream ==
    /\ FALSE \in requests
    /\ requests' = requests \ {FALSE}
    /\ uav' = [uav EXCEPT !.streaming = FALSE, !.transport = NoHost]
    /\ UNCHANGED <<gcs, beacons, stats, strayed, events>>

\* send_radio_stats, and the NAMED_VALUE_FLOAT case of comms_gcs.
SendRadioStats ==
    /\ uav.host # NoHost
    /\ stats' = stats \cup {uav.streaming}
    /\ UNCHANGED <<gcs, uav, beacons, requests, strayed, events>>
Displayed(value) == [gcs EXCEPT !.streaming = value]
NamedValue(value) ==
    /\ value \in stats
    /\ stats' = stats \ {value}
    /\ gcs' = Displayed(value)
    /\ UNCHANGED <<uav, beacons, requests, strayed, events>>

\* A restart takes longer than anything is under way.
GcsRestarts(host) ==
    /\ Event
    /\ gcs' = GcsStarted(host)
    /\ strayed' = FALSE
    /\ beacons' = {} /\ requests' = {} /\ stats' = {}
    /\ UNCHANGED uav
UavRestarts ==
    /\ Event
    /\ uav' = UavStarted(uav.host)
    /\ beacons' = {} /\ requests' = {} /\ stats' = {}
    /\ UNCHANGED <<gcs, strayed>>
UavMoves(host) ==
    /\ Event
    /\ uav' = [uav EXCEPT !.host = host]
    /\ strayed' = TRUE
    /\ requests' = {}
    /\ UNCHANGED <<gcs, beacons, stats>>

PeerNext ==
    \/ SendPeerBeacon
    \/ \E host \in GcsHosts : HandlePeerBeacon(host) \/ GcsRestarts(host)
    \/ UavHears \/ GcsHears
    \/ \E enabled \in BOOLEAN : OnCameraStreamRequest(enabled)
    \/ StartCameraStream \/ StopCameraStream
    \/ SendRadioStats
    \/ \E value \in BOOLEAN : NamedValue(value)
    \/ UavRestarts
    \/ \E host \in UavHosts \ {uav.host} : UavMoves(host)

PeerSpec == PeerInit /\ [][PeerNext]_peerVars

\* Both nodes run, their timers fire, and what is sent again and again gets through.
PeerFairness ==
    /\ WF_peerVars(SendPeerBeacon)
    /\ \A host \in GcsHosts : WF_peerVars(HandlePeerBeacon(host))
    /\ WF_peerVars(UavHears) /\ WF_peerVars(GcsHears)
    /\ WF_peerVars(StartCameraStream) /\ WF_peerVars(StopCameraStream)
    /\ WF_peerVars(SendRadioStats)
    /\ \A value \in BOOLEAN : WF_peerVars(NamedValue(value))
FairPeerSpec == PeerSpec /\ PeerFairness

-----------------------------------------------------------------------------
\* Where frames go, and that there are none: on_camera_frame.
FramesTo == uav.transport

\* A stream that was stopped, or never asked for, sends nothing, whatever beacons
\* and restarts come in between.
SilentUnlessAsked == FramesTo # NoHost => uav.streaming

\* A start request brings the frames to the ground station that sent it, at once or
\* with the next beacon, never to the host it ran on before.
Starts == TRUE \in requests /\ TRUE \notin requests' /\ UNCHANGED <<gcs, events>>
StreamReachesSender ==
    [][Starts => uav'.transport \in {NoHost, gcs.host}]_peerVars

\* A stream asked for before the peer was known starts.
StreamStarts == uav.streaming ~> (FramesTo # NoHost \/ ~uav.streaming)

\* Discovery finds its way after restarts of either side in any order, unless the
\* vehicle has moved: the ground station keeps its first peer for good.
PeersFound ==
    <>[](~strayed => gcs.peer = uav.host /\ uav.peer = gcs.host)
=============================================================================
