----------------------------- MODULE LinkHealth -----------------------------
(***************************************************************************)
(* How comms_gcs watches its link to the vehicle (asr_comms: recv_loop,    *)
(* reconnect_serial, wifi_recv_loop, publish_link_stats, serial_port.h).   *)
(* Two receive threads note the time of what comes, a timer of the         *)
(* executor thread compares these times with the clock, and the receive    *)
(* thread of the radio reopens it when it was unplugged.  comms_uav        *)
(* reconnects in the same way.                                             *)
(*                                                                         *)
(* Times are those of steady_clock, in units of half a timeout.            *)
(***************************************************************************)
EXTENDS Integers, FiniteSets

CONSTANTS
    LinkTimeout,  \* 2 s: LINK_TIMEOUT_NS and RADIO_TIMEOUT_NS
    Wrap,         \* 2^64: what uint64_t counts to
    MaxClock,     \* bound: the clock
    MaxUnplugs    \* bound: how often the radio is unplugged

ASSUME LinkTimeoutAssumption == LinkTimeout \in Nat \ {0}
ASSUME WrapAssumption ==
    MaxClock \in Nat \ {0} /\ Wrap \in Nat /\ Wrap > MaxClock + LinkTimeout
ASSUME UnplugsAssumption == MaxUnplugs \in Nat

VARIABLES
    clock,
    plugged,    \* the radio is there
    fd,         \* fd_ of the SerialPort: "good", or "dead" since the radio was unplugged
    radioLoop,  \* the radio's receive thread: "reading", "reconnecting", or about to
                \* put what it opened in place of fd_: "good", "dead"
    last_rx,    \* last_rx_ns_
    last_radio, \* last_radio_ns_
    now_ns,     \* the clock as publish_link_stats has read it, Never outside of it
    link_stats, \* mavlink_connected and radio_ok, as published last
    arrivals,   \* history: when something came, and RADIO_STATUS among it
    unplugs     \* history: how often the radio was unplugged

serialVars == <<plugged, fd, radioLoop, unplugs>>
rxVars == <<last_rx, last_radio, arrivals>>
statsVars == <<now_ns, link_stats>>
healthVars == <<clock, serialVars, rxVars, statsVars>>

Never == 0

HealthInit ==
    /\ clock = 1
    /\ plugged = TRUE /\ fd = "good" /\ radioLoop = "reading" /\ unplugs = 0
    /\ last_rx = Never /\ last_radio = Never
    /\ arrivals = [any |-> {}, radio |-> {}]
    /\ now_ns = Never
    /\ link_stats = [mavlink_connected |-> FALSE, radio_ok |-> FALSE]

ClockTicks ==
    /\ clock < MaxClock
    /\ clock' = clock + 1
    /\ UNCHANGED <<serialVars, rxVars, statsVars>>

-----------------------------------------------------------------------------
\* recv_loop and wifi_recv_loop; the RADIO_STATUS case of handle_message.
Noted(then) == clock
ReceiveBytes ==
    /\ last_rx' = Noted(last_rx)
    /\ arrivals' = [arrivals EXCEPT !.any = @ \cup {clock}]
    /\ UNCHANGED <<clock, serialVars, last_radio, statsVars>>

Reading == fd = "good" /\ radioLoop = "reading"
ReceiveRadioStatus ==
    /\ Reading
    /\ last_rx' = Noted(last_rx)
    /\ last_radio' = Noted(last_radio)
    /\ arrivals' = [any |-> arrivals.any \cup {clock}, radio |-> arrivals.radio \cup {clock}]
    /\ UNCHANGED <<clock, serialVars, statsVars>>

\* A tty that was hung up stays so when the radio comes back.
Unplug ==
    /\ plugged
    /\ unplugs < MaxUnplugs
    /\ unplugs' = unplugs + 1
    /\ plugged' = FALSE
    /\ fd' = "dead"
    /\ radioLoop' = IF radioLoop = "good" THEN "dead" ELSE radioLoop
    /\ UNCHANGED <<clock, rxVars, statsVars>>
Replug ==
    /\ ~plugged
    /\ plugged' = TRUE
    /\ UNCHANGED <<clock, fd, radioLoop, unplugs, rxVars, statsVars>>

\* recv() returns nothing, and alive() says why.
ProbePlugged == ~plugged
Probe == fd = "dead"
LoseSerial ==
    /\ radioLoop = "reading"
    /\ Probe
    /\ radioLoop' = "reconnecting"
    /\ UNCHANGED <<clock, plugged, fd, unplugs, rxVars, statsVars>>

\* reconnect_serial and SerialPort::reopen: open, and then dup2.
OpenSerial ==
    /\ radioLoop = "reconnecting"
    /\ plugged
    /\ radioLoop' = "good"
    /\ UNCHANGED <<clock, plugged, fd, unplugs, rxVars, statsVars>>
SwapSerial ==
    /\ radioLoop \in {"good", "dead"}
    /\ fd' = radioLoop
    /\ radioLoop' = "reading"
    /\ UNCHANGED <<clock, plugged, unplugs, rxVars, statsVars>>

-----------------------------------------------------------------------------
\* publish_link_stats: the clock is read first, and the unsigned difference is of
\* times that the receive threads may have set after that.
Age(now, then) == (now - then) % Wrap
RecentlyAlways(now, then) == Age(now, then) < LinkTimeout
Recently(now, then) == then # Never /\ Age(now, then) < LinkTimeout

ReadClock ==
    /\ now_ns = Never
    /\ now_ns' = clock
    /\ UNCHANGED <<clock, serialVars, rxVars, link_stats>>

PublishLinkStats ==
    /\ now_ns # Never
    /\ link_stats' = [mavlink_connected |-> Recently(now_ns, last_rx),
                      radio_ok          |-> Recently(now_ns, last_radio)]
    /\ now_ns' = Never
    /\ UNCHANGED <<clock, serialVars, rxVars>>

SerialNext == LoseSerial \/ OpenSerial \/ SwapSerial

HealthNext ==
    \/ ClockTicks
    \/ ReceiveBytes \/ ReceiveRadioStatus
    \/ Unplug \/ Replug
    \/ SerialNext
    \/ ReadClock \/ PublishLinkStats

HealthSpec == HealthInit /\ [][HealthNext]_healthVars

\* The receive thread runs, and while a radio is there it can be opened.
HealthFairness == WF_healthVars(SerialNext)
FairHealthSpec == HealthSpec /\ HealthFairness

-----------------------------------------------------------------------------
\* What was reported against what had come when the clock was read.
Reports == now_ns # Never /\ now_ns' = Never
Heard(times) == \E t \in times : t <= now_ns /\ now_ns - t < LinkTimeout
HeardLater(times) == \E t \in times : t > now_ns

\* LinkStats.msg: "true if any MAVLink received within 2 s", "true if RADIO_STATUS
\* received within 2 s": a link that went silent is not reported as up, also not after
\* its radio was reopened, and one on which something came is, unless more came between
\* the reading of the clock and that of the time of arrival: the difference is then
\* negative, wraps, and a link that works is reported as lost.
Agrees(reported, times) ==
    /\ reported => Heard(times)
    /\ Heard(times) => reported \/ HeardLater(times)
LinkStateTrue ==
    [][Reports => /\ Agrees(link_stats'.mavlink_connected, arrivals.any)
                  /\ Agrees(link_stats'.radio_ok, arrivals.radio)]_healthVars

\* A radio that is plugged in again is read from again, also if it was away too
\* short to be missed or went away once more while it was being opened.
RadioReadAgain == <>[]plugged => <>[]Reading
=============================================================================
