---------------------------- MODULE CameraRelay ----------------------------
(***************************************************************************)
(* What the detectors are given (asr_drivers, camera_relay.py): the relay  *)
(* keeps the last color image, and the last depth image that a position    *)
(* and an attitude go with, together with the color image it had then.  It *)
(* publishes both at a fixed rate, or whenever something comes.  The       *)
(* detectors see the color images of the sets only.                        *)
(***************************************************************************)
EXTENDS Integers

CONSTANT MaxStamp  \* bound: stamps of the camera's images, which count from 1

ASSUME StampsAssumption == MaxStamp \in Nat

VARIABLES
    publish_on_sync,  \* _publish_on_sync: fps is 0, and there is no timer
    latest_color,     \* _latest_color, as its stamp
    latest_synced,    \* _latest_synced, as the stamps of its images
    last_stamp,       \* _last_color_stamp and _last_synced_stamp
    arrived,          \* history: the stamps that came last
    synced,           \* history: the set published last
    shown             \* history: the last color image published in a set

relayVars == <<publish_on_sync, latest_color, latest_synced, last_stamp,
               arrived, synced, shown>>

None == 0
NoSet == [color |-> None, depth |-> None]

RelayInit ==
    /\ publish_on_sync \in BOOLEAN
    /\ latest_color = None /\ latest_synced = NoSet
    /\ last_stamp = NoSet
    /\ arrived = NoSet
    /\ synced = NoSet /\ shown = None

\* _publish_color takes the color image, _publish_depth_pose the set, each if newer.
ColorKept(color) == color
ColorTaken(color) == IF color > last_stamp.color THEN None ELSE color
Publish(color, set) ==
    LET newer == set.depth > last_stamp.depth
    IN /\ latest_color' = ColorTaken(color)
       /\ latest_synced' = IF newer THEN NoSet ELSE set
       /\ last_stamp' = [color |-> IF color > last_stamp.color THEN color
                                   ELSE last_stamp.color,
                         depth |-> IF newer THEN set.depth ELSE last_stamp.depth]
       /\ synced' = IF newer THEN set ELSE synced
       /\ shown' = IF newer /\ set.color # None THEN set.color ELSE shown

\* What has come is kept, and published at once or by the timer.
Keep(color, set) ==
    IF publish_on_sync THEN Publish(color, set)
    ELSE /\ latest_color' = color /\ latest_synced' = set
         /\ UNCHANGED <<last_stamp, synced, shown>>

\* _on_color
OnColor(s) ==
    /\ s > arrived.color
    /\ arrived' = [arrived EXCEPT !.color = s]
    /\ Keep(s, latest_synced)
    /\ UNCHANGED publish_on_sync

\* _on_synced
SetOf(s) == [color |-> latest_color, depth |-> s]
OnSynced(s) ==
    /\ s > arrived.depth
    /\ arrived' = [arrived EXCEPT !.depth = s]
    /\ Keep(latest_color, SetOf(s))
    /\ UNCHANGED publish_on_sync

PublishTimer ==
    /\ ~publish_on_sync
    /\ Publish(latest_color, latest_synced)
    /\ UNCHANGED <<publish_on_sync, arrived>>

RelayNext ==
    \/ \E s \in 1..MaxStamp : OnColor(s) \/ OnSynced(s)
    \/ PublishTimer

RelaySpec == RelayInit /\ [][RelayNext]_relayVars

-----------------------------------------------------------------------------
\* No image reaches the detectors twice: a probe is reported when it was observed
\* min_observations times, and these have to be different images, also when the
\* color stream stalls and depth goes on.
ImageShownOnce ==
    [][synced' # synced /\ synced'.color # None => synced'.color > shown]_relayVars
=============================================================================
