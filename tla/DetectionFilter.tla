-------------------------- MODULE DetectionFilter --------------------------
(***************************************************************************)
(* Tracks of probes and markers (asr_perception, detection_filter.cpp).    *)
(* A message of probe detections is taken one detection at a time: each    *)
(* updates the nearest track if it passes its gate, and begins a track     *)
(* otherwise.  Then one pass over all pairs folds tracks together that lie *)
(* within the merge distance.  Markers carry their identity.               *)
(*                                                                         *)
(* The Kalman filters are abstract: which track a detection goes to is     *)
(* free, and an update or a fusion may put the estimate at any place.      *)
(***************************************************************************)
EXTENDS Integers, SequencesExt

CONSTANTS
    Places,           \* where an estimate may be, on a line
    merge_distance,   \* two estimates less than this apart are one probe
    Markers,          \* the identities of markers
    MaxDetections     \* bound: detections in one behaviour

ASSUME FilterAssumption ==
    /\ Places \subseteq Int
    /\ merge_distance \in Nat \ {0} /\ MaxDetections \in Nat

VARIABLES
    probe_tracks,   \* probe_tracks_: id, place and observations of each
    next_probe_id,  \* next_probe_id_
    aruco_tracks,   \* aruco_tracks_: the observations of every marker seen
    todo_probes,    \* detections of the message in hand that are not handled yet
    pass,           \* the i and j of merge_probe_tracks; NotMerging outside of it
    fused,          \* history: the fusions of the last pass, <<identity, the other's>>
    accepted        \* history: detections that were given to a track

filterVars == <<probe_tracks, next_probe_id, aruco_tracks, todo_probes, pass, fused, accepted>>

NotMerging == <<>>
Spinning == todo_probes = 0 /\ pass = NotMerging  \* no callback runs

FilterInit ==
    /\ probe_tracks = <<>> /\ next_probe_id = 0
    /\ aruco_tracks = [m \in {} |-> 0]
    /\ todo_probes = 0 /\ pass = NotMerging
    /\ fused = {}
    /\ accepted = 0

-----------------------------------------------------------------------------
\* on_probe_data
OnProbeData(n) ==
    /\ Spinning
    /\ accepted + n <= MaxDetections
    /\ todo_probes' = n
    /\ UNCHANGED <<probe_tracks, next_probe_id, aruco_tracks, pass, fused, accepted>>

\* When the last detection of the message is handled, the tracks are merged.
Handled ==
    /\ todo_probes > 0
    /\ todo_probes' = todo_probes - 1
    /\ pass' = IF todo_probes = 1 THEN <<1, 2>> ELSE NotMerging
    /\ fused' = {}
    /\ UNCHANGED aruco_tracks

\* It has no depth, or lies too far away.
Skip ==
    /\ Handled
    /\ UNCHANGED <<probe_tracks, next_probe_id, accepted>>

Observed(t, place) == [t EXCEPT !.place = place, !.observations = @ + 1]
Update(k, place) ==
    /\ Handled
    /\ probe_tracks' = [probe_tracks EXCEPT ![k] = Observed(@, place)]
    /\ accepted' = accepted + 1
    /\ UNCHANGED next_probe_id

InitProbeTrack(place) ==
    /\ Handled
    /\ probe_tracks' = Append(probe_tracks,
                          [id |-> next_probe_id, place |-> place, observations |-> 1])
    /\ next_probe_id' = next_probe_id + 1
    /\ accepted' = accepted + 1

-----------------------------------------------------------------------------
\* merge_probe_tracks, one pair at a time.
Near(a, b) == a.place - b.place \in 1 - merge_distance..merge_distance - 1

FuseForgetting(a, b, place) ==
    [id |-> a.id, place |-> place, observations |-> a.observations]
FuseProbeTracks(a, b, place) ==
    [id |-> IF a.id < b.id THEN a.id ELSE b.id, place |-> place,
     observations |-> a.observations + b.observations]

\* After an erasure j stays, for the next track has moved to its place.
NextAfterErasure(i, j) == <<i, j + 1>>
AfterErasure(i, j) == <<i, j>>

MergePair(i, j, place) ==
    /\ j <= Len(probe_tracks)
    /\ LET a == probe_tracks[i]
           b == probe_tracks[j]
           f == FuseProbeTracks(a, b, place)
       IN IF Near(a, b)
          THEN /\ probe_tracks' = RemoveAt([probe_tracks EXCEPT ![i] = f], j)
               /\ pass' = AfterErasure(i, j)
               /\ fused' = fused \cup {<<f.id, IF f.id = a.id THEN b.id ELSE a.id>>}
          ELSE /\ pass' = <<i, j + 1>>
               /\ UNCHANGED <<probe_tracks, fused>>

NextTrack(i, j) ==
    /\ j > Len(probe_tracks)
    /\ pass' = IF i < Len(probe_tracks) THEN <<i + 1, i + 2>> ELSE NotMerging
    /\ UNCHANGED <<probe_tracks, fused>>

MergeProbeTracks ==
    /\ pass # NotMerging
    /\ \/ \E place \in Places : MergePair(pass[1], pass[2], place)
       \/ NextTrack(pass[1], pass[2])
    /\ UNCHANGED <<next_probe_id, aruco_tracks, todo_probes, accepted>>

-----------------------------------------------------------------------------
\* on_aruco_data, one detection
OnArucoData(m) ==
    /\ Spinning
    /\ accepted < MaxDetections
    /\ aruco_tracks' = [k \in DOMAIN aruco_tracks \cup {m} |->
            IF k # m THEN aruco_tracks[k]
            ELSE IF m \in DOMAIN aruco_tracks THEN aruco_tracks[m] + 1 ELSE 1]
    /\ accepted' = accepted + 1
    /\ UNCHANGED <<probe_tracks, next_probe_id, todo_probes, pass, fused>>

FilterNext ==
    \/ \E n \in 1..MaxDetections : OnProbeData(n)
    \/ Skip
    \/ \E place \in Places :
          \/ InitProbeTrack(place)
          \/ \E k \in DOMAIN probe_tracks : Update(k, place)
    \/ MergeProbeTracks
    \/ \E m \in Markers : OnArucoData(m)

FilterSpec == FilterInit /\ [][FilterNext]_filterVars

-----------------------------------------------------------------------------
\* "two tracks for the same probe were built from DISJOINT measurement sets": every
\* detection counts for one track, through all updates and fusions.
ProbeObservations(tracks) == UNION {{t.id} \X (1..t.observations) : t \in Range(tracks)}
MarkerObservations(tracks) == UNION {{m} \X (1..tracks[m]) : m \in DOMAIN tracks}
ObservationsConserved ==
    accepted = Cardinality(ProbeObservations(probe_tracks))
                 + Cardinality(MarkerObservations(aruco_tracks))

\* "any pair whose position estimates lie within merge_distance_ of each other is
\* fused into one", by the time the callback returns; except that the one pass does
\* not look again at a pair when a later fusion moves one of the two.
MovedAfter(k, l) ==
    \E f \in fused : \/ f[1] = probe_tracks[k].id /\ f[2] > probe_tracks[l].id
                     \/ f[1] = probe_tracks[l].id
MergedApart ==
    Spinning => \A k, l \in DOMAIN probe_tracks :
                   k < l /\ Near(probe_tracks[k], probe_tracks[l]) => MovedAfter(k, l)
=============================================================================
