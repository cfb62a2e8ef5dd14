---------------------------- MODULE CameraFrames ----------------------------
(***************************************************************************)
(* The frames of the camera stream (asr_comms, on_camera_frame of          *)
(* comms_uav and camera_recv_loop of comms_gcs): a frame is cut into UDP   *)
(* datagrams under a number that counts from 1 in every run of comms_uav,  *)
(* and put together by an assembler that keeps one frame, the one of the   *)
(* datagram before.  Datagrams are lost, duplicated and reordered.         *)
(***************************************************************************)
EXTENDS Integers, Sequences

CONSTANTS
    FrameSizes,    \* the numbers of fragments a frame may have
    MaxFrames,     \* bound: frames sent
    MaxCameraRuns  \* bound: runs of comms_uav

ASSUME FramesAssumption ==
    /\ FrameSizes \subseteq Nat \ {0}
    /\ MaxFrames \in Nat /\ MaxCameraRuns \in Nat \ {0}

VARIABLES
    frames,           \* history: the run, number and fragments of every frame sent
    camera_run,       \* history: the run of comms_uav
    camera_frame_id,  \* camera_frame_id_
    assembler,        \* camera_assembler_; owner[i]: the frame its fragment i is of
    published         \* history: the frame published last, as its fragments' owners

cameraVars == <<frames, camera_run, camera_frame_id, assembler, published>>

NotReceived == 0

CameraInit ==
    /\ frames = <<>>
    /\ camera_run = 1
    /\ camera_frame_id = 0
    /\ assembler = [frame_id |-> 0, received_count |-> 0, owner |-> <<>>]
    /\ published = <<>>

\* on_camera_frame
OnCameraFrame(size) ==
    /\ Len(frames) < MaxFrames
    /\ camera_frame_id' = camera_frame_id + 1
    /\ frames' = Append(frames,
                    [run |-> camera_run, id |-> camera_frame_id', frags |-> size])
    /\ UNCHANGED <<camera_run, assembler, published>>

\* camera_recv_loop, with fragment i of frame m: another frame begins afresh, a
\* fragment that does not fit or is there already is left out.
Grown(m) ==
    [frame_id |-> frames[m].id, received_count |-> assembler.received_count,
     owner |-> [i \in 1..frames[m].frags |->
                   IF i \in DOMAIN assembler.owner THEN assembler.owner[i] ELSE NotReceived]]
Begun(m) ==
    IF frames[m].id = assembler.frame_id THEN assembler
    ELSE [frame_id |-> frames[m].id, received_count |-> 0,
          owner |-> [i \in 1..frames[m].frags |-> NotReceived]]
Added(begun, m, i) ==
    IF i \notin DOMAIN begun.owner \/ begun.owner[i] # NotReceived THEN begun
    ELSE [begun EXCEPT !.owner[i] = m, !.received_count = @ + 1]

CameraReceive(m, i) ==
    LET begun == Begun(m)
        added == Added(begun, m, i)
    IN /\ assembler' = added
       /\ published' = IF added # begun /\ added.received_count = Len(added.owner)
                       THEN added.owner ELSE published
       /\ UNCHANGED <<frames, camera_run, camera_frame_id>>

CameraRestarts ==
    /\ camera_run < MaxCameraRuns
    /\ camera_run' = camera_run + 1
    /\ camera_frame_id' = 0
    /\ UNCHANGED <<frames, assembler, published>>

CameraNext ==
    \/ \E size \in FrameSizes : OnCameraFrame(size)
    \/ \E m \in DOMAIN frames : \E i \in 1..frames[m].frags : CameraReceive(m, i)
    \/ CameraRestarts

CameraSpec == CameraInit /\ [][CameraNext]_cameraVars

-----------------------------------------------------------------------------
\* What is shown is one frame, all of it, in order, whatever datagrams are lost,
\* doubled or late; except that a frame of which fragments were left when comms_uav
\* was restarted is completed with those of the frame that got the same number.
WholeFrame(m) == published = [i \in 1..frames[m].frags |-> m]
MixedByRestart ==
    \E l, m \in DOMAIN frames :
        /\ frames[l].id = frames[m].id /\ frames[l].run # frames[m].run
        /\ \E i, j \in DOMAIN published : published[i] = l /\ published[j] = m
FramesWhole ==
    published # <<>> => MixedByRestart \/ \E m \in DOMAIN frames : WholeFrame(m)
=============================================================================
