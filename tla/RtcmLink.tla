------------------------------ MODULE RtcmLink ------------------------------
(***************************************************************************)
(* GNSS corrections on their way to the vehicle (asr_comms, send_rtcm and  *)
(* handle_rtcm): a message of more than 180 bytes is cut into up to four   *)
(* fragments under a five-bit number, which cross both links and the       *)
(* duplicate filter and are put together in the buffer of that number.     *)
(* What a buffer keeps of a message that never got complete is still there *)
(* when its number comes round.                                            *)
(***************************************************************************)
EXTENDS DedupFilter

CONSTANTS
    Slots,       \* 32: numbers
    MaxFrags,    \* 4: fragments of a message
    Corrections  \* the sizes of messages: full chunks of 180 bytes, and a rest or none

ASSUME CorrectionsAssumption ==
    /\ Slots \in Nat \ {0} /\ MaxFrags \in Nat \ {0, 1}
    /\ Corrections \subseteq [full : Nat, rest : BOOLEAN]
    /\ \A size \in Corrections : size.full > 0 \/ size.rest

\* A number does not come round while fragments of its last message are under way.
ASSUME SlotsAssumption == Lag < 2 * Slots

VARIABLES
    corrections,  \* history: the size of every message passed to send_rtcm
    gps_rtcm,     \* GPS_RTCM_DATA in every packet
    rtcm_seq,     \* rtcm_seq_
    rtcm_frags,   \* rtcm_frags_
    injected      \* what publish_gps_inject was given: the message each chunk is of

rtcmVars == <<dedupVars, corrections, gps_rtcm, rtcm_seq, rtcm_frags, injected>>

Unfragmented == -1
Unknown == -1
EmptyBuf == [frags |-> <<>>, last |-> Unknown]

RtcmInit ==
    /\ DedupInit
    /\ corrections = <<>>
    /\ gps_rtcm = <<>>
    /\ rtcm_seq = 0
    /\ rtcm_frags = [s \in 0..Slots - 1 |-> EmptyBuf]
    /\ injected = <<>>

\* The fragments of message m: all that fit, the last one short if the rest fits.
Chunks(size) == size.full + IF size.rest THEN 1 ELSE 0
Fits(size) == Chunks(size) <= MaxFrags
FragsSent(size) == IF Fits(size) THEN Chunks(size) ELSE MaxFrags
Fragmented(m, size) ==
    [i \in 1..FragsSent(size) |->
        [msg |-> m, number |-> rtcm_seq % Slots, idx |-> i, short |-> i > size.full]]

SendRtcm(size) ==
    LET m == Len(corrections) + 1
    IN /\ corrections' = Append(corrections, size)
       /\ \/ /\ Chunks(size) = 1
             /\ SendPackets(1)
             /\ gps_rtcm' = Append(gps_rtcm, [msg |-> m, number |-> Unfragmented,
                                              idx |-> 1, short |-> size.rest])
             /\ UNCHANGED rtcm_seq
          \/ /\ Chunks(size) > 1
             /\ SendPackets(FragsSent(size))
             /\ gps_rtcm' = gps_rtcm \o Fragmented(m, size)
             /\ rtcm_seq' = rtcm_seq + 1
       /\ UNCHANGED <<rtcm_frags, injected>>

\* handle_rtcm: the buffer with fragment f in it, and whether that completes it.
StoredInOrder(buf, f) ==
    [frags |-> [i \in DOMAIN buf.frags \cup {f.idx} |->
                   IF i = f.idx THEN f.msg ELSE buf.frags[i]],
     last  |-> IF f.short THEN f.idx ELSE Unknown]
Stored(buf, f) ==
    [frags |-> [i \in DOMAIN buf.frags \cup {f.idx} |->
                   IF i = f.idx THEN f.msg ELSE buf.frags[i]],
     last  |-> IF f.short THEN f.idx ELSE buf.last]
Assembled(buf) == buf.last # Unknown /\ 1..buf.last \subseteq DOMAIN buf.frags

Kept(buf) == buf
Reset(buf) == EmptyBuf

HandleRtcm(f) ==
    IF f.number = Unfragmented
    THEN injected' = Append(injected, <<f.msg>>) /\ UNCHANGED rtcm_frags
    ELSE LET buf == Stored(rtcm_frags[f.number], f)
         IN IF Assembled(buf)
            THEN /\ injected' = Append(injected, [i \in 1..buf.last |-> buf.frags[i]])
                 /\ rtcm_frags' = [rtcm_frags EXCEPT ![f.number] = Reset(buf)]
            ELSE /\ rtcm_frags' = [rtcm_frags EXCEPT ![f.number] = buf]
                 /\ UNCHANGED injected

ReceiveRtcm(c, n) ==
    /\ CheckPacket(c, n)
    /\ IF New(n) THEN HandleRtcm(gps_rtcm[n]) ELSE UNCHANGED <<rtcm_frags, injected>>
    /\ UNCHANGED <<corrections, gps_rtcm, rtcm_seq>>

RestartGcs ==
    /\ RestartSender
    /\ rtcm_seq' = 0
    /\ UNCHANGED <<corrections, gps_rtcm, rtcm_frags, injected>>

RtcmNext ==
    \/ RestartGcs
    \/ \E size \in Corrections : SendRtcm(size)
    \/ \E c \in Copies, n \in Packets : ReceiveRtcm(c, n)

RtcmSpec == RtcmInit /\ [][RtcmNext]_rtcmVars

-----------------------------------------------------------------------------
\* The messages under a number, message m as a whole, and whether it was injected.
FragsOf(m) == {n \in Packets : gps_rtcm[n].msg = m}
NumberOf(m) == gps_rtcm[CHOOSE n \in FragsOf(m) : TRUE].number
WholeOf(m) == [i \in 1..Chunks(corrections[m]) |-> m]
Injected(m) == \E k \in DOMAIN injected : injected[k] = WholeOf(m)

\* A message that left fragments behind under the number of message m.
LeftBehind(m) ==
    /\ NumberOf(m) # Unfragmented
    /\ \E l \in 1..m - 1 : NumberOf(l) = NumberOf(m) /\ ~Injected(l)

\* The GPS is never given a part of a correction, also not of one cut off at 720
\* bytes, nor a mixture of two, unless an earlier message of the same number did
\* not get complete.
CorrectionsWhole ==
    \A k \in DOMAIN injected :
        \E m \in DOMAIN corrections :
            \/ injected[k] = WholeOf(m)
            \/ LeftBehind(m) /\ \E i \in DOMAIN injected[k] : injected[k][i] = m

\* A correction all of whose fragments come through is injected, in whatever order
\* they come, with two exceptions: it fills its last fragment, or remains of another
\* message lie in its buffer.
CorrectionsArrive ==
    \A m \in DOMAIN corrections :
        /\ \A n \in FragsOf(m) : handled[n] > 0
        /\ Chunks(corrections[m]) > 1 => corrections[m].rest /\ Fits(corrections[m])
        /\ ~LeftBehind(m)
        => Injected(m)
=============================================================================
