-------------------------- MODULE MissionTransport --------------------------
(***************************************************************************)
(* How a mission blob gets over the WiFi link (asr_comms,                  *)
(* mission_protocol.h, send_mission_blob, handle_mission_v2_extension):    *)
(* cut into fragments, one packet each, through the duplicate filter, and  *)
(* put together by a MissionReassembler that follows one transfer at a     *)
(* time.  The sender may restart and count transfers from 0 again.         *)
(* Between the fragments comms_uav's receive threads send radio statistics.*)
(***************************************************************************)
EXTENDS DedupFilter, SequencesExt

CONSTANTS
    Blobs,   \* the blobs to send, each a non-empty sequence of chunks
    Missing, \* a fragment that has not been received
    Stats    \* what a packet without a fragment carries

\* A stand-in for CRC-32.
Crc(blob) == <<Len(blob), FoldLeft(LAMBDA sum, chunk : 3 * sum + chunk, 1, blob)>>

ASSUME BlobsAssumption ==
    Blobs \subseteq Seq(Nat) /\ <<>> \notin Blobs /\ Missing \notin Nat

\* The CRC-32 of a blob is taken to differ from that of every other sequence of chunks
\* that the blobs have in these places.
ASSUME CrcAssumption ==
    \A blob \in Blobs : \A mix \in [DOMAIN blob -> UNION {Range(b) : b \in Blobs}] :
        /\ \A i \in DOMAIN mix : \E b \in Blobs : i \in DOMAIN b /\ mix[i] = b[i]
        /\ Crc(mix) = Crc(blob)
        => mix = blob

VARIABLES
    fragments,    \* the fragment in every packet, or Stats
    transfer_id,  \* the sender's transfer counter
    reassembler,  \* the receiver's MissionReassembler
    sent,         \* history: the blobs sent, in order
    delivered     \* the blobs handed over, in order

transportVars == <<dedupVars, fragments, transfer_id, reassembler, sent, delivered>>

NoTransfer == -1  \* UINT32_MAX

TransportInit ==
    /\ DedupInit
    /\ fragments = <<>>
    /\ transfer_id = 0
    /\ reassembler = [id |-> NoTransfer, crc |-> Crc(<<>>), frags |-> <<>>]
    /\ sent = <<>>
    /\ delivered = <<>>

\* mission_fragment
Fragments(id, blob) ==
    [i \in DOMAIN blob |-> [id |-> id, idx |-> i, total |-> Len(blob),
                            crc |-> Crc(blob), chunk |-> blob[i]]]

SendMissionBlob(blob) ==
    /\ SendPackets(Len(blob))
    /\ fragments' = fragments \o Fragments(transfer_id, blob)
    /\ transfer_id' = transfer_id + 1
    /\ sent' = Append(sent, blob)
    /\ UNCHANGED <<reassembler, delivered>>

SendRadioStats ==
    /\ SendRaced
    /\ fragments' = Append(fragments, Stats)
    /\ UNCHANGED <<transfer_id, reassembler, sent, delivered>>

Restart ==
    /\ RestartSender
    /\ transfer_id' = 0
    /\ UNCHANGED <<fragments, reassembler, sent, delivered>>

\* The reassembler once it follows the transfer of fragment f, and what it is with
\* f in place.
Following(f) ==
    IF f.id = reassembler.id THEN reassembler
    ELSE [id |-> f.id, crc |-> f.crc, frags |-> [i \in 1..f.total |-> Missing]]
Placed(f) == [Following(f) EXCEPT !.frags[f.idx] = f.chunk]

Wanted(f) ==
    f.idx \in DOMAIN Following(f).frags /\ Following(f).frags[f.idx] = Missing
Complete(r) == \A i \in DOMAIN r.frags : r.frags[i] # Missing

CrcAccepts(r) == TRUE
CrcOk(r) == Crc(r.frags) = r.crc

Feed(f) ==
    \/ /\ ~Wanted(f)
       /\ reassembler' = Following(f)
       /\ UNCHANGED delivered
    \/ /\ Wanted(f)
       /\ ~Complete(Placed(f))
       /\ reassembler' = Placed(f)
       /\ UNCHANGED delivered
    \/ /\ Wanted(f)
       /\ Complete(Placed(f))
       /\ reassembler' = [Placed(f) EXCEPT !.frags = <<>>]
       /\ delivered' = IF CrcOk(Placed(f))
                       THEN Append(delivered, Placed(f).frags) ELSE delivered

ReceivePacket(c, n) ==
    /\ CheckPacket(c, n)
    /\ IF New(n) /\ fragments[n] # Stats
       THEN Feed(fragments[n]) ELSE UNCHANGED <<reassembler, delivered>>
    /\ UNCHANGED <<fragments, transfer_id, sent>>

TransportNext ==
    \/ \E blob \in Blobs : SendMissionBlob(blob)
    \/ ReadNumber /\ UNCHANGED <<fragments, transfer_id, reassembler, sent, delivered>>
    \/ SendRadioStats
    \/ Restart
    \/ \E c \in Copies, n \in Packets : ReceivePacket(c, n)

TransportSpec == TransportInit /\ [][TransportNext]_transportVars

-----------------------------------------------------------------------------
Times(s, blob) == Cardinality({k \in DOMAIN s : s[k] = blob})

\* What is handed over was sent as one blob, and no more often than it was sent:
\* fragments of two transfers are never put together, not even those of a sender that
\* restarted in the middle of one, and a request is not carried out again because a
\* duplicate comes late.
BlobsIntact ==
    \A i \in DOMAIN delivered : Times(delivered, delivered[i]) <= Times(sent, delivered[i])
=============================================================================
