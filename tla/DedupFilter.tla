---------------------------- MODULE DedupFilter ----------------------------
(***************************************************************************)
(* The rolling duplicate filter in front of handle_message (asr_comms,     *)
(* dedup.h) and the packets of one sender that reach it.  A packet is sent *)
(* over two links, or is duplicated by one, so that several copies of it   *)
(* arrive; each may be lost, and they pass each other on the way.  Two     *)
(* threads of comms_uav draw sequence numbers from one counter.            *)
(***************************************************************************)
EXTENDS Integers, Sequences

CONSTANTS
    Copies,      \* the copies of a packet
    Ring,        \* 256: sequence numbers
    Half,        \* 128: distance of the entry that is cleared
    First,       \* the sender's number when the behaviour begins
    Lag,         \* bound: a copy is lost once so many packets have been sent after it
    Overlap,     \* bound: packets sent while another thread packs one
    MaxPackets,  \* bound: packets sent
    MaxRestarts  \* bound: restarts of the sender

ASSUME RingAssumption == Half \in Nat \ {0} /\ Ring = 2 * Half
ASSUME FirstAssumption == First \in 0..Ring
ASSUME LagAssumption == Lag \in Nat \ {0} /\ Overlap \in Nat /\ Lag + Overlap <= Half
ASSUME BoundsAssumption == MaxPackets \in Nat /\ MaxRestarts \in Nat

VARIABLES
    seqs,      \* the sequence number of every packet sent, before it wraps
    tx,        \* current_tx_seq, before it wraps
    packing,   \* what the other thread has read of current_tx_seq
    air,       \* the copies on their way
    seen,      \* seen_: one bit for every sequence number
    handled,   \* how often each packet was passed to handle_message
    restarts   \* history: restarts of the sender

dedupVars == <<seqs, tx, packing, air, seen, handled, restarts>>

Packets == DOMAIN seqs
Numbers == 0..Ring - 1
Wire(n) == seqs[n] % Ring  \* uint8_t

NotPacking == [number |-> -1, after |-> 0]

\* First packets have been sent and handled one after the other.
DedupInit ==
    /\ seqs = <<>>
    /\ tx = First
    /\ packing = NotPacking
    /\ air = {}
    /\ seen = [s \in Numbers |-> s \in First - Half..First - 1]
    /\ handled = <<>>
    /\ restarts = 0

\* Copies of the packets up to last that are still to come.
Underway(copies, last) == {cn \in copies : last - cn[2] < Lag}

\* Packets with the given numbers leave, one after the other.
Transmit(numbers) ==
    LET last == Len(seqs) + Len(numbers)
    IN /\ last <= MaxPackets
       /\ seqs' = seqs \o numbers
       /\ air' = Underway(air \cup (Copies \X (Len(seqs) + 1..last)), last)
       /\ handled' = handled \o [i \in 1..Len(numbers) |-> 0]

\* mavlink_finalize_message and the send, k times, by the thread that runs the
\* timers and subscriptions.
SendPackets(k) ==
    /\ packing # NotPacking => Len(seqs) + k - packing.after <= Overlap
    /\ Transmit([i \in 1..k |-> tx + i - 1])
    /\ tx' = tx + k
    /\ UNCHANGED <<packing, seen, restarts>>

\* The same by comms_uav's receive threads, which pack under recv_mutex_ but share
\* current_tx_seq with the thread above without a lock: other packets may leave
\* between the reading and the writing of it, and whether the increment reads it
\* again is the compiler's choice.
ReadNumber ==
    /\ packing = NotPacking
    /\ packing' = [number |-> tx, after |-> Len(seqs)]
    /\ UNCHANGED <<seqs, tx, air, seen, handled, restarts>>
SendRaced ==
    /\ packing # NotPacking
    /\ Transmit(<<packing.number>>)
    /\ tx' \in {packing.number + 1, tx + 1}
    /\ packing' = NotPacking
    /\ UNCHANGED <<seen, restarts>>

\* A restart takes longer than any copy is under way.
RestartSender ==
    /\ restarts < MaxRestarts
    /\ restarts' = restarts + 1
    /\ tx' = 0
    /\ packing' = NotPacking
    /\ air' = {}
    /\ UNCHANGED <<seqs, seen, handled>>

MarkClearsBehind(s) == [seen EXCEPT ![s] = TRUE, ![(s + Ring - 1) % Ring] = FALSE]
Mark(s) == [seen EXCEPT ![s] = TRUE, ![(s + Half) % Ring] = FALSE]

\* check(): the packet is new if its bit is not set.
New(n) == ~seen[Wire(n)]

CheckPacket(c, n) ==
    /\ <<c, n>> \in air
    /\ air' = air \ {<<c, n>>}
    /\ IF New(n)
       THEN /\ seen' = Mark(Wire(n))
            /\ handled' = [handled EXCEPT ![n] = @ + 1]
       ELSE UNCHANGED <<seen, handled>>
    /\ UNCHANGED <<seqs, tx, packing, restarts>>

DedupNext ==
    \/ SendPackets(1)
    \/ ReadNumber
    \/ SendRaced
    \/ RestartSender
    \/ \E c \in Copies, n \in Packets : CheckPacket(c, n)

DedupSpec == DedupInit /\ [][DedupNext]_dedupVars

-----------------------------------------------------------------------------
\* "returns false on the second arrival so handle_message is only called once"
\* (dedup.h): a packet is handled once, whichever of its copies come and when.
HandledOnce == \A n \in Packets : handled[n] <= 1

\* "Returns false -> duplicate, drop silently" (dedup.h): what is dropped was
\* handled before.
OnlyDuplicatesDropped ==
    [][seqs' = seqs /\ restarts' = restarts =>
           \A cn \in air \ air' : handled'[cn[2]] > 0]_dedupVars
=============================================================================
