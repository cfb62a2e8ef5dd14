----------------------------- MODULE LinkProofs -----------------------------
(***************************************************************************)
(* What holds of one direction of the link for every length of a transfer, *)
(* every window of sequence numbers and every loss, repetition and         *)
(* reordering that stays within the window: of the duplicate filter        *)
(* (DedupFilter), and of the corrections (RtcmLink), the mission blobs     *)
(* (MissionTransport) and the camera frames (CameraFrames) that are put    *)
(* together from fragments.                                                *)
(***************************************************************************)
EXTENDS DedupFilter, RtcmLink, MissionTransport, CameraFrames, SequenceTheorems, FiniteSetTheorems, TLAPS

-----------------------------------------------------------------------------
(* The duplicate filter. The ring of the receiver remembers the packets    *)
(* that may still come: a sequence number is forgotten when one half a     *)
(* ring further has come, and by then no copy of the packet is in the air. *)

(***************************************************************************)
(* Arithmetic.                                                             *)
(***************************************************************************)
LEMMA NoMultipleWithin ==
    ASSUME NEW r \in Nat \ {0}, NEW k \in Int, -r < r * k, r * k < r
    PROVE  k = 0
<1>1. CASE k >= 1
  <2>1. r * k = r + r * (k - 1)
    OBVIOUS
  <2>2. r * (k - 1) >= 0
    BY <1>1
  <2> QED BY <2>1, <2>2
<1>2. CASE k <= -1
  <2>1. r * k = -r - r * (-1 - k)
    OBVIOUS
  <2>2. r * (-1 - k) >= 0
    BY <1>2
  <2> QED BY <2>1, <2>2
<1> QED BY <1>1, <1>2

LEMMA Division ==
    ASSUME NEW a \in Int, NEW r \in Nat \ {0}
    PROVE  /\ a \div r \in Int /\ a % r \in 0..r - 1
           /\ a = r * (a \div r) + (a % r)
OBVIOUS

\* The entry that is cleared is not that of a number less than half a ring away.
LEMMA HalfRingAway ==
    ASSUME NEW a \in Int, NEW b \in Int, a - b < Half, b - a < Half
    PROVE  ((a % Ring) + Half) % Ring # b % Ring
<1>1. Half \in Nat \ {0} /\ Ring = 2 * Half /\ Ring \in Nat \ {0}
  BY RingAssumption
<1> DEFINE qa == a \div Ring
           ra == a % Ring
           qb == b \div Ring
           rb == b % Ring
           k == qb - qa
<1>2. /\ qa \in Int /\ ra \in 0..Ring - 1 /\ a = Ring * qa + ra
      /\ qb \in Int /\ rb \in 0..Ring - 1 /\ b = Ring * qb + rb
  BY <1>1, Division
<1> HIDE DEF qa, ra, qb, rb
<1>3. (ra + Half) % Ring = IF ra + Half < Ring THEN ra + Half ELSE ra + Half - Ring
  BY <1>1, <1>2
<1>4. b - a = Ring * k + rb - ra
  BY <1>1, <1>2
<1> SUFFICES ASSUME rb = IF ra + Half < Ring THEN ra + Half ELSE ra + Half - Ring PROVE FALSE
  BY <1>3 DEF ra, rb
<1>5. k \in Int
  BY <1>2
<1> HIDE DEF k
<1>6. Ring * k \in Int
  BY <1>1, <1>5
<1>7. -Ring < Ring * k /\ Ring * k < Ring
  BY <1>1, <1>2, <1>4, <1>6
<1>8. k = 0
  BY <1>1, <1>5, <1>7, NoMultipleWithin
<1> QED BY <1>1, <1>2, <1>4, <1>8

(***************************************************************************)
(* The invariant.                                                          *)
(***************************************************************************)
Aloft == {cn[2] : cn \in air}

DedupTypeOK ==
    /\ seqs \in Seq(Nat)
    /\ tx \in Nat
    /\ packing \in {NotPacking} \cup [number : Nat, after : Nat]
    /\ air \subseteq Copies \X (1..Len(seqs))
    /\ seen \in [Numbers -> BOOLEAN]
    /\ handled \in Seq(Nat) /\ Len(handled) = Len(seqs)

\* No more than Lag packets leave after a copy that is under way.
Fresh == \A n \in Aloft : Len(seqs) - n < Lag

\* What the packing thread has read is as many packets old as have left since.
Packing ==
    packing # NotPacking =>
        /\ packing.after <= Len(seqs)
        /\ Len(seqs) - packing.after <= Overlap
        /\ tx = packing.number + Len(seqs) - packing.after

\* How far the counter may fall behind the packets under way, and run ahead of them.
Counter ==
    \A n \in Aloft :
        /\ seqs[n] <= tx + Overlap - 1
        /\ packing # NotPacking => seqs[n] <= packing.number + Overlap - 1
        /\ tx - seqs[n] <= Len(seqs) - n + 1 + Overlap

\* How far the numbers of two packets under way are apart.
Together ==
    \A n, m \in Aloft :
        n < m => /\ seqs[n] - seqs[m] < Overlap
                 /\ seqs[m] - seqs[n] <= m - n + Overlap

\* What was handled and has a copy under way has its bit set.
Remembered ==
    /\ HandledOnce
    /\ \A n \in Aloft : handled[n] = 1 => seen[Wire(n)]

DedupInv == DedupTypeOK /\ Fresh /\ Packing /\ Counter /\ Together /\ Remembered

LEMMA DedupInitially == DedupInit => DedupInv
<1> SUFFICES ASSUME DedupInit PROVE DedupInv
  OBVIOUS
<1>1. Aloft = {} /\ First \in Nat
  BY FirstAssumption, RingAssumption DEF DedupInit, Aloft
<1>2. DedupTypeOK
  BY <1>1 DEF DedupInit, DedupTypeOK, NotPacking
<1> QED BY <1>1, <1>2
        DEF DedupInit, DedupInv, Fresh, Packing, Counter, Together, Remembered, HandledOnce,
            Packets, NotPacking

\* Packets under way are at most half a ring apart.
LEMMA LessThanHalf ==
    ASSUME DedupInv, NEW n \in Aloft, NEW m \in Aloft
    PROVE  /\ n \in 1..Len(seqs) /\ m \in 1..Len(seqs)
           /\ seqs[n] \in Nat /\ seqs[m] \in Nat
           /\ seqs[n] - seqs[m] < Half
<1>1. /\ n \in 1..Len(seqs) /\ m \in 1..Len(seqs) /\ Len(seqs) \in Nat
      /\ seqs[n] \in Nat /\ seqs[m] \in Nat
  BY DEF DedupInv, DedupTypeOK, Aloft
<1>2. Len(seqs) - n < Lag /\ Len(seqs) - m < Lag
  BY DEF DedupInv, Fresh
<1>3. /\ n < m => seqs[n] - seqs[m] < Overlap
      /\ m < n => seqs[n] - seqs[m] <= n - m + Overlap
  BY DEF DedupInv, Together
<1>4. /\ Lag \in Nat \ {0} /\ Overlap \in Nat /\ Half \in Nat \ {0} /\ Lag + Overlap <= Half
  BY LagAssumption, RingAssumption
<1> HIDE DEF DedupInv
<1>5. CASE n = m
  BY <1>1, <1>4, <1>5
<1>6. CASE n < m
  BY <1>1, <1>3, <1>4, <1>6
<1>7. CASE m < n
  BY <1>1, <1>2, <1>3, <1>4, <1>7
<1> QED BY <1>1, <1>5, <1>6, <1>7

\* What a packet that leaves does to the packets that were there.
LEMMA Transmitted ==
    ASSUME DedupTypeOK, Fresh, NEW numbers \in Seq(Nat), Transmit(numbers)
    PROVE  /\ seqs' \in Seq(Nat) /\ Len(seqs') = Len(seqs) + Len(numbers)
           /\ \A n \in 1..Len(seqs) : seqs'[n] = seqs[n] /\ handled'[n] = handled[n]
           /\ \A i \in 1..Len(numbers) : /\ seqs'[Len(seqs) + i] = numbers[i]
                                         /\ handled'[Len(seqs) + i] = 0
           /\ handled' \in Seq(Nat) /\ Len(handled') = Len(seqs')
           /\ air' \subseteq Copies \X (1..Len(seqs'))
           /\ \A n \in Aloft' : /\ n \in 1..Len(seqs') /\ Len(seqs') - n < Lag
                                /\ n \in 1..Len(seqs) => n \in Aloft
<1> DEFINE L == Len(seqs)
           last == L + Len(numbers)
           zeros == [i \in 1..Len(numbers) |-> 0]
<1>1. /\ seqs' = seqs \o numbers /\ handled' = handled \o zeros
      /\ air' = Underway(air \cup (Copies \X (L + 1..last)), last)
  BY DEF Transmit
<1>2. /\ seqs \in Seq(Nat) /\ handled \in Seq(Nat) /\ Len(handled) = L
      /\ L \in Nat /\ Len(numbers) \in Nat /\ air \subseteq Copies \X (1..L)
  BY DEF DedupTypeOK
<1>3. zeros \in Seq(Nat) /\ Len(zeros) = Len(numbers)
  BY <1>2
<1>4. seqs' \in Seq(Nat) /\ Len(seqs') = last /\ handled' \in Seq(Nat) /\ Len(handled') = last
  <2>1. numbers \in Seq(Nat) /\ zeros \in Seq(Nat)
    BY <1>3
  <2> HIDE DEF zeros
  <2>2. seqs \o numbers \in Seq(Nat) /\ Len(seqs \o numbers) = Len(seqs) + Len(numbers)
    BY <1>2, <2>1, ConcatProperties
  <2>3. handled \o zeros \in Seq(Nat) /\ Len(handled \o zeros) = Len(handled) + Len(zeros)
    BY <1>2, <2>1, ConcatProperties
  <2> QED BY <1>1, <1>2, <1>3, <2>2, <2>3
<1>5. \A n \in 1..L : seqs'[n] = seqs[n] /\ handled'[n] = handled[n]
  BY <1>1, <1>2, <1>3
<1>6. \A i \in 1..Len(numbers) : seqs'[L + i] = numbers[i] /\ handled'[L + i] = 0
  BY <1>1, <1>2, <1>3
<1> HIDE DEF L, last
<1>7. \A cn \in air' : /\ cn \in Copies \X (1..last) /\ last - cn[2] < Lag
                       /\ cn[2] \in 1..L => cn \in air
  BY <1>1, <1>2 DEF Underway, last
<1>8. \A n \in Aloft' : /\ n \in 1..last /\ last - n < Lag
                        /\ n \in 1..L => n \in Aloft
  BY <1>7 DEF Aloft
<1> QED BY <1>4, <1>5, <1>6, <1>7, <1>8 DEF L, last

\* What is left to show when packets leave: that the counter and the numbers are kept.
LEMMA LeavingKeeps ==
    ASSUME DedupInv, NEW numbers \in Seq(Nat), Transmit(numbers),
           tx' \in Nat, packing' \in {NotPacking} \cup [number : Nat, after : Nat],
           UNCHANGED seen, Packing', Counter', Together'
    PROVE  DedupInv'
<1>1. DedupTypeOK'
  BY Transmitted DEF DedupInv, DedupTypeOK
<1>2. Fresh'
  BY Transmitted DEF DedupInv, Fresh
<1>3. \A n \in 1..Len(seqs') : n \notin 1..Len(seqs) => handled'[n] = 0
  <2>1. Len(seqs) \in Nat /\ Len(numbers) \in Nat
    BY DEF DedupInv, DedupTypeOK
  <2>2. Len(seqs') = Len(seqs) + Len(numbers)
    BY Transmitted DEF DedupInv
  <2> SUFFICES ASSUME NEW n \in 1..Len(seqs'), n \notin 1..Len(seqs) PROVE handled'[n] = 0
    OBVIOUS
  <2>3. n - Len(seqs) \in 1..Len(numbers) /\ n = Len(seqs) + (n - Len(seqs))
    BY <2>1, <2>2
  <2>4. handled'[Len(seqs) + (n - Len(seqs))] = 0
    BY <2>3, Transmitted DEF DedupInv
  <2> QED BY <2>3, <2>4
<1>4. \A n \in 1..Len(seqs) : handled'[n] = handled[n] /\ seqs'[n] = seqs[n]
  BY Transmitted DEF DedupInv
<1>5. HandledOnce'
  <2>1. DOMAIN seqs = 1..Len(seqs) /\ DOMAIN seqs' = 1..Len(seqs')
    BY <1>1 DEF DedupInv, DedupTypeOK
  <2>2. \A n \in 1..Len(seqs) : handled[n] <= 1
    BY <2>1 DEF DedupInv, Remembered, HandledOnce, Packets
  <2> QED BY <1>3, <1>4, <2>1, <2>2 DEF HandledOnce, Packets
<1>6. \A n \in Aloft' : handled'[n] = 1 => seen'[Wire(n)']
  <2> SUFFICES ASSUME NEW n \in Aloft', handled'[n] = 1 PROVE seen'[Wire(n)']
    OBVIOUS
  <2>1. n \in 1..Len(seqs') /\ (n \in 1..Len(seqs) => n \in Aloft)
    BY Transmitted DEF DedupInv
  <2>2. n \in 1..Len(seqs) /\ n \in Aloft
    BY <1>3, <2>1
  <2>3. handled[n] = 1 /\ Wire(n)' = Wire(n)
    BY <1>4, <2>2 DEF Wire
  <2> QED BY <2>2, <2>3 DEF DedupInv, Remembered
<1> QED BY <1>1, <1>2, <1>5, <1>6 DEF DedupInv, Remembered

LEMMA SendPacketsKeeps ==
    ASSUME DedupInv, NEW k \in Nat, SendPackets(k)
    PROVE  DedupInv'
<1> DEFINE L == Len(seqs)
           numbers == [i \in 1..k |-> tx + i - 1]
<1>1. /\ Transmit(numbers) /\ tx' = tx + k /\ packing' = packing /\ seen' = seen
      /\ packing # NotPacking => L + k - packing.after <= Overlap
  BY DEF SendPackets
<1>2. tx \in Nat /\ packing \in {NotPacking} \cup [number : Nat, after : Nat] /\ L \in Nat
      /\ seqs \in Seq(Nat) /\ Overlap \in Nat
  BY LagAssumption DEF DedupInv, DedupTypeOK
<1>3. numbers \in Seq(Nat) /\ Len(numbers) = k /\ \A i \in 1..k : numbers[i] = tx + i - 1
  BY <1>2
<1> HIDE DEF numbers
<1>4. Len(seqs') = L + k /\ \A n \in 1..L : seqs'[n] = seqs[n]
  BY <1>1, <1>3, Transmitted DEF DedupInv
<1>5. \A n \in Aloft' : \/ n \in 1..L /\ n \in Aloft /\ seqs'[n] = seqs[n] /\ seqs[n] \in Nat
                        \/ n \in L + 1..L + k /\ seqs'[n] = tx + n - L - 1
  <2> SUFFICES ASSUME NEW n \in Aloft'
               PROVE  \/ n \in 1..L /\ n \in Aloft /\ seqs'[n] = seqs[n] /\ seqs[n] \in Nat
                      \/ n \in L + 1..L + k /\ seqs'[n] = tx + n - L - 1
    OBVIOUS
  <2>1. n \in 1..L + k /\ (n \in 1..L => n \in Aloft)
    BY <1>1, <1>3, <1>4, Transmitted DEF DedupInv
  <2>2. CASE n \in 1..L
    BY <1>2, <1>4, <2>1, <2>2
  <2>3. CASE n \notin 1..L
    <3>1. n - L \in 1..k /\ n = L + (n - L)
      BY <1>2, <2>1, <2>3
    <3>2. seqs'[L + (n - L)] = numbers[n - L]
      BY <1>1, <1>3, <3>1, Transmitted DEF DedupInv
    <3> QED BY <1>2, <1>3, <3>1, <3>2
  <2> QED BY <2>2, <2>3
<1>6. \A n \in Aloft : /\ seqs[n] <= tx + Overlap - 1
                       /\ packing # NotPacking => seqs[n] <= packing.number + Overlap - 1
                       /\ tx - seqs[n] <= L - n + 1 + Overlap
  BY DEF DedupInv, Counter
<1>7. Packing'
  <2>1. NotPacking' = NotPacking
    BY DEF NotPacking
  <2> QED BY <1>1, <1>2, <1>4, <2>1 DEF DedupInv, Packing
<1>8. Counter'
  <2> SUFFICES ASSUME NEW n \in Aloft'
               PROVE  /\ seqs'[n] <= tx' + Overlap - 1
                      /\ packing' # NotPacking => seqs'[n] <= packing'.number + Overlap - 1
                      /\ tx' - seqs'[n] <= Len(seqs') - n + 1 + Overlap
    BY DEF Counter
  <2>1. CASE n \in 1..L /\ n \in Aloft /\ seqs'[n] = seqs[n] /\ seqs[n] \in Nat
    <3>1. /\ seqs[n] <= tx + Overlap - 1 /\ tx - seqs[n] <= L - n + 1 + Overlap
          /\ packing # NotPacking => seqs[n] <= packing.number + Overlap - 1
      BY <1>6, <2>1
    <3>2. /\ n \in Int /\ seqs[n] \in Int /\ tx \in Int /\ L \in Int /\ Overlap \in Int
          /\ k \in Nat
      BY <1>2, <2>1
    <3>3. /\ seqs[n] <= (tx + k) + Overlap - 1
          /\ (tx + k) - seqs[n] <= (L + k) - n + 1 + Overlap
      BY ONLY <3>1, <3>2
    <3> QED BY <1>1, <1>4, <2>1, <3>1, <3>3
  <2>2. CASE n \in L + 1..L + k /\ seqs'[n] = tx + n - L - 1
    <3>1. packing' # NotPacking => /\ packing.number \in Nat /\ packing.after \in Nat
                                  /\ L + k - packing.after <= Overlap
                                  /\ tx = packing.number + L - packing.after
      BY <1>1, <1>2 DEF DedupInv, Packing, NotPacking
    <3> QED BY <1>1, <1>2, <1>4, <2>2, <3>1
  <2> QED BY <1>5, <2>1, <2>2
<1>9. Together'
  <2> SUFFICES ASSUME NEW n \in Aloft', NEW m \in Aloft', n < m
               PROVE  seqs'[n] - seqs'[m] < Overlap /\ seqs'[m] - seqs'[n] <= m - n + Overlap
    BY DEF Together
  <2>1. CASE m \in 1..L
    <3>1. n \in 1..L /\ n \in Aloft /\ m \in Aloft /\ seqs'[n] = seqs[n] /\ seqs'[m] = seqs[m]
      BY <1>2, <1>5, <2>1
    <3> QED BY <3>1 DEF DedupInv, Together
  <2>2. CASE m \notin 1..L
    <3>1. m \in L + 1..L + k /\ seqs'[m] = tx + m - L - 1
      BY <1>5, <2>2
    <3>2. CASE n \in 1..L /\ n \in Aloft /\ seqs'[n] = seqs[n] /\ seqs[n] \in Nat
      <4>1. seqs[n] <= tx + Overlap - 1 /\ tx - seqs[n] <= L - n + 1 + Overlap
        BY <1>6, <3>2
      <4>2. /\ n \in Int /\ m \in Int /\ seqs[n] \in Int /\ tx \in Int /\ L \in Int
            /\ Overlap \in Int /\ m >= L + 1
        BY <1>2, <3>1, <3>2
      <4>3. /\ seqs[n] - (tx + m - L - 1) < Overlap
            /\ (tx + m - L - 1) - seqs[n] <= m - n + Overlap
        BY ONLY <4>1, <4>2
      <4> QED BY <3>1, <3>2, <4>3
    <3>3. CASE n \in L + 1..L + k /\ seqs'[n] = tx + n - L - 1
      BY <1>2, <3>1, <3>3
    <3> QED BY <1>5, <3>2, <3>3
  <2> QED BY <2>1, <2>2
<1> QED BY <1>1, <1>2, <1>3, <1>7, <1>8, <1>9, LeavingKeeps

LEMMA ReadNumberKeeps == DedupInv /\ ReadNumber => DedupInv'
<1> SUFFICES ASSUME DedupInv, ReadNumber PROVE DedupInv'
  OBVIOUS
<1>1. /\ packing' = [number |-> tx, after |-> Len(seqs)]
      /\ UNCHANGED <<seqs, tx, air, seen, handled>>
  BY DEF ReadNumber
<1>2. tx \in Nat /\ Len(seqs) \in Nat /\ Overlap \in Nat /\ Aloft' = Aloft
  BY <1>1, LagAssumption DEF DedupInv, DedupTypeOK, Aloft
<1>3. DedupTypeOK'
  BY <1>1, <1>2 DEF DedupInv, DedupTypeOK
<1>4. Fresh' /\ Together' /\ Remembered'
  BY <1>1, <1>2 DEF DedupInv, Fresh, Together, Remembered, HandledOnce, Packets, Wire
<1>5. Packing' /\ Counter'
  BY <1>1, <1>2 DEF DedupInv, Packing, Counter
<1> QED BY <1>3, <1>4, <1>5 DEF DedupInv

LEMMA SendRacedKeeps == DedupInv /\ SendRaced => DedupInv'
<1> SUFFICES ASSUME DedupInv, SendRaced PROVE DedupInv'
  OBVIOUS
<1> DEFINE L == Len(seqs)
           p == packing.number
<1>1. /\ packing # NotPacking /\ Transmit(<<p>>) /\ tx' \in {p + 1, tx + 1}
      /\ packing' = NotPacking /\ seen' = seen
  BY DEF SendRaced
<1>2. tx \in Nat /\ packing \in {NotPacking} \cup [number : Nat, after : Nat] /\ L \in Nat
      /\ seqs \in Seq(Nat) /\ Overlap \in Nat
  BY LagAssumption DEF DedupInv, DedupTypeOK
<1>3. /\ packing \in [number : Nat, after : Nat] /\ p \in Nat /\ packing.after \in Nat
      /\ packing.after <= L /\ L - packing.after <= Overlap /\ tx = p + L - packing.after
  BY <1>1, <1>2 DEF DedupInv, Packing
<1>4. <<p>> \in Seq(Nat) /\ Len(<<p>>) = 1 /\ <<p>>[1] = p
  BY <1>3
<1> HIDE DEF p
<1>5. Len(seqs') = L + 1 /\ seqs'[L + 1] = p /\ \A n \in 1..L : seqs'[n] = seqs[n]
  <2>1. /\ Len(seqs') = L + Len(<<p>>) /\ \A n \in 1..L : seqs'[n] = seqs[n]
        /\ \A i \in 1..Len(<<p>>) : seqs'[L + i] = <<p>>[i]
    BY <1>1, <1>4, Transmitted DEF DedupInv
  <2>2. 1 \in 1..Len(<<p>>)
    BY <1>4
  <2> QED BY <1>4, <2>1, <2>2
<1>6. \A n \in Aloft' : \/ n \in 1..L /\ n \in Aloft /\ seqs'[n] = seqs[n] /\ seqs[n] \in Nat
                        \/ n = L + 1 /\ seqs'[n] = p
  <2> SUFFICES ASSUME NEW n \in Aloft'
               PROVE  \/ n \in 1..L /\ n \in Aloft /\ seqs'[n] = seqs[n] /\ seqs[n] \in Nat
                      \/ n = L + 1 /\ seqs'[n] = p
    OBVIOUS
  <2>1. n \in 1..L + 1 /\ (n \in 1..L => n \in Aloft)
    BY <1>1, <1>4, <1>5, Transmitted DEF DedupInv
  <2> QED BY <1>2, <1>5, <2>1
<1>7. \A n \in Aloft : seqs[n] <= p + Overlap - 1 /\ tx - seqs[n] <= L - n + 1 + Overlap
  BY <1>1 DEF DedupInv, Counter, p
<1>8. Packing'
  BY <1>1 DEF Packing, NotPacking
<1>9. tx' \in Nat /\ p + 1 <= tx' /\ tx' <= tx + 1 /\ tx + 1 <= p + 1 + Overlap
  BY <1>1, <1>2, <1>3
<1>10. Counter'
  <2> SUFFICES ASSUME NEW n \in Aloft'
               PROVE  /\ seqs'[n] <= tx' + Overlap - 1
                      /\ tx' - seqs'[n] <= Len(seqs') - n + 1 + Overlap
    BY <1>1 DEF Counter, NotPacking
  <2>1. CASE n \in 1..L /\ n \in Aloft /\ seqs'[n] = seqs[n] /\ seqs[n] \in Nat
    <3>1. seqs[n] <= p + Overlap - 1 /\ tx - seqs[n] <= L - n + 1 + Overlap /\ n \in 1..L
      BY <1>7, <2>1
    <3>2. /\ seqs'[n] = seqs[n] /\ Len(seqs') = L + 1 /\ seqs[n] \in Int /\ n \in Int
          /\ L \in Int /\ p \in Int /\ tx \in Int /\ tx' \in Int /\ Overlap \in Int
      <4>1. seqs'[n] = seqs[n] /\ Len(seqs') = L + 1 /\ n \in Int /\ seqs[n] \in Int
        BY <1>5, <2>1
      <4> QED BY <1>2, <1>3, <1>9, <4>1
    <3> HIDE DEF L
    <3> QED BY <1>9, <3>1, <3>2
  <2>2. CASE n = L + 1 /\ seqs'[n] = p
    BY <1>2, <1>3, <1>5, <1>9, <2>2
  <2> QED BY <1>6, <2>1, <2>2
<1>11. Together'
  <2> SUFFICES ASSUME NEW n \in Aloft', NEW m \in Aloft', n < m
               PROVE  seqs'[n] - seqs'[m] < Overlap /\ seqs'[m] - seqs'[n] <= m - n + Overlap
    BY DEF Together
  <2>1. CASE m \in 1..L
    <3>1. n \in 1..L /\ n \in Aloft /\ m \in Aloft /\ seqs'[n] = seqs[n] /\ seqs'[m] = seqs[m]
      BY <1>2, <1>6, <2>1
    <3> QED BY <3>1 DEF DedupInv, Together
  <2>2. CASE m \notin 1..L
    <3>1. m = L + 1 /\ seqs'[m] = p
      BY <1>6, <2>2
    <3>2. n \in 1..L /\ n \in Aloft /\ seqs'[n] = seqs[n] /\ seqs[n] \in Nat
      BY <1>2, <1>6, <3>1
    <3>3. seqs[n] <= p + Overlap - 1 /\ tx - seqs[n] <= L - n + 1 + Overlap
      BY <1>7, <3>2
    <3>4. /\ n \in Int /\ seqs[n] \in Int /\ tx \in Int /\ L \in Int /\ Overlap \in Int
          /\ p \in Int /\ p <= tx
      BY <1>2, <1>3, <3>2
    <3>5. seqs[n] - p < Overlap /\ p - seqs[n] <= (L + 1) - n + Overlap
      BY ONLY <3>3, <3>4
    <3> QED BY <3>1, <3>2, <3>5
  <2> QED BY <2>1, <2>2
<1>12. tx' \in Nat /\ packing' \in {NotPacking} \cup [number : Nat, after : Nat]
  BY <1>1, <1>2, <1>3
<1> QED BY <1>1, <1>4, <1>8, <1>10, <1>11, <1>12, LeavingKeeps

LEMMA RestartSenderKeeps == DedupInv /\ RestartSender => DedupInv'
<1> SUFFICES ASSUME DedupInv, RestartSender PROVE DedupInv'
  OBVIOUS
<1>1. tx' = 0 /\ packing' = NotPacking /\ air' = {} /\ UNCHANGED <<seqs, seen, handled>>
  BY DEF RestartSender
<1>2. Aloft' = {} /\ NotPacking' = NotPacking
  BY <1>1 DEF Aloft, NotPacking
<1>3. DedupTypeOK' /\ HandledOnce'
  BY <1>1, <1>2 DEF DedupInv, DedupTypeOK, Remembered, HandledOnce, Packets
<1> QED BY <1>1, <1>2, <1>3 DEF DedupInv, Fresh, Packing, Counter, Together, Remembered

\* A packet whose bit is not set has not been handled, and now is.
LEMMA Checked ==
    ASSUME DedupInv, NEW c \in Copies, NEW n \in Packets, CheckPacket(c, n)
    PROVE  /\ n \in Aloft /\ Aloft' \subseteq Aloft /\ UNCHANGED <<seqs, tx, packing>>
           /\ New(n) => /\ handled[n] = 0 /\ handled'[n] = 1 /\ seen' = Mark(Wire(n))
                        /\ handled' \in Seq(Nat) /\ Len(handled') = Len(seqs)
                        /\ \A m \in 1..Len(seqs) : m # n => handled'[m] = handled[m]
           /\ ~New(n) => UNCHANGED <<seen, handled>>
<1>1. /\ <<c, n>> \in air /\ air' = air \ {<<c, n>>} /\ UNCHANGED <<seqs, tx, packing>>
      /\ New(n) => /\ seen' = Mark(Wire(n))
                   /\ handled' = [handled EXCEPT ![n] = @ + 1]
      /\ ~New(n) => UNCHANGED <<seen, handled>>
  BY DEF CheckPacket
<1>2. n \in Aloft /\ Aloft' \subseteq Aloft
  BY <1>1 DEF Aloft
<1>3. /\ n \in 1..Len(seqs) /\ Len(handled) = Len(seqs) /\ handled \in Seq(Nat)
      /\ Len(seqs) \in Nat /\ seqs \in Seq(Nat)
  BY <1>2 DEF DedupInv, DedupTypeOK, Aloft
<1>4. ASSUME New(n) PROVE handled[n] = 0
  <2>1. handled[n] \in Nat /\ handled[n] <= 1
    BY <1>3 DEF DedupInv, Remembered, HandledOnce, Packets
  <2>2. handled[n] # 1
    BY <1>2, <1>4 DEF DedupInv, Remembered, New
  <2> QED BY <2>1, <2>2
<1>5. ASSUME New(n)
      PROVE  /\ handled' \in Seq(Nat) /\ Len(handled') = Len(seqs) /\ handled'[n] = 1
             /\ \A m \in 1..Len(seqs) : m # n => handled'[m] = handled[m]
  <2>1. handled' = [handled EXCEPT ![n] = @ + 1] /\ handled[n] = 0
    BY <1>1, <1>4, <1>5
  <2> QED BY <1>3, <2>1
<1> QED BY <1>1, <1>2, <1>4, <1>5

LEMMA CheckPacketKeeps ==
    ASSUME DedupInv, NEW c \in Copies, NEW n \in Packets, CheckPacket(c, n)
    PROVE  DedupInv'
<1>1. /\ <<c, n>> \in air /\ air' = air \ {<<c, n>>} /\ UNCHANGED <<seqs, tx, packing>>
      /\ New(n) => /\ seen' = Mark(Wire(n))
                   /\ handled' = [handled EXCEPT ![n] = @ + 1]
      /\ ~New(n) => UNCHANGED <<seen, handled>>
  BY DEF CheckPacket
<1>2. n \in Aloft /\ Aloft' \subseteq Aloft
  BY <1>1 DEF Aloft
<1>3. /\ n \in 1..Len(seqs) /\ Len(handled) = Len(seqs) /\ handled \in Seq(Nat)
      /\ Len(seqs) \in Nat /\ seen \in [Numbers -> BOOLEAN] /\ seqs \in Seq(Nat)
  BY <1>2 DEF DedupInv, DedupTypeOK, Aloft
<1>4. \A m \in Aloft : m \in 1..Len(seqs) /\ seqs[m] \in Nat /\ Wire(m) \in Numbers
                       /\ Wire(m)' = Wire(m)
  <2>1. \A m \in Aloft : m \in 1..Len(seqs) /\ seqs[m] \in Nat
    BY <1>2, LessThanHalf
  <2>2. Ring \in Nat \ {0}
    BY RingAssumption
  <2>3. \A m \in Aloft : seqs[m] % Ring \in 0..Ring - 1
    <3> SUFFICES ASSUME NEW m \in Aloft PROVE seqs[m] % Ring \in 0..Ring - 1
      OBVIOUS
    <3>1. seqs[m] \in Int
      BY <2>1
    <3> QED BY <2>2, <3>1, Division
  <2> QED BY <1>1, <2>1, <2>3 DEF Wire, Numbers
<1>5. CASE ~New(n)
  <2>1. UNCHANGED <<seqs, tx, packing, seen, handled>> /\ NotPacking' = NotPacking
    BY <1>1, <1>5 DEF NotPacking
  <2>2. DedupTypeOK'
    BY <1>1, <2>1 DEF DedupInv, DedupTypeOK
  <2>3. Fresh' /\ Packing' /\ Counter' /\ Together'
    BY <1>2, <2>1 DEF DedupInv, Fresh, Packing, Counter, Together
  <2>4. Remembered'
    BY <1>2, <1>4, <2>1 DEF DedupInv, Remembered, HandledOnce, Packets
  <2> QED BY <2>2, <2>3, <2>4 DEF DedupInv
<1>6. CASE New(n)
  <2>1. seen' = Mark(Wire(n)) /\ NotPacking' = NotPacking
    BY <1>1, <1>6 DEF NotPacking
  <2>3. /\ handled' \in Seq(Nat) /\ Len(handled') = Len(handled) /\ handled'[n] = 1
        /\ \A m \in 1..Len(seqs) : m # n => handled'[m] = handled[m]
    BY <1>3, <1>6, Checked
  <2>4. DedupTypeOK'
    <3>1. seen' \in [Numbers -> BOOLEAN]
      BY <1>3, <2>1 DEF Mark
    <3> QED BY <1>1, <2>3, <3>1 DEF DedupInv, DedupTypeOK
  <2>5. Fresh' /\ Packing' /\ Counter' /\ Together'
    BY <1>1, <1>2, <2>1 DEF DedupInv, Fresh, Packing, Counter, Together
  <2>6. HandledOnce'
    <3>1. DOMAIN seqs = 1..Len(seqs)
      BY <1>3
    <3>2. \A m \in 1..Len(seqs) : handled[m] <= 1
      BY <3>1 DEF DedupInv, Remembered, HandledOnce, Packets
    <3> QED BY <1>1, <2>3, <3>1, <3>2 DEF HandledOnce, Packets
  <2>7. \A m \in Aloft' : handled'[m] = 1 => seen'[Wire(m)']
    <3> SUFFICES ASSUME NEW m \in Aloft, handled'[m] = 1 PROVE seen'[Wire(m)]
      BY <1>2, <1>4
    <3>1. Wire(m) = Wire(n) \/ seen[Wire(m)]
      <4>1. CASE m = n
        BY <4>1
      <4>2. CASE m # n
        BY <1>4, <2>3, <4>2 DEF DedupInv, Remembered
      <4> QED BY <4>1, <4>2
    <3>2. (Wire(n) + Half) % Ring # Wire(m)
      BY <1>2, LessThanHalf, HalfRingAway DEF Wire
    <3>3. Wire(m) \in Numbers /\ Wire(n) \in Numbers
      BY <1>2, <1>4
    <3> HIDE DEF Wire
    <3> QED BY <1>3, <2>1, <3>1, <3>2, <3>3 DEF Mark
  <2> QED BY <2>4, <2>5, <2>6, <2>7 DEF DedupInv, Remembered
<1> QED BY <1>5, <1>6

LEMMA DedupStep == DedupInv /\ [DedupNext]_dedupVars => DedupInv'
<1> SUFFICES ASSUME DedupInv, [DedupNext]_dedupVars PROVE DedupInv'
  OBVIOUS
<1>1. CASE SendPackets(1)
  BY <1>1, SendPacketsKeeps
<1>2. CASE ReadNumber \/ SendRaced \/ RestartSender
  BY <1>2, ReadNumberKeeps, SendRacedKeeps, RestartSenderKeeps
<1>3. ASSUME NEW c \in Copies, NEW n \in Packets, CheckPacket(c, n) PROVE DedupInv'
  BY <1>3, CheckPacketKeeps
<1>4. CASE UNCHANGED dedupVars
  BY <1>4 DEF dedupVars, DedupInv, DedupTypeOK, Fresh, Packing, Counter, Together, Remembered,
              HandledOnce, Packets, Wire, Aloft, NotPacking
<1> QED BY <1>1, <1>2, <1>3, <1>4 DEF DedupNext

\* A packet is handled at most once, whichever of its copies come over the two links and
\* in whatever order, and however often the sender restarts (DedupFilter::check).
THEOREM PacketsHandledOnce == DedupSpec => []HandledOnce
<1>1. DedupInv => HandledOnce
  BY DEF DedupInv, Remembered
<1> QED BY <1>1, DedupInitially, DedupStep, PTL DEF DedupSpec

-----------------------------------------------------------------------------
(* Corrections. A number is given to the next message only after the       *)
(* packets of the message that had it before are too old to come, so that  *)
(* a buffer that holds fragments of two messages was left behind by a      *)
(* message that did not get complete.                                      *)

(***************************************************************************)
(* The invariant.                                                          *)
(***************************************************************************)
Lengths == [full : Nat, rest : BOOLEAN]
GpsRtcm == [msg : Nat, number : Int, idx : Nat, short : BOOLEAN]
Frags == UNION {[D -> Nat] : D \in SUBSET (1..MaxFrags)}
Msg(n) == gps_rtcm[n].msg
Size(n) == corrections[Msg(n)]

RtcmTypeOK ==
    /\ corrections \in Seq(Lengths)
    /\ \A m \in DOMAIN corrections : corrections[m].full > 0 \/ corrections[m].rest
    /\ gps_rtcm \in Seq(GpsRtcm)
    /\ Len(gps_rtcm) = Len(seqs)
    /\ rtcm_seq \in Nat
    /\ rtcm_frags \in [0..Slots - 1 -> [frags : Frags, last : {Unknown} \cup (1..MaxFrags)]]
    /\ injected \in Seq(Seq(Nat))

\* The packets carry every fragment of every message, once.
Cut ==
    /\ \A n \in Packets :
        /\ Msg(n) \in DOMAIN corrections
        /\ gps_rtcm[n].idx \in 1..FragsSent(Size(n))
        /\ gps_rtcm[n].short <=> gps_rtcm[n].idx > Size(n).full
        /\ gps_rtcm[n].number = NumberOf(Msg(n))
        /\ \/ gps_rtcm[n].number = Unfragmented /\ Chunks(Size(n)) = 1
           \/ gps_rtcm[n].number \in 0..Slots - 1 /\ Chunks(Size(n)) > 1
    /\ \A m \in DOMAIN corrections : \A i \in 1..FragsSent(corrections[m]) :
          \E n \in Packets : Msg(n) = m /\ gps_rtcm[n].idx = i
    /\ \A n, k \in Packets : Msg(n) = Msg(k) /\ gps_rtcm[n].idx = gps_rtcm[k].idx => n = k

\* Two packets at least leave for every number that is given after that of a packet.
Numbered ==
    \A n \in Aloft : gps_rtcm[n].number # Unfragmented =>
        \E q \in 0..rtcm_seq - 1 : /\ gps_rtcm[n].number = q % Slots
                                   /\ Len(seqs) - n >= 2 * (rtcm_seq - q - 1)

\* No message was given the number of packet n after its own.
Newest(n) == \A k \in Packets : gps_rtcm[k].number = gps_rtcm[n].number => Msg(k) <= Msg(n)
AloftNewest == \A n \in Aloft : gps_rtcm[n].number # Unfragmented => Newest(n)

\* What a buffer holds was handled, and is of messages that did not get complete.
Remains(s, k) == gps_rtcm[k].number = s /\ handled[k] > 0 /\ ~Injected(Msg(k))
Buffered ==
    \A s \in 0..Slots - 1 :
        /\ ~Assembled(rtcm_frags[s])
        /\ \A i \in DOMAIN rtcm_frags[s].frags :
              \E k \in Packets : /\ Remains(s, k)
                                 /\ Msg(k) = rtcm_frags[s].frags[i] /\ gps_rtcm[k].idx = i
        /\ rtcm_frags[s].last # Unknown =>
              \E k \in Packets : /\ Remains(s, k)
                                 /\ gps_rtcm[k].idx = rtcm_frags[s].last /\ gps_rtcm[k].short

InjectedHandled == \A n \in Packets : Injected(Msg(n)) => handled[n] > 0

\* What was handled of the last message of a number is in its buffer.
Waits(n) == handled[n] > 0 /\ ~Injected(Msg(n)) /\ ~LeftBehind(Msg(n)) /\ Newest(n)
KeptInBuffer ==
    \A n \in Packets : Waits(n) /\ gps_rtcm[n].number # Unfragmented =>
        LET buf == rtcm_frags[gps_rtcm[n].number]
        IN /\ gps_rtcm[n].idx \in DOMAIN buf.frags
           /\ buf.frags[gps_rtcm[n].idx] = Msg(n)
           /\ gps_rtcm[n].short => buf.last = gps_rtcm[n].idx

RtcmInv ==
    /\ DedupInv /\ RtcmTypeOK /\ Cut /\ Numbered /\ AloftNewest
    /\ Buffered /\ InjectedHandled /\ KeptInBuffer
    /\ CorrectionsWhole /\ CorrectionsArrive

(***************************************************************************)
(* Sizes, and what the functions of the link say in terms of them.         *)
(***************************************************************************)
LEMMA Sizes ==
    ASSUME NEW size \in Lengths, size.full > 0 \/ size.rest
    PROVE  /\ Chunks(size) \in Nat \ {0} /\ FragsSent(size) \in 1..MaxFrags
           /\ FragsSent(size) <= Chunks(size)
           /\ Fits(size) => FragsSent(size) = Chunks(size)
           /\ Chunks(size) = 1 => FragsSent(size) = 1
           /\ Chunks(size) > 1 => FragsSent(size) >= 2
           /\ \A i \in 1..FragsSent(size) :
                  /\ i > size.full => i = Chunks(size) /\ Fits(size) /\ size.rest
                  /\ i = Chunks(size) /\ size.rest => i > size.full
<1>1. MaxFrags \in Nat /\ MaxFrags >= 2 /\ size.full \in Nat /\ size.rest \in BOOLEAN
  BY CorrectionsAssumption DEF Lengths
<1>2. CASE size.rest
  BY <1>1, <1>2 DEF Chunks, FragsSent, Fits
<1>3. CASE ~size.rest
  BY <1>1, <1>3 DEF Chunks, FragsSent, Fits
<1> QED BY <1>2, <1>3

LEMMA SizeOf ==
    ASSUME RtcmTypeOK, NEW m \in DOMAIN corrections
    PROVE  /\ corrections[m] \in Lengths
           /\ corrections[m].full > 0 \/ corrections[m].rest
           /\ m \in Nat
<1>1. corrections[m].full > 0 \/ corrections[m].rest
  BY DEF RtcmTypeOK
<1>2. corrections \in Seq(Lengths)
  BY DEF RtcmTypeOK
<1>3. corrections[m] \in Lengths /\ m \in Nat
  BY <1>2, ElementOfSeq, LenProperties
<1> QED BY <1>1, <1>3

\* A message that was followed under its number by another one: no packet of it is left.
LEMMA PacketTypes ==
    ASSUME RtcmInv
    PROVE  /\ Packets = 1..Len(seqs) /\ Len(seqs) \in Nat /\ Len(gps_rtcm) = Len(seqs)
           /\ Aloft \subseteq Packets
           /\ \A n \in Packets : /\ gps_rtcm[n] \in GpsRtcm
                                  /\ handled[n] \in Nat
                                  /\ Msg(n) \in DOMAIN corrections
<1>1. Packets = 1..Len(seqs) /\ Len(seqs) \in Nat /\ Len(gps_rtcm) = Len(seqs)
  BY DEF RtcmInv, RtcmTypeOK, DedupInv, DedupTypeOK, Packets
<1>2. Aloft \subseteq Packets
  BY <1>1 DEF RtcmInv, DedupInv, DedupTypeOK, Aloft
<1>3. \A n \in Packets : gps_rtcm[n] \in GpsRtcm
  <2>1. gps_rtcm \in Seq(GpsRtcm)
    BY DEF RtcmInv, RtcmTypeOK
  <2> QED BY <1>1, <2>1, ElementOfSeq
<1>4. \A n \in Packets : handled[n] \in Nat
  BY <1>1 DEF RtcmInv, DedupInv, DedupTypeOK
<1>5. \A n \in Packets : Msg(n) \in DOMAIN corrections
  BY DEF RtcmInv, Cut
<1> QED BY <1>1, <1>2, <1>3, <1>4, <1>5

\* Remains of another message in the buffer are of an earlier one that left them behind.
LEMMA RemainsAreLeftBehind ==
    ASSUME RtcmInv, NEW s \in 0..Slots - 1, NEW n \in Aloft, gps_rtcm[n].number = s,
           NEW k \in Packets, Remains(s, k), ~LeftBehind(Msg(n))
    PROVE  Msg(k) = Msg(n)
<1>1. n \in Packets /\ Msg(n) \in Nat /\ Msg(k) \in Nat
  BY PacketTypes, SizeOf DEF RtcmInv
<1>1a. Msg(k) >= 1
  BY PacketTypes DEF RtcmInv, RtcmTypeOK
<1>2. gps_rtcm[k].number = s /\ ~Injected(Msg(k)) /\ s # Unfragmented
  BY DEF Remains, Unfragmented
<1>3. Msg(k) <= Msg(n)
  BY <1>2 DEF RtcmInv, AloftNewest, Newest
<1>4. NumberOf(Msg(k)) = s /\ NumberOf(Msg(n)) = s
  BY <1>1, <1>2 DEF RtcmInv, Cut
<1>5. Msg(k) \notin 1..Msg(n) - 1
  BY <1>2, <1>4 DEF LeftBehind
<1> QED BY <1>1, <1>1a, <1>3, <1>5

\* A buffer that fragment n completes holds it, and nothing but its message unless that
\* follows one that left fragments behind.
LEMMA Completed ==
    ASSUME RtcmInv, NEW n \in Aloft, NEW s \in 0..Slots - 1, gps_rtcm[n].number = s,
           NEW buf, buf = Stored(rtcm_frags[s], gps_rtcm[n]), Assembled(buf)
    PROVE  LET whole == [i \in 1..buf.last |-> buf.frags[i]]
           IN /\ buf.last \in 1..MaxFrags
              /\ gps_rtcm[n].idx \in 1..buf.last /\ buf.frags[gps_rtcm[n].idx] = Msg(n)
              /\ ~LeftBehind(Msg(n)) => whole = WholeOf(Msg(n))
<1> DEFINE f == gps_rtcm[n]
           b == rtcm_frags[s]
           m == Msg(n)
<1>1. /\ n \in Packets /\ f \in GpsRtcm
      /\ f.idx \in 1..FragsSent(corrections[m]) /\ (f.short <=> f.idx > corrections[m].full)
      /\ m \in DOMAIN corrections
  BY PacketTypes DEF RtcmInv, Cut, Size
<1>2. f.idx \in 1..MaxFrags
  <2>1. FragsSent(corrections[m]) \in 1..MaxFrags
    BY <1>1, Sizes, SizeOf DEF RtcmInv
  <2>2. MaxFrags \in Nat
    BY CorrectionsAssumption
  <2> QED BY <1>1, <2>1, <2>2
<1>3. b \in [frags : Frags, last : {Unknown} \cup (1..MaxFrags)]
  BY DEF RtcmInv, RtcmTypeOK
<1>4. /\ buf.frags = [i \in DOMAIN b.frags \cup {f.idx} |-> IF i = f.idx THEN m ELSE b.frags[i]]
      /\ buf.last = IF f.short THEN f.idx ELSE b.last
      /\ buf.last # Unknown /\ 1..buf.last \subseteq DOMAIN buf.frags
  BY DEF Stored, Assembled, Msg
<1>5. ~Assembled(b)
  BY DEF RtcmInv, Buffered
<1> HIDE DEF f, b
<1>6. buf.last \in 1..MaxFrags
  BY <1>2, <1>3, <1>4
<1>7. f.idx \in 1..buf.last
  <2>1. CASE f.short
    BY <1>2, <1>4, <2>1
  <2>2. CASE ~f.short
    <3>1. buf.last = b.last
      BY <1>4, <2>2
    <3> SUFFICES ASSUME f.idx \notin 1..b.last PROVE FALSE
      BY <3>1
    <3>2. 1..b.last \subseteq DOMAIN b.frags
      BY <1>4, <3>1
    <3> QED BY <1>4, <1>5, <3>1, <3>2 DEF Assembled
  <2> QED BY <2>1, <2>2
<1>8. buf.frags[f.idx] = m
  BY <1>4
<1>9. ASSUME ~LeftBehind(m)
      PROVE  [i \in 1..buf.last |-> buf.frags[i]] = WholeOf(m)
  <2>1. \A i \in 1..buf.last : buf.frags[i] = m
    <3> SUFFICES ASSUME NEW i \in 1..buf.last, i # f.idx PROVE buf.frags[i] = m
      BY <1>8
    <3>1. i \in DOMAIN b.frags /\ buf.frags[i] = b.frags[i]
      BY <1>4
    <3>2. PICK k \in Packets : Remains(s, k) /\ Msg(k) = b.frags[i]
      BY <3>1 DEF RtcmInv, Buffered, b
    <3> QED BY <1>9, <3>1, <3>2, RemainsAreLeftBehind
  <2>2. buf.last = Chunks(corrections[m])
    <3>1. CASE f.short
      BY <1>1, <1>4, <3>1, Sizes, SizeOf DEF RtcmInv
    <3>2. CASE ~f.short
      <4>1. PICK k \in Packets : Remains(s, k) /\ gps_rtcm[k].idx = b.last /\ gps_rtcm[k].short
        BY <1>4, <3>2 DEF RtcmInv, Buffered, b
      <4>2. Msg(k) = m
        BY <1>9, <4>1, RemainsAreLeftBehind
      <4>3. gps_rtcm[k].idx \in 1..FragsSent(corrections[m]) /\ gps_rtcm[k].idx > corrections[m].full
        BY <4>1, <4>2 DEF RtcmInv, Cut, Size
      <4>4. gps_rtcm[k].idx = Chunks(corrections[m])
        BY <1>1, <4>3, Sizes, SizeOf DEF RtcmInv
      <4> QED BY <1>4, <3>2, <4>1, <4>4
    <3> QED BY <3>1, <3>2
  <2> QED BY <2>1, <2>2 DEF WholeOf
<1> QED BY <1>6, <1>7, <1>8, <1>9 DEF f
(***************************************************************************)
(* Steps that leave no packet.                                             *)
(***************************************************************************)
LEMMA SameTraffic ==
    ASSUME UNCHANGED <<seqs, corrections, gps_rtcm>>
    PROVE  /\ Packets' = Packets
           /\ \A k : Msg(k)' = Msg(k) /\ Size(k)' = Size(k) /\ (Newest(k)' <=> Newest(k))
           /\ \A m : /\ FragsOf(m)' = FragsOf(m) /\ NumberOf(m)' = NumberOf(m)
                     /\ WholeOf(m)' = WholeOf(m)
<1>1. Packets' = Packets /\ \A k : Msg(k)' = Msg(k) /\ Size(k)' = Size(k)
  BY DEF Packets, Msg, Size
<1>2. \A k : Newest(k)' <=> Newest(k)
  BY <1>1 DEF Newest
<1>3. \A m : FragsOf(m)' = FragsOf(m)
  BY DEF FragsOf, Packets
<1>4. \A m : NumberOf(m)' = NumberOf(m)
  BY <1>3 DEF NumberOf
<1>5. \A m : WholeOf(m)' = WholeOf(m)
  BY DEF WholeOf
<1> QED BY <1>1, <1>2, <1>3, <1>4, <1>5

\* Packets are lost, or dropped as duplicates.
LEMMA LosingKeeps ==
    ASSUME RtcmInv, DedupInv', Aloft' \subseteq Aloft,
           UNCHANGED <<seqs, corrections, gps_rtcm, handled, rtcm_frags, injected>>,
           rtcm_seq' \in Nat, Numbered'
    PROVE  RtcmInv'
<1>1. /\ Packets' = Packets
      /\ \A k : Msg(k)' = Msg(k) /\ Size(k)' = Size(k) /\ (Newest(k)' <=> Newest(k))
      /\ \A m : /\ FragsOf(m)' = FragsOf(m) /\ NumberOf(m)' = NumberOf(m)
                /\ WholeOf(m)' = WholeOf(m)
  BY SameTraffic
<1>2. \A m : Injected(m)' <=> Injected(m)
  BY <1>1 DEF Injected
<1>3. \A m : LeftBehind(m)' <=> LeftBehind(m)
  BY <1>1, <1>2 DEF LeftBehind, Unfragmented
<1>4. RtcmTypeOK'
  BY DEF RtcmInv, RtcmTypeOK, Unknown
<1>5. Cut'
  BY <1>1 DEF RtcmInv, Cut, Unfragmented
<1>6. AloftNewest'
  BY <1>1 DEF RtcmInv, AloftNewest, Unfragmented
<1>7. Buffered'
  BY <1>1, <1>2 DEF RtcmInv, Buffered, Remains, Assembled, Unknown
<1>8. InjectedHandled' /\ KeptInBuffer'
  BY <1>1, <1>2, <1>3 DEF RtcmInv, InjectedHandled, KeptInBuffer, Waits, Unfragmented
<1>9. CorrectionsWhole'
  BY <1>1, <1>3 DEF RtcmInv, CorrectionsWhole
<1>10. CorrectionsArrive'
  BY <1>1, <1>2, <1>3 DEF RtcmInv, CorrectionsArrive
<1> QED BY <1>4, <1>5, <1>6, <1>7, <1>8, <1>9, <1>10 DEF RtcmInv

\* Of what is injected with a fragment of a message in it, only this message can become
\* complete; and no message that came before it under its number any more.
LEMMA Injecting ==
    ASSUME RtcmInv, NEW n \in Aloft, UNCHANGED <<seqs, corrections, gps_rtcm>>,
           NEW x \in Seq(Nat), NEW i \in DOMAIN x, x[i] = Msg(n),
           injected' = Append(injected, x)
    PROVE  /\ \A l \in DOMAIN corrections :
                  Injected(l)' <=> Injected(l) \/ (l = Msg(n) /\ x = WholeOf(l))
           /\ \A l \in DOMAIN corrections : LeftBehind(l)' <=> LeftBehind(l)
<1>1. /\ \A l : NumberOf(l)' = NumberOf(l) /\ WholeOf(l)' = WholeOf(l)
  BY SameTraffic
<1>2. /\ injected \in Seq(Seq(Nat)) /\ Len(injected) \in Nat
      /\ DOMAIN injected = 1..Len(injected) /\ DOMAIN injected' = 1..Len(injected) + 1
      /\ \A k \in 1..Len(injected) : injected'[k] = injected[k]
      /\ injected'[Len(injected) + 1] = x
  BY DEF RtcmInv, RtcmTypeOK
<1>3. \A l \in DOMAIN corrections : Injected(l)' <=> Injected(l) \/ x = WholeOf(l)
  <2> SUFFICES ASSUME NEW l \in DOMAIN corrections
               PROVE  Injected(l)' <=> Injected(l) \/ x = WholeOf(l)
    OBVIOUS
  <2>1. Injected(l)' <=> \E k \in 1..Len(injected) + 1 : injected'[k] = WholeOf(l)
    BY <1>1, <1>2 DEF Injected
  <2>2. Injected(l) <=> \E k \in 1..Len(injected) : injected[k] = WholeOf(l)
    BY <1>2 DEF Injected
  <2> HIDE DEF Injected
  <2>3. \A k \in 1..Len(injected) + 1 : k \in 1..Len(injected) \/ k = Len(injected) + 1
    BY <1>2
  <2>4. Len(injected) + 1 \in 1..Len(injected) + 1
        /\ 1..Len(injected) \subseteq 1..Len(injected) + 1
    BY <1>2
  <2> QED BY <1>2, <2>1, <2>2, <2>3, <2>4
<1>4. \A l \in DOMAIN corrections : x = WholeOf(l) => l = Msg(n)
  BY DEF WholeOf
<1>5. \A l \in DOMAIN corrections : LeftBehind(l)' <=> LeftBehind(l)
  <2> SUFFICES ASSUME NEW l \in DOMAIN corrections PROVE LeftBehind(l)' <=> LeftBehind(l)
    OBVIOUS
  <2>1. l \in Nat /\ \A j \in 1..l - 1 : j \in DOMAIN corrections
    BY LenProperties DEF RtcmInv, RtcmTypeOK
  <2>2. ASSUME NEW j \in 1..l - 1, NumberOf(l) # Unfragmented, NumberOf(j) = NumberOf(l)
        PROVE  Injected(j)' <=> Injected(j)
    <3> SUFFICES ASSUME j = Msg(n) PROVE FALSE
      BY <1>3, <1>4, <2>1
    <3>1. n \in Packets
      BY PacketTypes
    <3>2. gps_rtcm[n].number = NumberOf(l)
      BY <2>2, <3>1 DEF RtcmInv, Cut
    <3>3. FragsSent(corrections[l]) \in 1..MaxFrags
      BY Sizes, SizeOf DEF RtcmInv
    <3>4. 1 \in 1..FragsSent(corrections[l])
      BY <3>3, CorrectionsAssumption
    <3>5. PICK k \in Packets : Msg(k) = l
      BY <3>4 DEF RtcmInv, Cut
    <3>6. gps_rtcm[k].number = NumberOf(l)
      BY <3>5 DEF RtcmInv, Cut
    <3>7. l <= Msg(n)
      BY <2>2, <3>2, <3>5, <3>6 DEF RtcmInv, AloftNewest, Newest
    <3> QED BY <2>1, <3>7
  <2> QED BY <1>1, <2>2 DEF LeftBehind, Unfragmented
<1> QED BY <1>3, <1>4, <1>5

\* Fragments of another message come to nothing for a message.
LEMMA OthersArrive ==
    ASSUME RtcmInv, NEW n \in Aloft, UNCHANGED <<seqs, corrections, gps_rtcm>>,
           \A k \in Packets : k # n => handled'[k] = handled[k],
           \A l \in DOMAIN corrections : /\ Injected(l) => Injected(l)'
                                         /\ LeftBehind(l)' <=> LeftBehind(l),
           \A l \in DOMAIN corrections :
              /\ l = Msg(n)
              /\ \A k \in FragsOf(l) : handled'[k] > 0
              /\ Chunks(corrections[l]) > 1 => corrections[l].rest /\ Fits(corrections[l])
              /\ ~LeftBehind(l)
              => Injected(l)'
    PROVE  CorrectionsArrive'
<1> SUFFICES ASSUME NEW l \in DOMAIN corrections,
                    \A k \in FragsOf(l) : handled'[k] > 0,
                    Chunks(corrections[l]) > 1 => corrections[l].rest /\ Fits(corrections[l]),
                    ~LeftBehind(l)
             PROVE  Injected(l)'
  <2>1. \A m : FragsOf(m)' = FragsOf(m)
    BY SameTraffic
  <2> QED BY <2>1 DEF CorrectionsArrive
<1>1. CASE l = Msg(n)
  BY <1>1
<1>2. CASE l # Msg(n)
  <2>1. \A k \in FragsOf(l) : k \in Packets /\ k # n
    BY <1>2 DEF FragsOf, Msg
  <2>2. \A k \in FragsOf(l) : handled[k] > 0
    BY <2>1
  <2>3. Injected(l)
    BY <2>2 DEF RtcmInv, CorrectionsArrive
  <2> QED BY <2>3
<1> QED BY <1>1, <1>2
(***************************************************************************)
(* A fragment is handled.                                                  *)
(***************************************************************************)
LEMMA StoredType ==
    ASSUME RtcmInv, NEW n \in Packets, NEW s \in 0..Slots - 1
    PROVE  Stored(rtcm_frags[s], gps_rtcm[n])
              \in [frags : Frags, last : {Unknown} \cup (1..MaxFrags)]
<1> DEFINE f == gps_rtcm[n]
           b == rtcm_frags[s]
           D == DOMAIN b.frags \cup {f.idx}
           g == [i \in D |-> IF i = f.idx THEN f.msg ELSE b.frags[i]]
<1>1. f \in GpsRtcm /\ f.msg \in Nat
  BY PacketTypes DEF GpsRtcm
<1>2. f.idx \in 1..MaxFrags
  <2>1. f.idx \in 1..FragsSent(Size(n)) /\ Msg(n) \in DOMAIN corrections
    BY DEF RtcmInv, Cut
  <2>2. FragsSent(Size(n)) \in 1..MaxFrags
    BY <2>1, Sizes, SizeOf DEF RtcmInv, Size
  <2> QED BY <2>1, <2>2, CorrectionsAssumption
<1>3. b.frags \in Frags /\ b.last \in {Unknown} \cup (1..MaxFrags)
  BY DEF RtcmInv, RtcmTypeOK
<1>4. PICK E \in SUBSET (1..MaxFrags) : b.frags \in [E -> Nat]
  BY <1>3 DEF Frags
<1>5. D \in SUBSET (1..MaxFrags) /\ g \in [D -> Nat]
  BY <1>1, <1>2, <1>4
<1> HIDE DEF D, g, b, f
<1>6. g \in Frags
  BY <1>5 DEF Frags
<1>7. Stored(b, f) = [frags |-> g, last |-> IF f.short THEN f.idx ELSE b.last]
  BY DEF Stored, g, D
<1> QED BY <1>2, <1>3, <1>6, <1>7 DEF f, b

\* What the arrival of a packet does to those who have nothing to do with it.
LEMMA ArrivalKeeps ==
    ASSUME RtcmInv, DedupInv', NEW n \in Aloft, Aloft' \subseteq Aloft,
           UNCHANGED <<seqs, corrections, gps_rtcm, rtcm_seq>>
    PROVE  Cut' /\ Numbered' /\ AloftNewest'
<1>1. /\ Packets' = Packets
      /\ \A k : Msg(k)' = Msg(k) /\ Size(k)' = Size(k) /\ (Newest(k)' <=> Newest(k))
      /\ \A m : NumberOf(m)' = NumberOf(m)
  BY SameTraffic
<1>2. Cut'
  BY <1>1 DEF RtcmInv, Cut, Unfragmented
<1>3. Numbered'
  BY DEF RtcmInv, Numbered, Unfragmented
<1>4. AloftNewest'
  BY <1>1 DEF RtcmInv, AloftNewest, Unfragmented
<1> QED BY <1>2, <1>3, <1>4

LEMMA UnfragmentedKeeps ==
    ASSUME RtcmInv, NEW c \in Copies, NEW n \in Packets, CheckPacket(c, n), New(n), DedupInv',
           gps_rtcm[n].number = Unfragmented, injected' = Append(injected, <<Msg(n)>>),
           UNCHANGED <<corrections, gps_rtcm, rtcm_seq, rtcm_frags>>
    PROVE  RtcmInv'
<1> DEFINE m == Msg(n)
           x == <<m>>
<1>1. /\ n \in Aloft /\ Aloft' \subseteq Aloft /\ UNCHANGED seqs
      /\ handled[n] = 0 /\ handled'[n] = 1
      /\ \A k \in Packets : k # n => handled'[k] = handled[k]
  BY Checked, PacketTypes DEF RtcmInv
<1>2. /\ Packets' = Packets
      /\ \A k : Msg(k)' = Msg(k) /\ (Newest(k)' <=> Newest(k))
      /\ \A l : WholeOf(l)' = WholeOf(l)
  BY <1>1, SameTraffic
<1>3. /\ m \in DOMAIN corrections /\ m \in Nat /\ Chunks(corrections[m]) = 1
      /\ FragsSent(corrections[m]) = 1
  <2>1. m \in DOMAIN corrections /\ Chunks(corrections[m]) = 1
    BY DEF RtcmInv, Cut, Size, Unfragmented
  <2> QED BY <2>1, Sizes, SizeOf DEF RtcmInv
<1>4. x \in Seq(Nat) /\ 1 \in DOMAIN x /\ x[1] = m /\ x = WholeOf(m)
  BY <1>3 DEF WholeOf
<1> HIDE DEF x
<1>5. /\ \A l \in DOMAIN corrections : Injected(l)' <=> Injected(l) \/ l = m
      /\ \A l \in DOMAIN corrections : LeftBehind(l)' <=> LeftBehind(l)
  BY <1>1, <1>4, Injecting DEF x
<1>6. RtcmTypeOK'
  <2>1. injected' \in Seq(Seq(Nat))
    BY <1>4 DEF RtcmInv, RtcmTypeOK, x
  <2> QED BY <1>1, <2>1 DEF RtcmInv, RtcmTypeOK, Unknown
<1>7. Cut' /\ Numbered' /\ AloftNewest'
  BY <1>1, ArrivalKeeps
<1>8. \A k \in Packets : Msg(k) = m => k = n
  <2> SUFFICES ASSUME NEW k \in Packets, Msg(k) = m PROVE k = n
    OBVIOUS
  <2>1. gps_rtcm[k].idx \in 1..1 /\ gps_rtcm[n].idx \in 1..1
    BY <1>3 DEF RtcmInv, Cut, Size
  <2>2. gps_rtcm[k].idx = gps_rtcm[n].idx
    BY <2>1
  <2> QED BY <2>2 DEF RtcmInv, Cut
<1>9. \A k \in Packets : Msg(k) \in DOMAIN corrections
  BY PacketTypes
<1>10. \A s \in 0..Slots - 1, k \in Packets : Remains(s, k) => Remains(s, k)'
  <2> SUFFICES ASSUME NEW s \in 0..Slots - 1, NEW k \in Packets, Remains(s, k)
               PROVE  Remains(s, k)'
    OBVIOUS
  <2>1. k # n
    BY CorrectionsAssumption DEF Remains, Unfragmented
  <2>2. Msg(k) # m
    BY <1>8, <2>1
  <2> QED BY <1>1, <1>2, <1>5, <1>9, <2>1, <2>2 DEF Remains
<1>11. Buffered'
  BY <1>2, <1>10 DEF RtcmInv, Buffered, Assembled, Unknown
<1>12. InjectedHandled'
  BY <1>1, <1>2, <1>5, <1>8, <1>9 DEF RtcmInv, InjectedHandled
<1>13. KeptInBuffer'
  <2>1. \A k \in Packets : gps_rtcm[k].number # Unfragmented => (Waits(k)' => Waits(k))
    BY <1>1, <1>2, <1>5, <1>9 DEF Waits
  <2> QED BY <1>2, <2>1 DEF RtcmInv, KeptInBuffer, Unfragmented
<1>14. CorrectionsWhole'
  <2>1. \A k \in DOMAIN injected' :
           \/ k \in DOMAIN injected /\ injected'[k] = injected[k]
           \/ injected'[k] = x
    BY DEF RtcmInv, RtcmTypeOK, x
  <2> QED BY <1>2, <1>3, <1>4, <1>5, <2>1 DEF RtcmInv, CorrectionsWhole
<1>15. CorrectionsArrive'
  <2>1. \A l \in DOMAIN corrections : /\ Injected(l) => Injected(l)'
                                      /\ LeftBehind(l)' <=> LeftBehind(l)
                                      /\ l = Msg(n) => Injected(l)'
    BY <1>5
  <2> QED BY <1>1, <2>1, OthersArrive
<1> QED BY <1>6, <1>7, <1>11, <1>12, <1>13, <1>14, <1>15 DEF RtcmInv

LEMMA IncompleteKeeps ==
    ASSUME RtcmInv, NEW c \in Copies, NEW n \in Packets, CheckPacket(c, n), New(n), DedupInv',
           NEW s \in 0..Slots - 1, gps_rtcm[n].number = s,
           NEW buf, buf = Stored(rtcm_frags[s], gps_rtcm[n]), ~Assembled(buf),
           rtcm_frags' = [rtcm_frags EXCEPT ![s] = buf],
           UNCHANGED <<corrections, gps_rtcm, rtcm_seq, injected>>
    PROVE  RtcmInv'
<1> DEFINE m == Msg(n)
           f == gps_rtcm[n]
           b == rtcm_frags[s]
<1>1. /\ n \in Aloft /\ Aloft' \subseteq Aloft /\ UNCHANGED seqs
      /\ handled[n] = 0 /\ handled'[n] = 1
      /\ \A k \in Packets : k # n => handled'[k] = handled[k]
  BY Checked, PacketTypes DEF RtcmInv
<1>2. /\ Packets' = Packets
      /\ \A k : Msg(k)' = Msg(k) /\ (Newest(k)' <=> Newest(k))
      /\ \A l : WholeOf(l)' = WholeOf(l) /\ NumberOf(l)' = NumberOf(l) /\ FragsOf(l)' = FragsOf(l)
  BY <1>1, SameTraffic
<1>3. s # Unfragmented /\ Newest(n) /\ m \in DOMAIN corrections
      /\ \A k \in Packets : Msg(k) \in DOMAIN corrections /\ Msg(k) \in Nat
  BY <1>1, PacketTypes, SizeOf DEF RtcmInv, AloftNewest, Unfragmented
<1>4. \A l : (Injected(l)' <=> Injected(l)) /\ (LeftBehind(l)' <=> LeftBehind(l))
  <2>1. \A l : Injected(l)' <=> Injected(l)
    BY <1>2 DEF Injected
  <2> QED BY <1>2, <2>1 DEF LeftBehind, Unfragmented
<1>5. ~Injected(m)
  BY <1>1 DEF RtcmInv, InjectedHandled
<1>6. /\ buf.frags = [i \in DOMAIN b.frags \cup {f.idx} |-> IF i = f.idx THEN m ELSE b.frags[i]]
      /\ buf.last = IF f.short THEN f.idx ELSE b.last
  BY DEF Stored, Msg
<1>7. rtcm_frags'[s] = buf /\ \A t \in 0..Slots - 1 : t # s => rtcm_frags'[t] = rtcm_frags[t]
  BY DEF RtcmInv, RtcmTypeOK
<1>8. RtcmTypeOK'
  <2>1. rtcm_frags' \in [0..Slots - 1 -> [frags : Frags, last : {Unknown} \cup (1..MaxFrags)]]
    BY StoredType DEF RtcmInv, RtcmTypeOK
  <2> QED BY <1>1, <2>1 DEF RtcmInv, RtcmTypeOK, Unknown
<1>9. Cut' /\ Numbered' /\ AloftNewest'
  BY <1>1, ArrivalKeeps
<1>10. /\ Remains(s, n)'
       /\ \A t \in 0..Slots - 1, k \in Packets : Remains(t, k) => Remains(t, k)'
  BY <1>1, <1>2, <1>4, <1>5 DEF Remains
<1>11. Buffered'
  <2> SUFFICES ASSUME NEW t \in 0..Slots - 1
               PROVE  /\ ~Assembled(rtcm_frags'[t])
                      /\ \A i \in DOMAIN rtcm_frags'[t].frags :
                            \E k \in Packets : /\ Remains(t, k)'
                                               /\ Msg(k) = rtcm_frags'[t].frags[i]
                                               /\ gps_rtcm[k].idx = i
                      /\ rtcm_frags'[t].last # Unknown =>
                            \E k \in Packets : /\ Remains(t, k)'
                                               /\ gps_rtcm[k].idx = rtcm_frags'[t].last
                                               /\ gps_rtcm[k].short
    BY <1>2 DEF Buffered, Assembled, Unknown
  <2>1. CASE t # s
    BY <1>7, <1>10, <2>1 DEF RtcmInv, Buffered
  <2>2. CASE t = s
    <3>1. ASSUME NEW i \in DOMAIN buf.frags
          PROVE  \E k \in Packets : Remains(s, k)' /\ Msg(k) = buf.frags[i] /\ gps_rtcm[k].idx = i
      <4>1. CASE i = f.idx
        BY <1>6, <1>10, <4>1
      <4>2. CASE i # f.idx
        <5>1. i \in DOMAIN b.frags /\ buf.frags[i] = b.frags[i]
          BY <1>6, <4>2
        <5>2. PICK k \in Packets : Remains(s, k) /\ Msg(k) = b.frags[i] /\ gps_rtcm[k].idx = i
          BY <5>1 DEF RtcmInv, Buffered
        <5> QED BY <1>10, <5>1, <5>2
      <4> QED BY <4>1, <4>2
    <3>2. ASSUME buf.last # Unknown
          PROVE  \E k \in Packets : Remains(s, k)' /\ gps_rtcm[k].idx = buf.last /\ gps_rtcm[k].short
      <4>1. CASE f.short
        BY <1>6, <1>10, <4>1
      <4>2. CASE ~f.short
        <5>1. PICK k \in Packets : Remains(s, k) /\ gps_rtcm[k].idx = b.last /\ gps_rtcm[k].short
          BY <1>6, <3>2, <4>2 DEF RtcmInv, Buffered
        <5> QED BY <1>6, <1>10, <4>2, <5>1
      <4> QED BY <4>1, <4>2
    <3> QED BY <1>7, <2>2, <3>1, <3>2
  <2> QED BY <2>1, <2>2
<1>12. InjectedHandled'
  BY <1>1, <1>2, <1>4 DEF RtcmInv, InjectedHandled
<1>13. ASSUME NEW k \in Packets, gps_rtcm[k].number = s, Newest(k) PROVE Msg(k) = m
  BY <1>3, <1>13 DEF Newest
<1>14. ASSUME NEW k \in Packets, Waits(k)', gps_rtcm[k].number # Unfragmented
       PROVE  LET bk == rtcm_frags'[gps_rtcm[k].number]
              IN /\ gps_rtcm[k].idx \in DOMAIN bk.frags
                 /\ bk.frags[gps_rtcm[k].idx] = Msg(k)
                 /\ gps_rtcm[k].short => bk.last = gps_rtcm[k].idx
  <2>1. k # n => Waits(k)
    BY <1>1, <1>2, <1>4, <1>14 DEF Waits
  <2>2. gps_rtcm[k].number \in 0..Slots - 1
    BY <1>14 DEF RtcmInv, Cut
  <2>3. CASE gps_rtcm[k].number # s
    BY <1>7, <1>14, <2>1, <2>2, <2>3 DEF RtcmInv, KeptInBuffer
  <2>4. CASE k = n
    BY <1>6, <1>7, <2>4
  <2>5. CASE gps_rtcm[k].number = s /\ k # n
    <3>1. Msg(k) = m
      BY <1>2, <1>13, <1>14, <2>5 DEF Waits
    <3>2. gps_rtcm[k].idx # f.idx
      BY <2>5, <3>1 DEF RtcmInv, Cut
    <3>3. /\ gps_rtcm[k].idx \in DOMAIN b.frags /\ b.frags[gps_rtcm[k].idx] = Msg(k)
          /\ gps_rtcm[k].short => b.last = gps_rtcm[k].idx
      BY <1>14, <2>1, <2>5 DEF RtcmInv, KeptInBuffer
    <3>4. ~(gps_rtcm[k].short /\ f.short)
      <4> SUFFICES ASSUME gps_rtcm[k].short, f.short PROVE FALSE
        OBVIOUS
      <4>1. /\ gps_rtcm[k].idx \in 1..FragsSent(corrections[m])
            /\ gps_rtcm[k].idx > corrections[m].full
            /\ f.idx \in 1..FragsSent(corrections[m]) /\ f.idx > corrections[m].full
        BY <3>1 DEF RtcmInv, Cut, Size
      <4>2. gps_rtcm[k].idx = Chunks(corrections[m]) /\ f.idx = Chunks(corrections[m])
        BY <1>3, <4>1, Sizes, SizeOf DEF RtcmInv
      <4> QED BY <3>2, <4>2
    <3> QED BY <1>6, <1>7, <2>5, <3>2, <3>3, <3>4
  <2> QED BY <2>3, <2>4, <2>5
<1>15. KeptInBuffer'
  BY <1>2, <1>14 DEF KeptInBuffer, Unfragmented
<1>16. CorrectionsWhole'
  BY <1>2, <1>4 DEF RtcmInv, CorrectionsWhole
<1>17. ASSUME \A k \in FragsOf(m) : handled'[k] > 0,
              Chunks(corrections[m]) > 1 => corrections[m].rest /\ Fits(corrections[m]),
              ~LeftBehind(m), ~Injected(m)
       PROVE  FALSE
  <2> DEFINE size == corrections[m]
  <2>1. Chunks(size) > 1
    BY <1>3 DEF RtcmInv, Cut, Size
  <2>2. size.rest /\ FragsSent(size) = Chunks(size) /\ Chunks(size) \in Nat /\ Fits(size)
    BY <1>3, <1>17, <2>1, Sizes, SizeOf DEF RtcmInv
  <2> HIDE DEF size
  <2>3. ASSUME NEW i \in 1..Chunks(size)
        PROVE  /\ i \in DOMAIN buf.frags
               /\ i = Chunks(size) => buf.last = i
    <3>1. PICK k \in Packets : Msg(k) = m /\ gps_rtcm[k].idx = i
      BY <1>3, <2>2 DEF RtcmInv, Cut, size
    <3>2. gps_rtcm[k].number = s
      BY <3>1 DEF RtcmInv, Cut
    <3>3. Newest(k)
      BY <1>3, <3>1, <3>2 DEF Newest
    <3>4. handled'[k] > 0
      BY <1>17, <3>1 DEF FragsOf, Msg
    <3>5. Waits(k)'
      BY <1>2, <1>4, <1>17, <3>1, <3>3, <3>4 DEF Waits
    <3>6. /\ gps_rtcm[k].idx \in DOMAIN buf.frags
          /\ gps_rtcm[k].short => buf.last = gps_rtcm[k].idx
      BY <1>3, <1>7, <1>14, <3>2, <3>5
    <3>7. i = Chunks(size) => gps_rtcm[k].short
      <4> SUFFICES ASSUME i = Chunks(size) PROVE gps_rtcm[k].short
        OBVIOUS
      <4>1. i > size.full
        BY <1>3, <2>2, Sizes, SizeOf DEF RtcmInv, size
      <4> QED BY <3>1, <4>1 DEF RtcmInv, Cut, Size, size
    <3> QED BY <3>1, <3>6, <3>7
  <2>4. Chunks(size) \in 1..Chunks(size)
    BY <2>1, <2>2 DEF size
  <2>5. buf.last = Chunks(size) /\ 1..buf.last \subseteq DOMAIN buf.frags /\ buf.last # Unknown
    BY <2>2, <2>3, <2>4 DEF Unknown
  <2> QED BY <2>5 DEF Assembled
<1>18. CorrectionsArrive'
  <2>1. \A l \in DOMAIN corrections :
           /\ l = Msg(n)
           /\ \A k \in FragsOf(l) : handled'[k] > 0
           /\ Chunks(corrections[l]) > 1 => corrections[l].rest /\ Fits(corrections[l])
           /\ ~LeftBehind(l)
           => Injected(l)'
    BY <1>4, <1>17
  <2>2. \A l \in DOMAIN corrections : /\ Injected(l) => Injected(l)'
                                      /\ LeftBehind(l)' <=> LeftBehind(l)
    BY <1>4
  <2> QED BY <1>1, <2>1, <2>2, OthersArrive
<1> QED BY <1>8, <1>9, <1>11, <1>12, <1>15, <1>16, <1>18 DEF RtcmInv
LEMMA CompleteKeeps ==
    ASSUME RtcmInv, NEW c \in Copies, NEW n \in Packets, CheckPacket(c, n), New(n), DedupInv',
           NEW s \in 0..Slots - 1, gps_rtcm[n].number = s,
           NEW buf, buf = Stored(rtcm_frags[s], gps_rtcm[n]), Assembled(buf),
           injected' = Append(injected, [i \in 1..buf.last |-> buf.frags[i]]),
           rtcm_frags' = [rtcm_frags EXCEPT ![s] = EmptyBuf],
           UNCHANGED <<corrections, gps_rtcm, rtcm_seq>>
    PROVE  RtcmInv'
<1> DEFINE m == Msg(n)
           f == gps_rtcm[n]
           b == rtcm_frags[s]
           x == [i \in 1..buf.last |-> buf.frags[i]]
<1>1. /\ n \in Aloft /\ Aloft' \subseteq Aloft /\ UNCHANGED seqs
      /\ handled[n] = 0 /\ handled'[n] = 1
      /\ \A k \in Packets : k # n => handled'[k] = handled[k]
  BY Checked, PacketTypes DEF RtcmInv
<1>2. /\ Packets' = Packets
      /\ \A k : Msg(k)' = Msg(k) /\ (Newest(k)' <=> Newest(k))
      /\ \A l : WholeOf(l)' = WholeOf(l)
  BY <1>1, SameTraffic
<1>3. /\ s # Unfragmented /\ Newest(n) /\ m \in DOMAIN corrections
      /\ \A k \in Packets : Msg(k) \in DOMAIN corrections /\ Msg(k) \in Nat
  BY <1>1, PacketTypes, SizeOf DEF RtcmInv, AloftNewest, Unfragmented
<1>4. /\ buf.last \in 1..MaxFrags /\ f.idx \in 1..buf.last /\ buf.frags[f.idx] = m
      /\ ~LeftBehind(m) => x = WholeOf(m)
  BY <1>1, Completed
<1>5. /\ buf.frags = [i \in DOMAIN b.frags \cup {f.idx} |-> IF i = f.idx THEN m ELSE b.frags[i]]
      /\ 1..buf.last \subseteq DOMAIN buf.frags
  BY DEF Stored, Msg, Assembled
<1>6. x \in Seq(Nat) /\ DOMAIN x = 1..buf.last /\ f.idx \in DOMAIN x /\ x[f.idx] = m
  <2>1. buf.last \in Nat
    BY <1>4, CorrectionsAssumption
  <2>0. buf.frags \in Frags
    BY StoredType
  <2>2. PICK E \in SUBSET (1..MaxFrags) : buf.frags \in [E -> Nat]
    BY <2>0 DEF Frags
  <2>3. \A i \in 1..buf.last : buf.frags[i] \in Nat
    BY <1>5, <2>2
  <2> QED BY <1>4, <2>1, <2>3
<1>7. /\ \A l \in DOMAIN corrections : Injected(l)' <=> Injected(l) \/ (l = m /\ x = WholeOf(l))
      /\ \A l \in DOMAIN corrections : LeftBehind(l)' <=> LeftBehind(l)
  <2> HIDE DEF x
  <2>1. injected' = Append(injected, x)
    BY DEF x
  <2> QED BY <1>1, <1>6, <2>1, Injecting
<1>8. rtcm_frags'[s] = EmptyBuf /\ \A t \in 0..Slots - 1 : t # s => rtcm_frags'[t] = rtcm_frags[t]
  BY DEF RtcmInv, RtcmTypeOK
<1>9. \A k \in Packets : Msg(k) = m => gps_rtcm[k].number = s
  BY DEF RtcmInv, Cut
<1> HIDE DEF x
<1>10. RtcmTypeOK'
  <2>1. <<>> \in Frags
    <3>1. <<>> \in [{} -> Nat] /\ {} \in SUBSET (1..MaxFrags)
      OBVIOUS
    <3> QED BY <3>1 DEF Frags
  <2>2. EmptyBuf \in [frags : Frags, last : {Unknown} \cup (1..MaxFrags)]
    BY <2>1 DEF EmptyBuf
  <2>3. rtcm_frags' \in [0..Slots - 1 -> [frags : Frags, last : {Unknown} \cup (1..MaxFrags)]]
    BY <2>2 DEF RtcmInv, RtcmTypeOK
  <2>4. injected' \in Seq(Seq(Nat))
    <3>1. injected' = Append(injected, x)
      BY DEF x
    <3> QED BY <1>6, <3>1 DEF RtcmInv, RtcmTypeOK
  <2> QED BY <1>1, <2>3, <2>4 DEF RtcmInv, RtcmTypeOK, Unknown
<1>11. Cut' /\ Numbered' /\ AloftNewest'
  BY <1>1, ArrivalKeeps
<1>12. \A t \in 0..Slots - 1, k \in Packets : t # s /\ Remains(t, k) => Remains(t, k)'
  BY <1>1, <1>2, <1>3, <1>7, <1>9 DEF Remains
<1>13. Buffered'
  <2> SUFFICES ASSUME NEW t \in 0..Slots - 1
               PROVE  /\ ~Assembled(rtcm_frags'[t])
                      /\ \A i \in DOMAIN rtcm_frags'[t].frags :
                            \E k \in Packets : /\ Remains(t, k)'
                                               /\ Msg(k) = rtcm_frags'[t].frags[i]
                                               /\ gps_rtcm[k].idx = i
                      /\ rtcm_frags'[t].last # Unknown =>
                            \E k \in Packets : /\ Remains(t, k)'
                                               /\ gps_rtcm[k].idx = rtcm_frags'[t].last
                                               /\ gps_rtcm[k].short
    BY <1>2 DEF Buffered, Assembled, Unknown
  <2>1. CASE t # s
    BY <1>8, <1>12, <2>1 DEF RtcmInv, Buffered
  <2>2. CASE t = s
    BY <1>8, <2>2 DEF EmptyBuf, Assembled
  <2> QED BY <2>1, <2>2
<1>14. InjectedHandled'
  <2> SUFFICES ASSUME NEW k \in Packets, Injected(Msg(k))' PROVE handled'[k] > 0
    BY <1>2 DEF InjectedHandled
  <2>1. CASE Injected(Msg(k)) \/ k = n
    BY <1>1, <2>1 DEF RtcmInv, InjectedHandled
  <2>2. CASE ~Injected(Msg(k)) /\ k # n
    <3>0. Injected(Msg(k)) \/ (Msg(k) = m /\ x = WholeOf(Msg(k)))
      <4>1. PICK l \in DOMAIN corrections : l = Msg(k) /\ l = Msg(k)'
        BY <1>2, <1>3
      <4>2. Injected(l)'
        BY <4>1 DEF Injected, WholeOf
      <4> QED BY <1>7, <4>1, <4>2
    <3>1. Msg(k) = m /\ x = WholeOf(m)
      BY <2>2, <3>0
    <3>2. gps_rtcm[k].idx \in 1..FragsSent(corrections[m])
      BY <3>1 DEF RtcmInv, Cut, Size
    <3>3. FragsSent(corrections[m]) <= Chunks(corrections[m])
          /\ FragsSent(corrections[m]) \in Nat /\ Chunks(corrections[m]) \in Nat
      BY <1>3, Sizes, SizeOf, CorrectionsAssumption DEF RtcmInv
    <3>4. gps_rtcm[k].idx \in 1..Chunks(corrections[m])
      BY <3>2, <3>3
    <3>5. gps_rtcm[k].idx \in DOMAIN x /\ x[gps_rtcm[k].idx] = m
      BY <3>1, <3>4 DEF WholeOf
    <3>6. gps_rtcm[k].idx # f.idx
      BY <2>2, <3>1 DEF RtcmInv, Cut
    <3>7. gps_rtcm[k].idx \in DOMAIN b.frags /\ b.frags[gps_rtcm[k].idx] = m
      BY <1>5, <1>6, <3>5, <3>6 DEF x
    <3>8. PICK j \in Packets : Remains(s, j) /\ Msg(j) = m /\ gps_rtcm[j].idx = gps_rtcm[k].idx
      BY <3>7 DEF RtcmInv, Buffered
    <3>9. j = k
      BY <3>1, <3>8 DEF RtcmInv, Cut
    <3> QED BY <1>1, <2>2, <3>8, <3>9 DEF Remains
  <2> QED BY <2>1, <2>2
<1>15. ASSUME NEW k \in Packets, Waits(k)', gps_rtcm[k].number # Unfragmented
       PROVE  LET bk == rtcm_frags'[gps_rtcm[k].number]
              IN /\ gps_rtcm[k].idx \in DOMAIN bk.frags
                 /\ bk.frags[gps_rtcm[k].idx] = Msg(k)
                 /\ gps_rtcm[k].short => bk.last = gps_rtcm[k].idx
  <2>0. PICK l \in DOMAIN corrections : l = Msg(k) /\ l = Msg(k)'
    BY <1>2, <1>3
  <2>1a. ~Injected(l)' /\ ~LeftBehind(l)' /\ Newest(k)' /\ handled'[k] > 0
    <3>1. ~Injected(Msg(k))' /\ ~LeftBehind(Msg(k))' /\ Newest(k)' /\ handled'[k] > 0
      BY <1>15 DEF Waits
    <3>2. ~Injected(l)'
      BY <2>0, <3>1 DEF Injected, WholeOf
    <3>3. ~LeftBehind(l)'
      BY <2>0, <3>1 DEF LeftBehind, NumberOf, FragsOf
    <3> QED BY <3>1, <3>2, <3>3
  <2>1. ~Injected(l)' /\ ~Injected(Msg(k)) /\ ~LeftBehind(Msg(k)) /\ Newest(k)
    BY <1>2, <1>7, <2>0, <2>1a
  <2>2. gps_rtcm[k].number # s
    <3> SUFFICES ASSUME gps_rtcm[k].number = s PROVE FALSE
      OBVIOUS
    <3>1. Msg(k) = m
      BY <1>3, <2>1 DEF Newest
    <3>2. Injected(l)'
      BY <1>4, <1>7, <2>0, <2>1, <3>1
    <3> QED BY <2>1, <3>2
  <2>2a. k # n
    BY <2>2
  <2>3. Waits(k)
    BY <1>1, <2>1, <2>1a, <2>2a DEF Waits
  <2>4. gps_rtcm[k].number \in 0..Slots - 1
    BY <1>15 DEF RtcmInv, Cut
  <2> QED BY <1>8, <1>15, <2>2, <2>3, <2>4 DEF RtcmInv, KeptInBuffer
<1>16. KeptInBuffer'
  BY <1>2, <1>15 DEF KeptInBuffer, Unfragmented
<1>17. CorrectionsWhole'
  <2>1. \A k \in DOMAIN injected' :
           \/ k \in DOMAIN injected /\ injected'[k] = injected[k]
           \/ injected'[k] = x
    BY DEF RtcmInv, RtcmTypeOK, x
  <2> SUFFICES ASSUME NEW k \in DOMAIN injected'
               PROVE  \E l \in DOMAIN corrections :
                         \/ injected'[k] = WholeOf(l)'
                         \/ LeftBehind(l)' /\ \E i \in DOMAIN injected'[k] : injected'[k][i] = l
    BY DEF CorrectionsWhole
  <2>3. CASE k \in DOMAIN injected /\ injected'[k] = injected[k]
    BY <1>2, <1>7, <2>3 DEF RtcmInv, CorrectionsWhole
  <2>4. CASE injected'[k] = x
    <3>1. PICK l \in DOMAIN corrections : l = m
      BY <1>3
    <3>2. WholeOf(l)' = WholeOf(m) /\ (LeftBehind(l)' <=> LeftBehind(m))
      BY <1>2, <1>7, <3>1
    <3> QED BY <1>4, <1>6, <2>4, <3>1, <3>2
  <2> QED BY <2>1, <2>3, <2>4
<1>18. CorrectionsArrive'
  <2>1. \A l \in DOMAIN corrections : l = Msg(n) /\ ~LeftBehind(l) => Injected(l)'
    BY <1>4, <1>7
  <2>2. \A l \in DOMAIN corrections : /\ Injected(l) => Injected(l)'
                                      /\ LeftBehind(l)' <=> LeftBehind(l)
    BY <1>7
  <2> QED BY <1>1, <2>1, <2>2, OthersArrive
<1> QED BY <1>10, <1>11, <1>13, <1>14, <1>16, <1>17, <1>18 DEF RtcmInv

LEMMA ReceiveKeeps ==
    ASSUME RtcmInv, NEW c \in Copies, NEW n \in Packets, ReceiveRtcm(c, n)
    PROVE  RtcmInv'
<1>1. /\ CheckPacket(c, n) /\ UNCHANGED <<corrections, gps_rtcm, rtcm_seq>>
      /\ IF New(n) THEN HandleRtcm(gps_rtcm[n]) ELSE UNCHANGED <<rtcm_frags, injected>>
  BY DEF ReceiveRtcm
<1>2. DedupInv'
  BY <1>1, CheckPacketKeeps DEF RtcmInv
<1>3. CASE ~New(n)
  <2>1. Aloft' \subseteq Aloft /\ UNCHANGED <<seqs, handled>>
    BY <1>1, <1>3, Checked DEF RtcmInv
  <2>2. UNCHANGED <<rtcm_frags, injected>>
    BY <1>1, <1>3
  <2>3. Numbered' /\ rtcm_seq' \in Nat
    BY <1>1, <2>1 DEF RtcmInv, RtcmTypeOK, Numbered, Unfragmented
  <2> QED BY <1>1, <1>2, <2>1, <2>2, <2>3, LosingKeeps
<1>4. CASE New(n) /\ gps_rtcm[n].number = Unfragmented
  <2>1. injected' = Append(injected, <<Msg(n)>>) /\ UNCHANGED rtcm_frags
    BY <1>1, <1>4 DEF HandleRtcm, Msg
  <2> QED BY <1>1, <1>2, <1>4, <2>1, UnfragmentedKeeps
<1>5. CASE New(n) /\ gps_rtcm[n].number # Unfragmented
  <2> DEFINE s == gps_rtcm[n].number
             buf == Stored(rtcm_frags[s], gps_rtcm[n])
  <2>1. s \in 0..Slots - 1
    BY <1>5 DEF RtcmInv, Cut
  <2>2. CASE Assembled(buf)
    <3>1. /\ injected' = Append(injected, [i \in 1..buf.last |-> buf.frags[i]])
          /\ rtcm_frags' = [rtcm_frags EXCEPT ![s] = EmptyBuf]
      BY <1>1, <1>5, <2>2 DEF HandleRtcm, Reset
    <3> HIDE DEF buf
    <3> QED BY <1>1, <1>2, <1>5, <2>1, <2>2, <3>1, CompleteKeeps DEF buf
  <2>3. CASE ~Assembled(buf)
    <3>1. rtcm_frags' = [rtcm_frags EXCEPT ![s] = buf] /\ UNCHANGED injected
      BY <1>1, <1>5, <2>3 DEF HandleRtcm
    <3> HIDE DEF buf
    <3> QED BY <1>1, <1>2, <1>5, <2>1, <2>3, <3>1, IncompleteKeeps DEF buf
  <2> QED BY <2>2, <2>3
<1> QED BY <1>3, <1>4, <1>5

LEMMA RestartGcsKeeps == RtcmInv /\ RestartGcs => RtcmInv'
<1> SUFFICES ASSUME RtcmInv, RestartGcs PROVE RtcmInv'
  OBVIOUS
<1>1. /\ RestartSender /\ rtcm_seq' = 0
      /\ UNCHANGED <<corrections, gps_rtcm, rtcm_frags, injected>>
  BY DEF RestartGcs
<1>2. air' = {} /\ UNCHANGED <<seqs, handled>>
  BY <1>1 DEF RestartSender
<1>3. Aloft' = {}
  BY <1>2 DEF Aloft
<1>4. DedupInv'
  BY <1>1, RestartSenderKeeps DEF RtcmInv
<1>5. Numbered'
  BY <1>3 DEF Numbered
<1> QED BY <1>1, <1>2, <1>3, <1>4, <1>5, LosingKeeps

LEMMA RtcmInitially == RtcmInit => RtcmInv
<1> SUFFICES ASSUME RtcmInit PROVE RtcmInv
  OBVIOUS
<1>1. /\ DedupInit /\ corrections = <<>> /\ gps_rtcm = <<>> /\ rtcm_seq = 0 /\ injected = <<>>
      /\ rtcm_frags = [s \in 0..Slots - 1 |-> EmptyBuf]
  BY DEF RtcmInit
<1>2. DedupInv /\ seqs = <<>> /\ Aloft = {} /\ Packets = {}
  BY <1>1, DedupInitially DEF DedupInit, Aloft, Packets
<1>3. RtcmTypeOK
  <2>1. <<>> \in Frags
    <3>1. <<>> \in [{} -> Nat] /\ {} \in SUBSET (1..MaxFrags)
      OBVIOUS
    <3> QED BY <3>1 DEF Frags
  <2>2. EmptyBuf \in [frags : Frags, last : {Unknown} \cup (1..MaxFrags)]
    BY <2>1 DEF EmptyBuf
  <2> QED BY <1>1, <1>2, <2>2 DEF RtcmTypeOK
<1>4. Cut /\ Numbered /\ AloftNewest /\ InjectedHandled /\ KeptInBuffer
  BY <1>1, <1>2 DEF Cut, Numbered, AloftNewest, InjectedHandled, KeptInBuffer
<1>5. Buffered
  BY <1>1 DEF Buffered, EmptyBuf, Assembled
<1>6. CorrectionsWhole /\ CorrectionsArrive
  BY <1>1 DEF CorrectionsWhole, CorrectionsArrive
<1> QED BY <1>2, <1>3, <1>4, <1>5, <1>6 DEF RtcmInv
(***************************************************************************)
(* A message is sent.                                                      *)
(***************************************************************************)
LEMMA RoundApart ==
    ASSUME NEW q \in Nat, NEW r \in Nat, q < r, q % Slots = r % Slots
    PROVE  r - q >= Slots
<1>1. Slots \in Nat \ {0}
  BY CorrectionsAssumption
<1> DEFINE dq == q \div Slots
           dr == r \div Slots
           rest == q % Slots
<1>2. /\ dq \in Int /\ dr \in Int /\ rest \in 0..Slots - 1
      /\ q = Slots * dq + rest /\ r = Slots * dr + rest
  BY <1>1, Division
<1> HIDE DEF dq, dr, rest
<1> SUFFICES ASSUME r - q < Slots PROVE FALSE
  BY <1>1
<1> DEFINE k == dr - dq
<1>3. k \in Int /\ r - q = Slots * k
  BY <1>1, <1>2
<1> HIDE DEF k
<1>4. -Slots < Slots * k /\ Slots * k < Slots
  BY <1>1, <1>3
<1>5. k = 0
  BY <1>1, <1>3, <1>4, NoMultipleWithin
<1> QED BY <1>1, <1>3, <1>5

\* The packets and the message that are new, and the old ones.
Sent(size, number) ==
    LET m == Len(corrections) + 1
    IN /\ corrections' = Append(corrections, size)
       /\ Len(gps_rtcm') = Len(seqs) + FragsSent(size)
       /\ gps_rtcm' \in Seq(GpsRtcm)
       /\ \A n \in 1..Len(seqs) : gps_rtcm'[n] = gps_rtcm[n]
       /\ \A i \in 1..FragsSent(size) :
             gps_rtcm'[Len(seqs) + i] = [msg |-> m, number |-> number, idx |-> i,
                                         short |-> i > size.full]

LEMMA SendRtcmSends ==
    ASSUME RtcmInv, NEW size \in Corrections, SendRtcm(size)
    PROVE  \E number \in Int :
              /\ SendPackets(FragsSent(size)) /\ Sent(size, number)
              /\ UNCHANGED <<rtcm_frags, injected>>
              /\ \/ number = Unfragmented /\ Chunks(size) = 1 /\ UNCHANGED rtcm_seq
                 \/ /\ number = rtcm_seq % Slots /\ number \in 0..Slots - 1
                    /\ Chunks(size) > 1 /\ rtcm_seq' = rtcm_seq + 1
<1> DEFINE m == Len(corrections) + 1
           k == FragsSent(size)
           L == Len(seqs)
<1>1. /\ size \in Lengths /\ (size.full > 0 \/ size.rest)
  BY CorrectionsAssumption DEF Lengths
<1>2. k \in Nat /\ k >= 1 /\ (Chunks(size) = 1 => k = 1) /\ Chunks(size) \in Nat
  BY <1>1, Sizes, CorrectionsAssumption
<1>3. gps_rtcm \in Seq(GpsRtcm) /\ Len(gps_rtcm) = L /\ L \in Nat /\ m \in Nat /\ rtcm_seq \in Nat
  <2>1. corrections \in Seq(Lengths)
    BY DEF RtcmInv, RtcmTypeOK
  <2> QED BY <2>1, PacketTypes, LenProperties DEF RtcmInv, RtcmTypeOK
<1>4. corrections' = Append(corrections, size) /\ UNCHANGED <<rtcm_frags, injected>>
  BY DEF SendRtcm
<1>5. ASSUME NEW number \in Int, NEW new \in Seq(GpsRtcm), Len(new) = k,
             \A i \in 1..k : new[i] = [msg |-> m, number |-> number, idx |-> i,
                                      short |-> i > size.full],
             gps_rtcm' = gps_rtcm \o new
      PROVE  Sent(size, number)
  <2>1. /\ gps_rtcm' \in Seq(GpsRtcm) /\ Len(gps_rtcm') = L + k
        /\ \A n \in 1..L : gps_rtcm'[n] = gps_rtcm[n]
        /\ \A i \in 1..k : gps_rtcm'[L + i] = new[i]
    <3>0. /\ gps_rtcm \o new \in Seq(GpsRtcm)
          /\ Len(gps_rtcm \o new) = Len(gps_rtcm) + Len(new)
      BY <1>3, <1>5, ConcatProperties
    <3>1. gps_rtcm' \in Seq(GpsRtcm) /\ Len(gps_rtcm') = L + k
      BY <1>3, <1>5, <3>0
    <3>2. /\ \A n \in 1..L : gps_rtcm'[n] = gps_rtcm[n]
          /\ \A i \in 1..k : gps_rtcm'[L + i] = new[i]
      BY <1>2, <1>3, <1>5
    <3> QED BY <3>1, <3>2
  <2> HIDE DEF k, L
  <2> QED BY <1>4, <1>5, <2>1 DEF Sent, k, L
<1>6. CASE Chunks(size) = 1 /\ SendPackets(1) /\ UNCHANGED rtcm_seq
           /\ gps_rtcm' = Append(gps_rtcm, [msg |-> m, number |-> Unfragmented,
                                            idx |-> 1, short |-> size.rest])
  <2> DEFINE p == [msg |-> m, number |-> Unfragmented, idx |-> 1, short |-> size.rest]
  <2>1. size.rest \in BOOLEAN /\ size.full \in Nat /\ Unfragmented \in Int
    BY <1>1 DEF Lengths, Unfragmented
  <2>2. p \in GpsRtcm
    BY <1>3, <2>1 DEF GpsRtcm
  <2>3. size.rest = (1 > size.full)
    <3>1. CASE size.rest
      <4>1. size.full + 1 = 1
        BY <1>6, <3>1 DEF Chunks
      <4>2. 1 > size.full
        BY <2>1, <4>1
      <4> QED BY <2>1, <3>1, <4>2
    <3>2. CASE ~size.rest
      <4>1. size.full + 0 = 1
        BY <1>6, <3>2 DEF Chunks
      <4>2. ~(1 > size.full)
        BY <2>1, <4>1
      <4> QED BY <2>1, <3>2, <4>2
    <3> QED BY <2>1, <3>1, <3>2
  <2>4. p = [msg |-> m, number |-> Unfragmented, idx |-> 1, short |-> 1 > size.full]
    BY <2>3
  <2> HIDE DEF p
  <2>5. gps_rtcm' = gps_rtcm \o <<p>> /\ <<p>> \in Seq(GpsRtcm) /\ Len(<<p>>) = 1
    BY <1>3, <1>6, <2>2 DEF p
  <2>6. k = 1
    BY <1>2, <1>6
  <2>7. \A i \in 1..k : <<p>>[i] = [msg |-> m, number |-> Unfragmented, idx |-> i,
                                   short |-> i > size.full]
    BY <2>4, <2>6
  <2>8. Sent(size, Unfragmented)
    BY <1>5, <2>1, <2>5, <2>6, <2>7
  <2> QED BY <1>4, <1>6, <2>1, <2>6, <2>8
<1>7. CASE Chunks(size) > 1 /\ SendPackets(k) /\ rtcm_seq' = rtcm_seq + 1
           /\ gps_rtcm' = gps_rtcm \o Fragmented(m, size)
  <2> DEFINE number == rtcm_seq % Slots
  <2>1. number \in 0..Slots - 1 /\ number \in Int
    BY <1>3, CorrectionsAssumption
  <2>2. Fragmented(m, size) = [i \in 1..k |-> [msg |-> m, number |-> number, idx |-> i,
                                               short |-> i > size.full]]
    BY DEF Fragmented
  <2> HIDE DEF number
  <2>3. \A i \in 1..k : [msg |-> m, number |-> number, idx |-> i, short |-> i > size.full] \in GpsRtcm
    BY <1>2, <1>3, <2>1 DEF GpsRtcm
  <2>4. /\ Fragmented(m, size) \in Seq(GpsRtcm) /\ Len(Fragmented(m, size)) = k
        /\ \A i \in 1..k : Fragmented(m, size)[i] =
               [msg |-> m, number |-> number, idx |-> i, short |-> i > size.full]
    BY <1>2, <2>2, <2>3
  <2>5. Sent(size, number)
    BY <1>5, <1>7, <2>1, <2>4
  <2> QED BY <1>4, <1>7, <2>1, <2>5 DEF number
<1> QED BY <1>6, <1>7 DEF SendRtcm

LEMMA SendKeeps ==
    ASSUME RtcmInv, NEW size \in Corrections, SendRtcm(size)
    PROVE  RtcmInv'
<1> DEFINE k == FragsSent(size)
<1>1. /\ size \in Lengths /\ (size.full > 0 \/ size.rest)
  BY CorrectionsAssumption DEF Lengths
<1>2. /\ k \in Nat /\ k >= 1 /\ Chunks(size) \in Nat
      /\ Chunks(size) > 1 => k >= 2
  BY <1>1, Sizes, CorrectionsAssumption
<1>3. PICK L \in Nat : L = Len(seqs) /\ Packets = 1..L
  BY PacketTypes
<1>4. PICK m0 \in Nat : /\ corrections \in Seq(Lengths) /\ Len(corrections) \in Nat
                       /\ m0 = Len(corrections) + 1
                       /\ DOMAIN corrections = 1..Len(corrections) /\ rtcm_seq \in Nat
  <2>1. corrections \in Seq(Lengths) /\ rtcm_seq \in Nat
    BY DEF RtcmInv, RtcmTypeOK
  <2>2. Len(corrections) \in Nat /\ DOMAIN corrections = 1..Len(corrections)
    BY <2>1, LenProperties
  <2> QED BY <2>1, <2>2
<1>5. PICK number \in Int :
              /\ SendPackets(FragsSent(size)) /\ Sent(size, number)
              /\ UNCHANGED <<rtcm_frags, injected>>
              /\ \/ number = Unfragmented /\ Chunks(size) = 1 /\ UNCHANGED rtcm_seq
                 \/ /\ number = rtcm_seq % Slots /\ number \in 0..Slots - 1
                    /\ Chunks(size) > 1 /\ rtcm_seq' = rtcm_seq + 1
  BY SendRtcmSends
<1>6. DedupInv'
  BY <1>2, <1>5, SendPacketsKeeps DEF RtcmInv
<1>7. /\ Len(seqs') = L + k /\ Packets' = 1..L + k
      /\ \A n \in 1..L : handled'[n] = handled[n]
      /\ \A i \in 1..k : handled'[L + i] = 0
      /\ \A n \in Aloft' : n \in 1..L + k /\ L + k - n < Lag /\ (n \in 1..L => n \in Aloft)
  <2> DEFINE numbers == [i \in 1..k |-> tx + i - 1]
  <2>1. Transmit(numbers)
    BY <1>5 DEF SendPackets
  <2>2. numbers \in Seq(Nat) /\ Len(numbers) = k
    BY <1>2 DEF RtcmInv, DedupInv, DedupTypeOK
  <2> HIDE DEF numbers, k
  <2>3. /\ seqs' \in Seq(Nat) /\ Len(seqs') = Len(seqs) + Len(numbers)
        /\ \A n \in 1..Len(seqs) : handled'[n] = handled[n]
        /\ \A i \in 1..Len(numbers) : handled'[Len(seqs) + i] = 0
        /\ \A n \in Aloft' : /\ n \in 1..Len(seqs') /\ Len(seqs') - n < Lag
                             /\ n \in 1..Len(seqs) => n \in Aloft
    BY <2>1, <2>2, Transmitted DEF RtcmInv, DedupInv
  <2>4. Packets' = 1..Len(seqs')
    BY <2>3 DEF Packets
  <2> QED BY <1>3, <2>2, <2>3, <2>4
<1>8. /\ corrections' \in Seq(Lengths) /\ DOMAIN corrections' = 1..m0
      /\ \A m \in DOMAIN corrections : corrections'[m] = corrections[m]
      /\ corrections'[m0] = size
  BY <1>1, <1>4, <1>5 DEF Sent
<1>9. /\ Len(gps_rtcm') = L + k /\ gps_rtcm' \in Seq(GpsRtcm)
      /\ \A n \in 1..L : gps_rtcm'[n] = gps_rtcm[n] /\ Msg(n)' = Msg(n)
      /\ \A i \in 1..k : gps_rtcm'[L + i] = [msg |-> m0, number |-> number, idx |-> i,
                                              short |-> i > size.full]
  BY <1>3, <1>4, <1>5 DEF Sent, Msg
<1> HIDE DEF k
<1>10. \A n \in Packets' : \/ n \in 1..L
                           \/ \E i \in 1..k : n = L + i
  <2> SUFFICES ASSUME NEW n \in 1..L + k, n \notin 1..L PROVE \E i \in 1..k : n = L + i
    BY <1>7
  <2>1. n - L \in 1..k /\ n = L + (n - L)
    BY <1>2, <1>3
  <2> QED BY <2>1
<1>11. \A i \in 1..k : /\ L + i \in Packets' /\ L + i \notin 1..L
                       /\ Msg(L + i)' = m0 /\ gps_rtcm'[L + i].number = number
                       /\ gps_rtcm'[L + i].idx = i /\ (gps_rtcm'[L + i].short <=> i > size.full)
  <2> SUFFICES ASSUME NEW i \in 1..k
               PROVE  /\ L + i \in Packets' /\ L + i \notin 1..L
                      /\ Msg(L + i)' = m0 /\ gps_rtcm'[L + i].number = number
                      /\ gps_rtcm'[L + i].idx = i /\ (gps_rtcm'[L + i].short <=> i > size.full)
    OBVIOUS
  <2>1. L + i \in 1..L + k /\ L + i \notin 1..L
    BY <1>2, <1>3
  <2>2. gps_rtcm'[L + i] = [msg |-> m0, number |-> number, idx |-> i, short |-> i > size.full]
    BY <1>9
  <2>3. /\ gps_rtcm'[L + i].msg = m0 /\ gps_rtcm'[L + i].number = number
        /\ gps_rtcm'[L + i].idx = i /\ gps_rtcm'[L + i].short = (i > size.full)
    <3>1. PICK short \in BOOLEAN : short = (i > size.full)
      <4>1. (i > size.full) \in BOOLEAN
        BY <1>1, <1>2 DEF Lengths
      <4> QED BY <4>1
    <3>2. gps_rtcm'[L + i] = [msg |-> m0, number |-> number, idx |-> i, short |-> short]
      BY <2>2, <3>1
    <3> QED BY <3>1, <3>2
  <2> QED BY <1>7, <2>1, <2>3 DEF Msg
<1>12. \A n \in 1..L : n \in Packets' /\ Msg(n) \in DOMAIN corrections /\ Msg(n) # m0
                       /\ Msg(n) \in Nat /\ Msg(n) < m0
  BY <1>2, <1>3, <1>4, <1>7, PacketTypes
<1>13. \A m \in DOMAIN corrections : m # m0 /\ m \in 1..m0 /\ m \in Nat
  BY <1>4
<1>14. \A m \in DOMAIN corrections : FragsOf(m)' = FragsOf(m)
  <2> SUFFICES ASSUME NEW m \in DOMAIN corrections PROVE FragsOf(m)' = FragsOf(m)
    OBVIOUS
  <2>1. FragsOf(m)' = {n \in Packets' : Msg(n)' = m}
    BY DEF FragsOf, Msg
  <2>2. FragsOf(m) = {n \in Packets : Msg(n) = m}
    BY DEF FragsOf, Msg
  <2>3. \A n \in Packets' : Msg(n)' = m => n \in Packets /\ Msg(n) = m
    BY <1>3, <1>9, <1>10, <1>11, <1>13
  <2>4. \A n \in Packets : Msg(n) = m => n \in Packets' /\ Msg(n)' = m
    BY <1>3, <1>9, <1>12
  <2> QED BY <2>1, <2>2, <2>3, <2>4
<1>15. \A m \in DOMAIN corrections : \E n \in FragsOf(m) : TRUE
  <2> SUFFICES ASSUME NEW m \in DOMAIN corrections PROVE \E n \in FragsOf(m) : TRUE
    OBVIOUS
  <2>1. FragsSent(corrections[m]) \in 1..MaxFrags
    BY Sizes, SizeOf DEF RtcmInv
  <2>2. 1 \in 1..FragsSent(corrections[m])
    BY <2>1, CorrectionsAssumption
  <2> QED BY <2>2 DEF RtcmInv, Cut, FragsOf, Msg
<1>16. \A m \in DOMAIN corrections : NumberOf(m)' = NumberOf(m)
  <2> SUFFICES ASSUME NEW m \in DOMAIN corrections PROVE NumberOf(m)' = NumberOf(m)
    OBVIOUS
  <2> DEFINE n == CHOOSE n \in FragsOf(m) : TRUE
  <2>1. n \in FragsOf(m)
    BY <1>15
  <2>2. n \in 1..L
    BY <1>3, <2>1 DEF FragsOf
  <2> HIDE DEF n
  <2>3. NumberOf(m)' = gps_rtcm'[n].number
    BY <1>14 DEF NumberOf, n
  <2>4. NumberOf(m) = gps_rtcm[n].number
    BY DEF NumberOf, n
  <2> QED BY <1>9, <2>2, <2>3, <2>4
<1>17. NumberOf(m0)' = number
  <2>0. PICK S : S = FragsOf(m0)'
    OBVIOUS
  <2> DEFINE n == CHOOSE n \in S : TRUE
  <2>1. 1 \in 1..k
    BY <1>2
  <2>2. L + 1 \in FragsOf(m0)'
    BY <1>11, <2>1 DEF FragsOf, Msg
  <2>3. n \in FragsOf(m0)'
    BY <2>0, <2>2
  <2>4. n \in Packets' /\ Msg(n)' = m0
    BY <2>3 DEF FragsOf, Msg
  <2> HIDE DEF n
  <2>5. gps_rtcm'[n].number = number
    BY <1>9, <1>10, <1>11, <1>12, <2>4
  <2> QED BY <2>0, <2>5 DEF NumberOf, n
<1>18. \A m \in DOMAIN corrections : WholeOf(m)' = WholeOf(m) /\ (Injected(m)' <=> Injected(m))
  <2>1. \A m \in DOMAIN corrections : WholeOf(m)' = WholeOf(m)
    BY <1>8 DEF WholeOf
  <2> QED BY <1>5, <2>1 DEF Injected
<1>19. \A m \in DOMAIN corrections : LeftBehind(m)' <=> LeftBehind(m)
  <2> SUFFICES ASSUME NEW m \in DOMAIN corrections PROVE LeftBehind(m)' <=> LeftBehind(m)
    OBVIOUS
  <2>1. \A l \in 1..m - 1 : l \in DOMAIN corrections
    BY <1>4
  <2> QED BY <1>16, <1>18, <2>1 DEF LeftBehind, Unfragmented
<1>20. \A n \in 1..L : /\ Msg(n)' = Msg(n) /\ Size(n)' = Size(n) /\ gps_rtcm'[n] = gps_rtcm[n]
                       /\ NumberOf(Msg(n))' = NumberOf(Msg(n))
  BY <1>8, <1>9, <1>12, <1>16 DEF Size, Msg
<1>21. \A i \in 1..k : /\ Msg(L + i)' = m0 /\ Size(L + i)' = size
                       /\ NumberOf(Msg(L + i))' = number
  BY <1>8, <1>11, <1>17 DEF Size, Msg
<1>22. RtcmTypeOK'
  <2>1. \A m \in DOMAIN corrections' : corrections'[m].full > 0 \/ corrections'[m].rest
    <3> SUFFICES ASSUME NEW m \in DOMAIN corrections'
                 PROVE  corrections'[m].full > 0 \/ corrections'[m].rest
      OBVIOUS
    <3>1. m = m0 \/ m \in DOMAIN corrections
      BY <1>4, <1>8
    <3> QED BY <1>1, <1>8, <3>1, SizeOf DEF RtcmInv
  <2>2. rtcm_seq' \in Nat
    BY <1>4, <1>5
  <2> QED BY <1>5, <1>7, <1>8, <1>9, <2>1, <2>2 DEF RtcmInv, RtcmTypeOK, Unknown
<1>23. Cut'
  <2>1. ASSUME NEW n \in Packets'
        PROVE  /\ Msg(n)' \in DOMAIN corrections'
               /\ gps_rtcm'[n].idx \in 1..FragsSent(Size(n))'
               /\ gps_rtcm'[n].short <=> gps_rtcm'[n].idx > Size(n).full'
               /\ gps_rtcm'[n].number = NumberOf(Msg(n))'
               /\ \/ gps_rtcm'[n].number = Unfragmented /\ Chunks(Size(n))' = 1
                  \/ gps_rtcm'[n].number \in 0..Slots - 1 /\ Chunks(Size(n))' > 1
    <3>1. CASE n \in 1..L
      <4>1. n \in Packets /\ Msg(n) \in DOMAIN corrections'
        BY <1>3, <1>8, <1>12, <1>13, <3>1
      <4>2. /\ gps_rtcm[n].idx \in 1..FragsSent(Size(n))
            /\ gps_rtcm[n].short <=> gps_rtcm[n].idx > Size(n).full
            /\ gps_rtcm[n].number = NumberOf(Msg(n))
            /\ \/ gps_rtcm[n].number = Unfragmented /\ Chunks(Size(n)) = 1
               \/ gps_rtcm[n].number \in 0..Slots - 1 /\ Chunks(Size(n)) > 1
        BY <4>1 DEF RtcmInv, Cut
      <4> QED BY <1>20, <3>1, <4>1, <4>2
    <3>2. CASE \E i \in 1..k : n = L + i
      <4>1. PICK i \in 1..k : n = L + i
        BY <3>2
      <4>2. m0 \in DOMAIN corrections'
        BY <1>4, <1>8
      <4>3. \/ number = Unfragmented /\ Chunks(size) = 1
            \/ number \in 0..Slots - 1 /\ Chunks(size) > 1
        BY <1>5
      <4> QED BY <1>11, <1>21, <4>1, <4>2, <4>3 DEF k
    <3> QED BY <1>10, <3>1, <3>2
  <2>2. ASSUME NEW m \in DOMAIN corrections', NEW i \in 1..FragsSent(corrections'[m])
        PROVE  \E n \in Packets' : Msg(n)' = m /\ gps_rtcm'[n].idx = i
    <3>1. CASE m = m0
      <4>1. i \in 1..k
        BY <1>8, <2>2, <3>1 DEF k
      <4> QED BY <1>11, <3>1, <4>1
    <3>2. CASE m # m0
      <4>1. m \in DOMAIN corrections
        BY <1>4, <1>8, <3>2
      <4>2. i \in 1..FragsSent(corrections[m])
        BY <1>8, <2>2, <4>1
      <4>3. PICK n \in Packets : Msg(n) = m /\ gps_rtcm[n].idx = i
        BY <4>1, <4>2 DEF RtcmInv, Cut
      <4> QED BY <1>3, <1>12, <1>20, <4>3
    <3> QED BY <3>1, <3>2
  <2>3. ASSUME NEW n \in Packets', NEW j \in Packets', Msg(n)' = Msg(j)',
               gps_rtcm'[n].idx = gps_rtcm'[j].idx
        PROVE  n = j
    <3>1. CASE n \in 1..L /\ j \in 1..L
      BY <1>3, <1>20, <2>3, <3>1 DEF RtcmInv, Cut
    <3>2. CASE n \notin 1..L /\ j \notin 1..L
      BY <1>10, <1>11, <2>3, <3>2
    <3>3. CASE n \in 1..L /\ j \notin 1..L
      <4>1. Msg(j)' = m0
        BY <1>10, <1>11, <3>3
      <4> QED BY <1>12, <1>20, <2>3, <3>3, <4>1
    <3>4. CASE n \notin 1..L /\ j \in 1..L
      BY <1>10, <1>11, <1>12, <1>20, <2>3, <3>4
    <3> QED BY <3>1, <3>2, <3>3, <3>4
  <2>4. Unfragmented' = Unfragmented
    BY DEF Unfragmented
  <2> QED BY <2>1, <2>2, <2>3, <2>4 DEF Cut
<1>24. ASSUME NEW n \in Aloft', gps_rtcm'[n].number # Unfragmented
       PROVE  \E q \in 0..rtcm_seq' - 1 : /\ gps_rtcm'[n].number = q % Slots
                                          /\ L + k - n >= 2 * (rtcm_seq' - q - 1)
                                          /\ n \in 1..L => q < rtcm_seq
  <2>1. n \in 1..L + k
    BY <1>7
  <2>2. CASE n \in 1..L
    <3>1. n \in Aloft /\ gps_rtcm'[n] = gps_rtcm[n]
      BY <1>7, <1>20, <2>2
    <3>2. PICK q \in 0..rtcm_seq - 1 : /\ gps_rtcm[n].number = q % Slots
                                      /\ L - n >= 2 * (rtcm_seq - q - 1)
      BY <1>3, <1>24, <3>1 DEF RtcmInv, Numbered
    <3>3. q \in 0..rtcm_seq' - 1 /\ L + k - n >= 2 * (rtcm_seq' - q - 1) /\ q < rtcm_seq
      BY <1>2, <1>4, <1>5, <2>2, <3>2
    <3> QED BY <3>1, <3>2, <3>3
  <2>3. CASE n \notin 1..L
    <3>1. gps_rtcm'[n].number = number
      BY <1>7, <1>10, <1>11, <2>1, <2>3
    <3>2. number = rtcm_seq % Slots /\ rtcm_seq' = rtcm_seq + 1
      BY <1>5, <1>24, <3>1
    <3>3. rtcm_seq \in 0..rtcm_seq' - 1 /\ L + k - n >= 2 * (rtcm_seq' - rtcm_seq - 1)
      BY <1>2, <1>4, <2>1, <3>2
    <3> QED BY <2>3, <3>1, <3>2, <3>3
  <2> QED BY <2>2, <2>3
<1>25. Numbered'
  <2>2. Len(seqs') = L + k
    BY <1>7
  <2> SUFFICES ASSUME NEW n \in Aloft', gps_rtcm'[n].number # Unfragmented
               PROVE  \E q \in 0..rtcm_seq' - 1 : /\ gps_rtcm'[n].number = q % Slots
                                                  /\ Len(seqs') - n >= 2 * (rtcm_seq' - q - 1)
    BY DEF Numbered, Unfragmented
  <2>3. PICK q \in 0..rtcm_seq' - 1 : /\ gps_rtcm'[n].number = q % Slots
                                      /\ L + k - n >= 2 * (rtcm_seq' - q - 1)
    BY <1>24
  <2>4. n \in Int /\ rtcm_seq' \in Int /\ k \in Int /\ q \in Int
    BY <1>2, <1>3, <1>4, <1>5, <1>7
  <2>5. Len(seqs') - n = L + k - n
    BY <1>3, <2>2, <2>4
  <2> QED BY <2>3, <2>4, <2>5
<1>26. ASSUME NEW n \in Aloft', gps_rtcm'[n].number # Unfragmented,
              NEW j \in Packets', gps_rtcm'[j].number = gps_rtcm'[n].number
       PROVE  Msg(j)' <= Msg(n)'
  <2>1. n \in Packets' /\ L + k - n < Lag /\ (n \in 1..L => n \in Aloft)
    BY <1>7
  <2>2. CASE n \notin 1..L
    BY <1>10, <1>11, <1>12, <1>20, <2>1, <2>2
  <2>3. CASE n \in 1..L /\ j \in 1..L
    BY <1>3, <1>20, <1>26, <2>1, <2>3 DEF RtcmInv, AloftNewest, Newest
  <2>4. CASE n \in 1..L /\ j \notin 1..L
    <3>1. gps_rtcm'[n].number = number
      BY <1>10, <1>11, <1>26, <2>4
    <3>2. number = rtcm_seq % Slots /\ rtcm_seq' = rtcm_seq + 1
      BY <1>5, <1>26, <3>1
    <3>3. PICK q \in 0..rtcm_seq' - 1 : /\ number = q % Slots /\ q < rtcm_seq
                                       /\ L + k - n >= 2 * (rtcm_seq' - q - 1)
      BY <1>24, <1>26, <2>4, <3>1
    <3>4. q \in Nat /\ rtcm_seq - q >= Slots
      BY <1>4, <3>2, <3>3, RoundApart
    <3>5. L + k - n >= 2 * Slots
      <4>1. Slots \in Nat /\ L + k - n \in Int
        BY <1>2, <1>7, CorrectionsAssumption
      <4> QED BY <1>4, <3>2, <3>3, <3>4, <4>1
    <3>6. Slots \in Nat /\ L + k - n \in Int /\ Lag \in Nat /\ Lag < 2 * Slots
      BY <1>2, <1>7, CorrectionsAssumption, SlotsAssumption, LagAssumption
    <3> QED BY <2>1, <3>5, <3>6
  <2> QED BY <2>2, <2>3, <2>4
<1>27. AloftNewest'
  BY <1>26 DEF AloftNewest, Newest, Unfragmented
<1>28. \A s \in 0..Slots - 1, j \in Packets : Remains(s, j) => j \in Packets' /\ Remains(s, j)'
  BY <1>3, <1>7, <1>12, <1>18, <1>20 DEF Remains
<1>29. Buffered'
  <2> SUFFICES ASSUME NEW s \in 0..Slots - 1
               PROVE  /\ ~Assembled(rtcm_frags[s])
                      /\ \A i \in DOMAIN rtcm_frags[s].frags :
                            \E j \in Packets' : /\ Remains(s, j)'
                                                /\ Msg(j)' = rtcm_frags[s].frags[i]
                                                /\ gps_rtcm'[j].idx = i
                      /\ rtcm_frags[s].last # Unknown =>
                            \E j \in Packets' : /\ Remains(s, j)'
                                                /\ gps_rtcm'[j].idx = rtcm_frags[s].last
                                                /\ gps_rtcm'[j].short
    BY <1>5 DEF Buffered, Assembled, Unknown
  <2>1. ~Assembled(rtcm_frags[s])
    BY DEF RtcmInv, Buffered
  <2>2. ASSUME NEW i \in DOMAIN rtcm_frags[s].frags
        PROVE  \E j \in Packets' : /\ Remains(s, j)' /\ Msg(j)' = rtcm_frags[s].frags[i]
                                   /\ gps_rtcm'[j].idx = i
    <3>1. PICK j \in Packets : /\ Remains(s, j) /\ Msg(j) = rtcm_frags[s].frags[i]
                              /\ gps_rtcm[j].idx = i
      BY DEF RtcmInv, Buffered
    <3> QED BY <1>3, <1>20, <1>28, <3>1
  <2>3. ASSUME rtcm_frags[s].last # Unknown
        PROVE  \E j \in Packets' : /\ Remains(s, j)' /\ gps_rtcm'[j].idx = rtcm_frags[s].last
                                   /\ gps_rtcm'[j].short
    <3>1. PICK j \in Packets : /\ Remains(s, j) /\ gps_rtcm[j].idx = rtcm_frags[s].last
                              /\ gps_rtcm[j].short
      BY <2>3 DEF RtcmInv, Buffered
    <3> QED BY <1>3, <1>20, <1>28, <3>1
  <2> QED BY <2>1, <2>2, <2>3
<1>30. \A j \in DOMAIN injected : injected[j] # [i \in 1..Chunks(size) |-> m0]
  <2> SUFFICES ASSUME NEW j \in DOMAIN injected, injected[j] = [i \in 1..Chunks(size) |-> m0]
               PROVE  FALSE
    OBVIOUS
  <2>1. PICK m \in DOMAIN corrections : \/ injected[j] = WholeOf(m)
                                       \/ \E i \in DOMAIN injected[j] : injected[j][i] = m
    BY DEF RtcmInv, CorrectionsWhole
  <2>2. m # m0
    BY <1>13
  <2>3. 1 \in 1..Chunks(size) /\ Chunks(corrections[m]) \in Nat
    BY <1>1, <1>2, Sizes, SizeOf DEF RtcmInv
  <2>4. CASE injected[j] = WholeOf(m)
    <3>1. DOMAIN WholeOf(m) = 1..Chunks(size) /\ WholeOf(m)[1] = m0
      BY <2>3, <2>4
    <3>2. 1 \in 1..Chunks(corrections[m])
      BY <2>3, <3>1 DEF WholeOf
    <3> QED BY <2>2, <3>1, <3>2 DEF WholeOf
  <2>5. CASE \E i \in DOMAIN injected[j] : injected[j][i] = m
    BY <2>2, <2>5
  <2> QED BY <2>1, <2>4, <2>5
<1>31. InjectedHandled'
  <2> SUFFICES ASSUME NEW n \in Packets', Injected(Msg(n))' PROVE handled'[n] > 0
    BY DEF InjectedHandled
  <2>1. CASE n \in 1..L
    <3>1. Injected(Msg(n)) /\ n \in Packets
      BY <1>3, <1>12, <1>18, <1>20, <2>1 DEF Injected
    <3> QED BY <1>7, <2>1, <3>1 DEF RtcmInv, InjectedHandled
  <2>2. CASE \E i \in 1..k : n = L + i
    <3>1. Msg(n)' = m0
      BY <1>11, <2>2
    <3>2. WholeOf(Msg(n))' = [i \in 1..Chunks(size) |-> m0]
      BY <1>8, <3>1 DEF WholeOf
    <3> QED BY <1>5, <1>30, <3>2 DEF Injected
  <2> QED BY <1>10, <2>1, <2>2
<1>32. KeptInBuffer'
  <2> SUFFICES ASSUME NEW n \in Packets', Waits(n)', gps_rtcm'[n].number # Unfragmented
               PROVE  LET buf == rtcm_frags[gps_rtcm'[n].number]
                      IN /\ gps_rtcm'[n].idx \in DOMAIN buf.frags
                         /\ buf.frags[gps_rtcm'[n].idx] = Msg(n)'
                         /\ gps_rtcm'[n].short => buf.last = gps_rtcm'[n].idx
    BY <1>5 DEF KeptInBuffer, Unfragmented
  <2>1. n \in 1..L
    BY <1>7, <1>10 DEF Waits
  <2>2. Newest(n)
    <3> SUFFICES ASSUME NEW j \in Packets, gps_rtcm[j].number = gps_rtcm[n].number
                 PROVE  Msg(j) <= Msg(n)
      BY DEF Newest
    <3>1. j \in Packets' /\ gps_rtcm'[j].number = gps_rtcm'[n].number
      BY <1>3, <1>12, <1>20, <2>1
    <3>2. Msg(j)' <= Msg(n)'
      BY <3>1 DEF Waits, Newest
    <3> QED BY <1>3, <1>20, <2>1, <3>2
  <2>3. Waits(n) /\ n \in Packets
    BY <1>3, <1>7, <1>12, <1>18, <1>19, <1>20, <2>1, <2>2 DEF Waits
  <2> QED BY <1>20, <2>1, <2>3 DEF RtcmInv, KeptInBuffer
<1>33. CorrectionsWhole'
  BY <1>5, <1>8, <1>13, <1>18, <1>19 DEF RtcmInv, CorrectionsWhole
<1>34. CorrectionsArrive'
  <2> SUFFICES ASSUME NEW m \in DOMAIN corrections',
                      \A n \in FragsOf(m)' : handled'[n] > 0,
                      Chunks(corrections'[m]) > 1 => corrections'[m].rest /\ Fits(corrections'[m]),
                      ~LeftBehind(m)'
               PROVE  Injected(m)'
    BY DEF CorrectionsArrive
  <2>1. CASE m = m0
    <3>1. 1 \in 1..k
      BY <1>2
    <3>2. L + 1 \in FragsOf(m)' /\ handled'[L + 1] = 0
      BY <1>7, <1>11, <2>1, <3>1 DEF FragsOf, Msg
    <3> QED BY <3>2
  <2>2. CASE m # m0
    <3>1. m \in DOMAIN corrections
      BY <1>4, <1>8, <2>2
    <3>2. \A n \in FragsOf(m) : handled[n] > 0
      BY <1>3, <1>7, <1>14, <3>1 DEF FragsOf
    <3>3. Injected(m)
      BY <1>8, <1>19, <3>1, <3>2 DEF RtcmInv, CorrectionsArrive
    <3> QED BY <1>18, <3>1, <3>3
  <2> QED BY <2>1, <2>2
<1> QED BY <1>6, <1>22, <1>23, <1>25, <1>27, <1>29, <1>31, <1>32, <1>33, <1>34 DEF RtcmInv

LEMMA RtcmStep == RtcmInv /\ [RtcmNext]_rtcmVars => RtcmInv'
<1> SUFFICES ASSUME RtcmInv, [RtcmNext]_rtcmVars PROVE RtcmInv'
  OBVIOUS
<1>1. CASE RestartGcs
  BY <1>1, RestartGcsKeeps
<1>2. ASSUME NEW size \in Corrections, SendRtcm(size) PROVE RtcmInv'
  BY <1>2, SendKeeps
<1>3. ASSUME NEW c \in Copies, NEW n \in Packets, ReceiveRtcm(c, n) PROVE RtcmInv'
  BY <1>3, ReceiveKeeps
<1>4. CASE UNCHANGED rtcmVars
  <2>1. /\ UNCHANGED dedupVars
        /\ UNCHANGED <<seqs, corrections, gps_rtcm, handled, rtcm_frags, injected, rtcm_seq, air>>
    BY <1>4 DEF rtcmVars, dedupVars
  <2>2. DedupInv'
    BY <2>1, DedupStep DEF RtcmInv
  <2>3. Aloft' = Aloft /\ rtcm_seq' \in Nat
    BY <2>1 DEF Aloft, RtcmInv, RtcmTypeOK
  <2>4. Numbered'
    BY <2>1, <2>3 DEF RtcmInv, Numbered, Unfragmented
  <2> QED BY <2>1, <2>2, <2>3, <2>4, LosingKeeps
<1> QED BY <1>1, <1>2, <1>3, <1>4 DEF RtcmNext

\* The GPS is never given a part of a correction or a mixture of two, unless a message
\* that had the same number did not get complete (CommsUav::handle_rtcm).
THEOREM CorrectionsComeWhole == RtcmSpec => []CorrectionsWhole
<1>1. RtcmInv => CorrectionsWhole
  BY DEF RtcmInv
<1> QED BY <1>1, RtcmInitially, RtcmStep, PTL DEF RtcmSpec

\* A correction all of whose fragments come through is injected, but for the two
\* exceptions that the property names (CommsUav::handle_rtcm).
THEOREM CorrectionsComeThrough == RtcmSpec => []CorrectionsArrive
<1>1. RtcmInv => CorrectionsArrive
  BY DEF RtcmInv
<1> QED BY <1>1, RtcmInitially, RtcmStep, PTL DEF RtcmSpec

\* The duplicate filter holds under the traffic of the corrections as well.
THEOREM CorrectionsHandledOnce == RtcmSpec => []HandledOnce
<1>1. RtcmInv => HandledOnce
  BY DEF RtcmInv, DedupInv, Remembered
<1> QED BY <1>1, RtcmInitially, RtcmStep, PTL DEF RtcmSpec

-----------------------------------------------------------------------------
(* Mission blobs. Two functions account for what is delivered: of gives    *)
(* for every packet the transfer it belongs to, and by for every blob      *)
(* handed over the transfer that it is put down to. A fragment is handled  *)
(* once, and so no transfer has two blobs put down to it.                  *)

(***************************************************************************)
(* The invariant, for a function of that gives the transfer of every       *)
(* packet, and a function by that gives the transfer that each blob handed *)
(* over is put down to.                                                    *)
(***************************************************************************)
Carries(n) == fragments[n] # Stats
Crcs == {Crc(blob) : blob \in Seq(Nat)}
Pieces == [id : Nat, idx : Nat, total : Nat, crc : Crcs, chunk : Nat]

BlobTypeOK ==
    /\ Len(fragments) = Len(seqs) /\ fragments \in Seq({Stats} \cup Pieces)
    /\ transfer_id \in Nat
    /\ sent \in Seq(Blobs) /\ delivered \in Seq(Blobs)
    /\ reassembler \in [id : Int, crc : Crcs, frags : Seq(Nat \cup {Missing})]

\* The packets with a fragment carry those of the blobs sent, each once.
CutUp(of) ==
    /\ \A n \in Packets : Carries(n) =>
          /\ of[n] \in DOMAIN sent
          /\ fragments[n].idx \in DOMAIN sent[of[n]]
          /\ fragments[n].total = Len(sent[of[n]])
          /\ fragments[n].crc = Crc(sent[of[n]])
          /\ fragments[n].chunk = sent[of[n]][fragments[n].idx]
    /\ \A n, k \in Packets :
          Carries(n) /\ Carries(k) /\ of[n] = of[k] =>
             /\ fragments[n].id = fragments[k].id
             /\ fragments[n].idx = fragments[k].idx => n = k

\* Packets under way are of one run of the sender.
OneRun(of) ==
    \A n \in Aloft : Carries(n) =>
        /\ fragments[n].id < transfer_id
        /\ \A k \in Aloft : Carries(k) /\ fragments[n].id = fragments[k].id => of[n] = of[k]

\* All that is still under way of fragment i of transfer m was handled.
Done(of, m, i) ==
    \A n \in Aloft : Carries(n) /\ of[n] = m /\ fragments[n].idx = i => handled[n] > 0

\* Every blob handed over is that of a transfer of its own, of which nothing is to come.
PutDown(of, by) ==
    /\ \A d \in DOMAIN delivered : /\ by[d] \in DOMAIN sent
                                   /\ delivered[d] = sent[by[d]]
                                   /\ \A i \in DOMAIN sent[by[d]] : Done(of, by[d], i)
    /\ \A d, e \in DOMAIN delivered : by[d] = by[e] => d = e

\* The reassembler r follows a transfer m that no blob is put down to yet.
Follows(of, by, r, m) ==
    /\ \A d \in DOMAIN delivered : by[d] # m
    /\ \A n \in Packets : Carries(n) /\ of[n] = m => fragments[n].id = r.id
    /\ r.crc = Crc(sent[m])
    /\ DOMAIN r.frags = DOMAIN sent[m]
    /\ \A i \in DOMAIN r.frags : r.frags[i] # Missing =>
          /\ \E b \in Blobs : i \in DOMAIN b /\ r.frags[i] = b[i]
          /\ Done(of, m, i)

Reassembles(of, by) ==
    reassembler.frags # <<>> => \E m \in DOMAIN sent : Follows(of, by, reassembler, m)

Accounts(of, by) ==
    CutUp(of) /\ OneRun(of) /\ PutDown(of, by) /\ Reassembles(of, by)
BlobInv == DedupInv /\ BlobTypeOK /\ \E of, by : Accounts(of, by)

LEMMA BlobTypes ==
    ASSUME DedupInv, BlobTypeOK
    PROVE  /\ Packets = 1..Len(seqs) /\ Len(seqs) \in Nat /\ Aloft \subseteq Packets
           /\ \A n \in Packets : /\ handled[n] \in Nat
                                 /\ Carries(n) => fragments[n] \in Pieces
           /\ \A m \in DOMAIN sent : /\ sent[m] \in Blobs /\ sent[m] \in Seq(Nat)
                                     /\ DOMAIN sent[m] = 1..Len(sent[m])
                                     /\ Len(sent[m]) \in Nat \ {0}
<1>1. Packets = 1..Len(seqs) /\ Len(seqs) \in Nat /\ Aloft \subseteq Packets
  BY DEF DedupInv, DedupTypeOK, Packets, Aloft
<1>2. \A n \in Packets : handled[n] \in Nat
  BY <1>1 DEF DedupInv, DedupTypeOK
<1>3. \A n \in Packets : Carries(n) => fragments[n] \in Pieces
  <2>1. fragments \in Seq({Stats} \cup Pieces) /\ Len(fragments) = Len(seqs)
    BY DEF BlobTypeOK
  <2> QED BY <1>1, <2>1, ElementOfSeq DEF Carries
<1>4. \A m \in DOMAIN sent : sent[m] \in Blobs
  <2>1. sent \in Seq(Blobs)
    BY DEF BlobTypeOK
  <2> QED BY <2>1, ElementOfSeq, LenProperties
<1>5. \A blob \in Blobs : /\ blob \in Seq(Nat) /\ DOMAIN blob = 1..Len(blob)
                          /\ Len(blob) \in Nat \ {0}
  <2> SUFFICES ASSUME NEW blob \in Blobs
               PROVE  blob \in Seq(Nat) /\ DOMAIN blob = 1..Len(blob) /\ Len(blob) \in Nat \ {0}
    OBVIOUS
  <2>1. blob \in Seq(Nat) /\ blob # <<>>
    BY BlobsAssumption
  <2> QED BY <2>1, LenProperties, EmptySeq
<1> QED BY <1>1, <1>2, <1>3, <1>4, <1>5

\* Steps after which no more is under way, and no less handled.
LEMMA DoneStays ==
    ASSUME DedupInv, BlobTypeOK, NEW of, NEW m, NEW i, Done(of, m, i),
           UNCHANGED fragments, Aloft' \subseteq Aloft,
           \A n \in Packets : handled[n] > 0 => handled'[n] > 0
    PROVE  Done(of, m, i)'
BY BlobTypes DEF Done, Carries

LEMMA QuietKeeps ==
    ASSUME DedupInv, BlobTypeOK, NEW of, NEW by, Accounts(of, by),
           UNCHANGED <<seqs, fragments, reassembler, sent, delivered>>,
           Aloft' \subseteq Aloft, Aloft' = {} \/ UNCHANGED transfer_id,
           \A n \in Packets : handled[n] > 0 => handled'[n] > 0
    PROVE  Accounts(of, by)'
<1>1. \A m, i : Done(of, m, i) => Done(of, m, i)'
  BY DoneStays
<1>2. CutUp(of)'
  BY DEF Accounts, CutUp, Packets, Carries
<1>3. OneRun(of)'
  BY DEF Accounts, OneRun, Carries
<1>4. PutDown(of, by)'
  BY <1>1 DEF Accounts, PutDown
<1>5. \A m : Follows(of, by, reassembler, m) => Follows(of, by, reassembler, m)'
  BY <1>1 DEF Follows, Packets, Carries
<1>6. Reassembles(of, by)'
  BY <1>5 DEF Accounts, Reassembles
<1> QED BY <1>2, <1>3, <1>4, <1>6 DEF Accounts

\* A fragment that was not handled before reaches the reassembler.
LEMMA FeedKeeps ==
    ASSUME DedupInv, BlobTypeOK, NEW of, NEW by, Accounts(of, by),
           NEW c \in Copies, NEW n \in Packets, CheckPacket(c, n), New(n), Carries(n),
           Feed(fragments[n]), UNCHANGED <<fragments, transfer_id, sent>>
    PROVE  BlobTypeOK' /\ \E new : Accounts(of, new)'
<1>1. /\ n \in Aloft /\ Aloft' \subseteq Aloft /\ UNCHANGED seqs
      /\ handled[n] = 0 /\ handled'[n] = 1
      /\ \A k \in Packets : handled[k] > 0 => handled'[k] > 0
  BY Checked, BlobTypes
<1>2. PICK f \in Pieces : f = fragments[n]
  BY BlobTypes
<1>3. PICK m \in DOMAIN sent :
         /\ m = of[n]
         /\ f.idx \in DOMAIN sent[m] /\ f.total = Len(sent[m])
         /\ f.crc = Crc(sent[m]) /\ f.chunk = sent[m][f.idx]
  BY <1>2 DEF Accounts, CutUp
<1>4. /\ f.id \in Nat /\ f.idx \in Nat /\ f.total \in Nat /\ f.crc \in Crcs /\ f.chunk \in Nat
  BY DEF Pieces
<1>5. \A j, i : Done(of, j, i) => Done(of, j, i)'
  BY <1>1, DoneStays
<1>6. \A d \in DOMAIN delivered : by[d] # m
  <2> SUFFICES ASSUME NEW d \in DOMAIN delivered, by[d] = m PROVE FALSE
    OBVIOUS
  <2>1. Done(of, m, f.idx)
    BY <1>3 DEF Accounts, PutDown
  <2> QED BY <1>1, <1>2, <1>3, <2>1 DEF Done
<1>7. CutUp(of)' /\ OneRun(of)'
  <2>1. CutUp(of)'
    BY <1>1 DEF Accounts, CutUp, Packets, Carries
  <2> QED BY <1>1, <2>1 DEF Accounts, OneRun, Carries
<1>8. PICK r \in [id : Int, crc : Crcs, frags : Seq(Nat \cup {Missing})] : r = Following(f)
  <2>1. [i \in 1..f.total |-> Missing] \in Seq(Nat \cup {Missing})
    BY <1>4
  <2>2. PICK none \in Seq(Nat \cup {Missing}) : none = [i \in 1..f.total |-> Missing]
    BY <2>1
  <2>3. [id |-> f.id, crc |-> f.crc, frags |-> none]
           \in [id : Int, crc : Crcs, frags : Seq(Nat \cup {Missing})]
    BY <1>4
  <2>4. Following(f) \in {reassembler, [id |-> f.id, crc |-> f.crc, frags |-> none]}
    BY <2>2 DEF Following
  <2> QED BY <2>3, <2>4 DEF BlobTypeOK
<1>9. /\ r.id = f.id
      /\ r.frags # <<>> => \E j \in DOMAIN sent : Follows(of, by, r, j)
  <2>1. CASE f.id = reassembler.id
    BY <1>8, <2>1 DEF Following, Accounts, Reassembles
  <2>2. CASE f.id # reassembler.id
    <3>1. /\ r.id = f.id /\ r.crc = f.crc /\ DOMAIN r.frags = 1..f.total
          /\ \A i \in 1..f.total : r.frags[i] = Missing
      BY <1>8, <2>2 DEF Following
    <3>2. DOMAIN r.frags = DOMAIN sent[m]
      BY <1>3, <3>1, BlobTypes
    <3>3. \A k \in Packets : Carries(k) /\ of[k] = m => fragments[k].id = r.id
      BY <1>2, <1>3, <3>1 DEF Accounts, CutUp
    <3>4. Follows(of, by, r, m)
      BY <1>3, <1>6, <3>1, <3>2, <3>3 DEF Follows
    <3> QED BY <3>1, <3>4
  <2> QED BY <2>1, <2>2
<1>10. CASE ~Wanted(f)
  <2>1. reassembler' = r /\ UNCHANGED delivered
    BY <1>2, <1>8, <1>10 DEF Feed
  <2>2. BlobTypeOK'
    BY <1>1, <2>1 DEF BlobTypeOK
  <2>3. PutDown(of, by)'
    BY <1>5, <2>1 DEF Accounts, PutDown
  <2>4. \A j : Follows(of, by, r, j) => Follows(of, by, r, j)'
    BY <1>1, <1>5, <2>1 DEF Follows, Packets, Carries
  <2>5. Reassembles(of, by)'
    BY <1>9, <2>1, <2>4 DEF Reassembles
  <2> QED BY <1>7, <2>2, <2>3, <2>5 DEF Accounts
<1>11. CASE Wanted(f)
  <2>1. f.idx \in DOMAIN r.frags /\ r.frags[f.idx] = Missing
    BY <1>8, <1>11 DEF Wanted
  <2>2. PICK j \in DOMAIN sent : Follows(of, by, r, j)
    BY <1>9, <2>1
  <2>3. PICK p \in [id : Int, crc : Crcs, frags : Seq(Nat \cup {Missing})] :
           /\ p = Placed(f) /\ p.id = r.id /\ p.crc = r.crc
           /\ DOMAIN p.frags = DOMAIN r.frags
           /\ p.frags[f.idx] = f.chunk
           /\ \A i \in DOMAIN r.frags : i # f.idx => p.frags[i] = r.frags[i]
    <3>1. PICK q \in Seq(Nat \cup {Missing}) : q = r.frags
      OBVIOUS
    <3>2. PICK g : g = [q EXCEPT ![f.idx] = f.chunk]
      OBVIOUS
    <3>3. /\ g \in Seq(Nat \cup {Missing}) /\ DOMAIN g = DOMAIN q /\ g[f.idx] = f.chunk
          /\ \A i \in DOMAIN q : i # f.idx => g[i] = q[i]
      BY <1>4, <2>1, <3>1, <3>2
    <3>4. Placed(f) = [id |-> r.id, crc |-> r.crc, frags |-> g]
      <4>1. Placed(f) = [r EXCEPT !.frags = g]
        BY <1>8, <3>1, <3>2 DEF Placed
      <4> QED BY ONLY <4>1, r \in [id : Int, crc : Crcs, frags : Seq(Nat \cup {Missing})]
    <3> QED BY <3>1, <3>3, <3>4
  <2>4. /\ \A d \in DOMAIN delivered : by[d] # j
        /\ \A k \in Packets : Carries(k) /\ of[k] = j => fragments[k].id = p.id
        /\ p.crc = Crc(sent[j]) /\ DOMAIN p.frags = DOMAIN sent[j]
    BY <2>2, <2>3 DEF Follows
  <2>5. ASSUME NEW i \in DOMAIN p.frags, p.frags[i] # Missing
        PROVE  /\ \E b \in Blobs : i \in DOMAIN b /\ p.frags[i] = b[i]
               /\ Done(of, j, i)'
    <3>1. CASE i # f.idx
      BY <1>5, <2>2, <2>3, <2>5, <3>1 DEF Follows
    <3>2. CASE i = f.idx
      <4>1. \E b \in Blobs : i \in DOMAIN b /\ p.frags[i] = b[i]
        BY <1>3, <2>3, <3>2, BlobTypes
      <4>2. ASSUME NEW k \in Aloft', Carries(k), of[k] = j, fragments[k].idx = i
            PROVE  k = n
        <5>1. k \in Aloft /\ k \in Packets
          BY <1>1, BlobTypes
        <5>2. fragments[k].id = f.id
          BY <1>9, <2>3, <2>4, <4>2, <5>1
        <5>3. of[n] = of[k]
          BY <1>1, <1>2, <4>2, <5>1, <5>2 DEF Accounts, OneRun
        <5> QED BY <1>2, <3>2, <4>2, <5>1, <5>3 DEF Accounts, CutUp
      <4>3. Done(of, j, i)'
        BY <1>1, <4>2 DEF Done, Carries
      <4> QED BY <4>1, <4>3
    <3> QED BY <3>1, <3>2
  <2>6. CASE ~Complete(p)
    <3>1. reassembler' = p /\ UNCHANGED delivered
      BY <1>2, <1>11, <2>3, <2>6 DEF Feed
    <3>2. BlobTypeOK'
      BY <1>1, <3>1 DEF BlobTypeOK
    <3>3. PutDown(of, by)'
      BY <1>5, <3>1 DEF Accounts, PutDown
    <3>4. Follows(of, by, p, j)'
      BY <1>1, <2>4, <2>5, <3>1 DEF Follows, Packets, Carries
    <3>5. Reassembles(of, by)'
      BY <3>1, <3>4 DEF Reassembles
    <3> QED BY <1>7, <3>2, <3>3, <3>5 DEF Accounts
  <2>7. CASE Complete(p)
    <3>1. /\ reassembler' = [p EXCEPT !.frags = <<>>]
          /\ delivered' = IF CrcOk(p) THEN Append(delivered, p.frags) ELSE delivered
      BY <1>2, <1>11, <2>3, <2>7 DEF Feed
    <3>2. reassembler' \in [id : Int, crc : Crcs, frags : Seq(Nat \cup {Missing})]
          /\ reassembler'.frags = <<>>
      <4>1. PICK none \in Seq(Nat \cup {Missing}) : none = <<>>
        <5>1. <<>> \in Seq(Nat \cup {Missing})
          OBVIOUS
        <5> QED BY <5>1, Zenon
      <4>2. reassembler' = [id |-> p.id, crc |-> p.crc, frags |-> none]
        BY <3>1, <4>1
      <4> QED BY <4>1, <4>2
    <3>3. \A new : Reassembles(of, new)'
      BY <3>2 DEF Reassembles
    <3>4. CASE ~CrcOk(p)
      <4>1. UNCHANGED delivered
        BY <3>1, <3>4
      <4>2. BlobTypeOK'
        BY <1>1, <3>2, <4>1 DEF BlobTypeOK
      <4>3. PutDown(of, by)'
        BY <1>5, <4>1 DEF Accounts, PutDown
      <4> QED BY <1>7, <3>3, <4>2, <4>3 DEF Accounts
    <3>5. CASE CrcOk(p)
      <4>1. \A i \in DOMAIN sent[j] : p.frags[i] # Missing
        BY <2>4, <2>7 DEF Complete
      <4>2. sent[j] \in Blobs
        BY BlobTypes
      <4>3. \A i \in DOMAIN p.frags : \E b \in Blobs : i \in DOMAIN b /\ p.frags[i] = b[i]
        BY <2>4, <2>5, <4>1
      <4>4. p.frags \in [DOMAIN sent[j] -> UNION {Range(b) : b \in Blobs}]
        BY <2>4, <4>3 DEF Range
      <4>5. Crc(p.frags) = Crc(sent[j])
        BY <2>4, <3>5 DEF CrcOk
      <4>6. p.frags = sent[j]
        BY <4>2, <4>3, <4>4, <4>5, CrcAssumption
      <4>7. PICK L \in Nat : L = Len(delivered)
        BY LenProperties DEF BlobTypeOK
      <4>8. /\ delivered' \in Seq(Blobs) /\ DOMAIN delivered' = 1..L + 1
            /\ DOMAIN delivered = 1..L
            /\ delivered'[L + 1] = sent[j] /\ \A d \in 1..L : delivered'[d] = delivered[d]
        <5>1. delivered \in Seq(Blobs) /\ delivered' = Append(delivered, sent[j])
          BY <3>1, <3>5, <4>6 DEF BlobTypeOK
        <5> QED BY <4>2, <4>7, <5>1
      <4>9. BlobTypeOK'
        BY <1>1, <3>2, <4>8 DEF BlobTypeOK
      <4> DEFINE new == [d \in 1..L + 1 |-> IF d \in 1..L THEN by[d] ELSE j]
      <4>10. /\ new[L + 1] = j /\ \A d \in 1..L : new[d] = by[d] /\ new[d] # j
             /\ \A d \in 1..L + 1 : d \in 1..L \/ d = L + 1
        <5>1. \A d \in 1..L : d \in 1..L + 1 /\ d # L + 1
          BY <4>7
        <5>2. L + 1 \in 1..L + 1 /\ \A d \in 1..L + 1 : d \in 1..L \/ d = L + 1
          BY <4>7
        <5>3. \A d \in 1..L : by[d] # j
          BY <2>4, <4>8
        <5> QED BY <5>1, <5>2, <5>3
      <4> HIDE DEF new
      <4>11. PutDown(of, new)'
        <5>1. \A d \in DOMAIN delivered' :
                 /\ new[d] \in DOMAIN sent /\ delivered'[d] = sent[new[d]]
                 /\ \A i \in DOMAIN sent[new[d]] : Done(of, new[d], i)'
          <6> SUFFICES ASSUME NEW d \in 1..L + 1
                       PROVE  /\ new[d] \in DOMAIN sent /\ delivered'[d] = sent[new[d]]
                              /\ \A i \in DOMAIN sent[new[d]] : Done(of, new[d], i)'
            BY <4>8
          <6>1. CASE d \in 1..L
            BY <1>5, <4>8, <4>10, <6>1 DEF Accounts, PutDown
          <6>2. CASE d = L + 1
            BY <2>4, <2>5, <4>1, <4>8, <4>10, <6>2
          <6> QED BY <4>10, <6>1, <6>2
        <5>2. \A d, e \in DOMAIN delivered' : new[d] = new[e] => d = e
          BY <4>8, <4>10 DEF Accounts, PutDown
        <5> QED BY <5>1, <5>2 DEF PutDown
      <4> QED BY <1>7, <3>3, <4>9, <4>11 DEF Accounts
    <3> QED BY <3>4, <3>5
  <2> QED BY <2>6, <2>7
<1> QED BY <1>10, <1>11

\* Packets that come to be carry nothing but fragments of one transfer, and that a new one.
LEMMA MoreAccounts ==
    ASSUME DedupInv, BlobTypeOK, NEW of, NEW by, Accounts(of, by), NEW more, NEW m,
           m \notin DOMAIN sent, UNCHANGED <<reassembler, delivered>>,
           \A j \in DOMAIN sent : j \in DOMAIN sent' /\ sent'[j] = sent[j],
           transfer_id' \in Nat, transfer_id <= transfer_id',
           \A n \in Packets : /\ n \in Packets' /\ fragments'[n] = fragments[n]
                              /\ handled'[n] = handled[n] /\ more[n] = of[n],
           \A n \in Aloft' : n \in Packets' /\ (n \in Packets => n \in Aloft),
           \A n \in Packets' : n \notin Packets /\ fragments'[n] # Stats =>
              /\ more[n] = m /\ m \in DOMAIN sent'
              /\ fragments'[n].idx \in DOMAIN sent'[m]
              /\ fragments'[n].total = Len(sent'[m])
              /\ fragments'[n].crc = Crc(sent'[m])
              /\ fragments'[n].chunk = sent'[m][fragments'[n].idx]
              /\ fragments'[n].id = transfer_id /\ transfer_id < transfer_id',
           \A n, k \in Packets' :
              /\ n \notin Packets /\ fragments'[n] # Stats
              /\ k \notin Packets /\ fragments'[k] # Stats
              /\ fragments'[n].idx = fragments'[k].idx
              => n = k
    PROVE  Accounts(more, by)'
<1>1. \A n \in Packets : fragments[n] # Stats =>
         /\ of[n] \in DOMAIN sent /\ of[n] # m
         /\ fragments[n].idx \in DOMAIN sent[of[n]]
         /\ fragments[n].total = Len(sent[of[n]])
         /\ fragments[n].crc = Crc(sent[of[n]])
         /\ fragments[n].chunk = sent[of[n]][fragments[n].idx]
  BY DEF Accounts, CutUp, Carries
<1>2. \A n, k \in Packets :
         fragments[n] # Stats /\ fragments[k] # Stats /\ of[n] = of[k] =>
            /\ fragments[n].id = fragments[k].id
            /\ fragments[n].idx = fragments[k].idx => n = k
  BY DEF Accounts, CutUp, Carries
<1>3. CutUp(more)'
  <2>1. ASSUME NEW n \in Packets', fragments'[n] # Stats
        PROVE  /\ more[n] \in DOMAIN sent'
               /\ fragments'[n].idx \in DOMAIN sent'[more[n]]
               /\ fragments'[n].total = Len(sent'[more[n]])
               /\ fragments'[n].crc = Crc(sent'[more[n]])
               /\ fragments'[n].chunk = sent'[more[n]][fragments'[n].idx]
    <3>1. CASE n \in Packets
      <4>1. sent'[of[n]] = sent[of[n]] /\ of[n] \in DOMAIN sent'
        BY <1>1, <2>1, <3>1
      <4>2. fragments'[n] = fragments[n] /\ more[n] = of[n]
        BY <3>1
      <4> QED BY <1>1, <2>1, <3>1, <4>1, <4>2
    <3>2. CASE n \notin Packets
      BY <2>1, <3>2
    <3> QED BY <3>1, <3>2
  <2>2. ASSUME NEW n \in Packets', NEW k \in Packets', fragments'[n] # Stats,
               fragments'[k] # Stats, more[n] = more[k]
        PROVE  /\ fragments'[n].id = fragments'[k].id
               /\ fragments'[n].idx = fragments'[k].idx => n = k
    <3>1. CASE n \in Packets /\ k \in Packets
      BY <1>2, <2>2, <3>1
    <3>2. CASE n \notin Packets /\ k \notin Packets
      BY <2>2, <3>2
    <3>3. CASE n \in Packets /\ k \notin Packets
      BY <1>1, <2>2, <3>3
    <3>4. CASE n \notin Packets /\ k \in Packets
      BY <1>1, <2>2, <3>4
    <3> QED BY <3>1, <3>2, <3>3, <3>4
  <2> QED BY <2>1, <2>2 DEF CutUp, Carries
<1>4. \A n \in Aloft : fragments[n] # Stats =>
         /\ fragments[n].id \in Nat /\ fragments[n].id < transfer_id
         /\ \A k \in Aloft : fragments[k] # Stats /\ fragments[n].id = fragments[k].id =>
               of[n] = of[k]
  BY BlobTypes DEF Accounts, OneRun, Carries, Pieces
<1>5. OneRun(more)'
  <2>1. \A n \in Aloft' : fragments'[n] # Stats =>
           IF n \in Packets THEN fragments'[n].id \in Nat /\ fragments'[n].id < transfer_id
           ELSE fragments'[n].id = transfer_id /\ transfer_id < transfer_id'
    BY <1>4
  <2>2. \A n \in Aloft' : fragments'[n] # Stats => fragments'[n].id < transfer_id'
    BY <2>1 DEF BlobTypeOK
  <2>3. ASSUME NEW n \in Aloft', NEW k \in Aloft', fragments'[n] # Stats, fragments'[k] # Stats,
               fragments'[n].id = fragments'[k].id
        PROVE  more[n] = more[k]
    <3>1. CASE n \in Packets /\ k \in Packets
      BY <1>4, <2>3, <3>1
    <3>2. CASE n \notin Packets /\ k \notin Packets
      BY <2>3, <3>2
    <3>3. CASE (n \in Packets) # (k \in Packets)
      BY <2>1, <2>3, <3>3 DEF BlobTypeOK
    <3> QED BY <3>1, <3>2, <3>3
  <2> QED BY <2>2, <2>3 DEF OneRun, Carries
<1>6. ASSUME NEW j \in DOMAIN sent, NEW i, Done(of, j, i) PROVE Done(more, j, i)'
  <2> SUFFICES ASSUME NEW n \in Aloft', fragments'[n] # Stats, more[n] = j, fragments'[n].idx = i
               PROVE  handled'[n] > 0
    BY DEF Done, Carries
  <2>1. n \in Packets /\ n \in Aloft
    OBVIOUS
  <2> QED BY <1>6, <2>1 DEF Done, Carries
<1>7. PutDown(more, by)'
  <2>1. ASSUME NEW d \in DOMAIN delivered
        PROVE  /\ by[d] \in DOMAIN sent' /\ delivered[d] = sent'[by[d]]
               /\ \A i \in DOMAIN sent'[by[d]] : Done(more, by[d], i)'
    <3>1. /\ by[d] \in DOMAIN sent /\ delivered[d] = sent[by[d]]
          /\ \A i \in DOMAIN sent[by[d]] : Done(of, by[d], i)
      BY DEF Accounts, PutDown
    <3> QED BY <1>6, <3>1
  <2> QED BY <2>1 DEF Accounts, PutDown
<1>8. ASSUME NEW j \in DOMAIN sent, Follows(of, by, reassembler, j)
      PROVE  Follows(more, by, reassembler, j)'
  <2>1. \A n \in Packets' : fragments'[n] # Stats /\ more[n] = j =>
           fragments'[n].id = reassembler.id
    BY <1>8 DEF Follows, Carries
  <2>2. sent'[j] = sent[j]
    OBVIOUS
  <2>3. /\ \A d \in DOMAIN delivered' : by[d] # j
        /\ reassembler'.crc = Crc(sent'[j]) /\ DOMAIN reassembler'.frags = DOMAIN sent'[j]
    BY <1>8, <2>2 DEF Follows
  <2>4. \A i \in DOMAIN reassembler'.frags : reassembler'.frags[i] # Missing =>
           /\ \E b \in Blobs : i \in DOMAIN b /\ reassembler'.frags[i] = b[i]
           /\ Done(more, j, i)'
    BY <1>6, <1>8 DEF Follows
  <2> QED BY <2>1, <2>3, <2>4 DEF Follows, Carries
<1>9. Reassembles(more, by)'
  BY <1>8 DEF Accounts, Reassembles
<1> QED BY <1>3, <1>5, <1>7, <1>9 DEF Accounts

\* What leaves carries nothing but fragments of one transfer, and that a new one.
LEMMA LeavingAccounts ==
    ASSUME DedupInv, DedupInv', BlobTypeOK, NEW of, NEW by, Accounts(of, by),
           NEW numbers \in Seq(Nat), Transmit(numbers),
           NEW new \in Seq({Stats} \cup Pieces), Len(new) = Len(numbers),
           fragments' = fragments \o new,
           NEW m \in Nat, m \notin DOMAIN sent, UNCHANGED <<reassembler, delivered>>,
           sent' \in Seq(Blobs), \A j \in DOMAIN sent : j \in DOMAIN sent' /\ sent'[j] = sent[j],
           transfer_id' \in Nat, transfer_id <= transfer_id',
           \A i \in 1..Len(new) : new[i] # Stats =>
              /\ m \in DOMAIN sent' /\ i \in DOMAIN sent'[m]
              /\ new[i].idx = i /\ new[i].total = Len(sent'[m])
              /\ new[i].crc = Crc(sent'[m]) /\ new[i].chunk = sent'[m][i]
              /\ new[i].id = transfer_id /\ transfer_id < transfer_id'
    PROVE  BlobTypeOK' /\ \E more : Accounts(more, by)'
<1>1. PICK L \in Nat, k \in Nat :
         L = Len(seqs) /\ Packets = 1..L /\ k = Len(numbers) /\ k = Len(new)
  BY BlobTypes, LenProperties
<1>2. /\ Len(seqs') = L + k /\ Packets' = 1..L + k
      /\ \A n \in 1..L : handled'[n] = handled[n]
      /\ \A n \in Aloft' : n \in 1..L + k /\ (n \in 1..L => n \in Aloft)
  <2>1. /\ seqs' \in Seq(Nat) /\ Len(seqs') = Len(seqs) + Len(numbers)
        /\ \A n \in 1..Len(seqs) : handled'[n] = handled[n]
        /\ \A n \in Aloft' : n \in 1..Len(seqs') /\ (n \in 1..Len(seqs) => n \in Aloft)
    BY Transmitted DEF DedupInv
  <2>2. DOMAIN seqs' = 1..Len(seqs')
    BY <2>1, LenProperties
  <2> QED BY <1>1, <2>1, <2>2 DEF Packets
<1>3. /\ fragments' \in Seq({Stats} \cup Pieces) /\ Len(fragments') = L + k
      /\ \A n \in 1..L : fragments'[n] = fragments[n]
      /\ \A i \in 1..k : fragments'[L + i] = new[i]
  <2>1. fragments \in Seq({Stats} \cup Pieces) /\ Len(fragments) = L
    BY <1>1 DEF BlobTypeOK
  <2>2. /\ fragments \o new \in Seq({Stats} \cup Pieces)
        /\ Len(fragments \o new) = Len(fragments) + Len(new)
    <3>1. new \in Seq({Stats} \cup Pieces)
      OBVIOUS
    <3> QED BY ONLY <2>1, <3>1, ConcatProperties
  <2>3. /\ \A n \in 1..L : fragments'[n] = fragments[n]
        /\ \A i \in 1..k : fragments'[L + i] = new[i]
    BY <1>1, <2>1
  <2> QED BY <1>1, <2>1, <2>2, <2>3
<1>4. BlobTypeOK'
  BY <1>2, <1>3 DEF BlobTypeOK
<1>5. \A n \in 1..L + k : n \in 1..L \/ \E i \in 1..k : n = L + i
  <2> SUFFICES ASSUME NEW n \in 1..L + k, n \notin 1..L PROVE \E i \in 1..k : n = L + i
    OBVIOUS
  <2>1. n - L \in 1..k /\ n = L + (n - L)
    OBVIOUS
  <2> QED BY <2>1
<1>6. \A n \in 1..L : n \in 1..L + k
  OBVIOUS
<1> DEFINE more == [n \in 1..L + k |-> IF n \in 1..L THEN of[n] ELSE m]
<1>7. \A n \in 1..L + k : more[n] = IF n \in 1..L THEN of[n] ELSE m
  OBVIOUS
<1> HIDE DEF more
<1>8. \A n \in 1..L + k : n \notin 1..L /\ fragments'[n] # Stats =>
         /\ more[n] = m /\ m \in DOMAIN sent'
         /\ fragments'[n].idx \in DOMAIN sent'[m]
         /\ fragments'[n].total = Len(sent'[m])
         /\ fragments'[n].crc = Crc(sent'[m])
         /\ fragments'[n].chunk = sent'[m][fragments'[n].idx]
         /\ fragments'[n].id = transfer_id /\ transfer_id < transfer_id'
         /\ n = L + fragments'[n].idx
  <2> SUFFICES ASSUME NEW n \in 1..L + k, n \notin 1..L, fragments'[n] # Stats
               PROVE  /\ more[n] = m /\ m \in DOMAIN sent'
                      /\ fragments'[n].idx \in DOMAIN sent'[m]
                      /\ fragments'[n].total = Len(sent'[m])
                      /\ fragments'[n].crc = Crc(sent'[m])
                      /\ fragments'[n].chunk = sent'[m][fragments'[n].idx]
                      /\ fragments'[n].id = transfer_id /\ transfer_id < transfer_id'
                      /\ n = L + fragments'[n].idx
    OBVIOUS
  <2>1. PICK i \in 1..k : n = L + i
    BY <1>5
  <2>2. fragments'[n] = new[i] /\ new[i] # Stats
    BY <1>3, <2>1
  <2>3. /\ m \in DOMAIN sent' /\ i \in DOMAIN sent'[m]
        /\ new[i].idx = i /\ new[i].total = Len(sent'[m])
        /\ new[i].crc = Crc(sent'[m]) /\ new[i].chunk = sent'[m][i]
        /\ new[i].id = transfer_id /\ transfer_id < transfer_id'
    BY <1>1, <2>2
  <2>4. more[n] = m
    BY <1>7
  <2> QED BY <2>1, <2>2, <2>3, <2>4
<1>9. \A n \in Packets : /\ n \in Packets' /\ fragments'[n] = fragments[n]
                         /\ handled'[n] = handled[n] /\ more[n] = of[n]
  BY <1>1, <1>2, <1>3, <1>6, <1>7
<1>10. Accounts(more, by)'
  <2>1. \A n \in Packets' : n \notin Packets /\ fragments'[n] # Stats =>
           /\ more[n] = m /\ m \in DOMAIN sent'
           /\ fragments'[n].idx \in DOMAIN sent'[m]
           /\ fragments'[n].total = Len(sent'[m])
           /\ fragments'[n].crc = Crc(sent'[m])
           /\ fragments'[n].chunk = sent'[m][fragments'[n].idx]
           /\ fragments'[n].id = transfer_id /\ transfer_id < transfer_id'
    BY <1>1, <1>2, <1>8
  <2>2. ASSUME NEW n \in Packets', NEW j \in Packets', n \notin Packets,
               fragments'[n] # Stats, j \notin Packets, fragments'[j] # Stats,
               fragments'[n].idx = fragments'[j].idx
        PROVE  n = j
    <3>1. n = L + fragments'[n].idx /\ j = L + fragments'[j].idx
      BY <1>1, <1>2, <1>8, <2>2
    <3> QED BY <2>2, <3>1
  <2>3. \A n \in Aloft' : n \in Packets' /\ (n \in Packets => n \in Aloft)
    BY <1>1, <1>2
  <2> QED BY <1>9, <2>1, <2>2, <2>3, MoreAccounts
<1> QED BY <1>4, <1>10

LEMMA SendMissionBlobKeeps ==
    ASSUME BlobInv, NEW blob \in Blobs, SendMissionBlob(blob)
    PROVE  BlobInv'
<1>1. PICK of, by : Accounts(of, by)
  BY DEF BlobInv
<1>2. PICK k \in Nat : /\ k = Len(blob) /\ blob \in Seq(Nat) /\ DOMAIN blob = 1..k
                      /\ \A i \in 1..k : blob[i] \in Nat
  BY BlobsAssumption, LenProperties, ElementOfSeq
<1>3. DedupInv'
  BY <1>2, SendPacketsKeeps DEF BlobInv, SendMissionBlob
<1>4. PICK numbers \in Seq(Nat) : Transmit(numbers) /\ Len(numbers) = k
  <2>1. Transmit([i \in 1..k |-> tx + i - 1])
    BY <1>2 DEF SendMissionBlob, SendPackets
  <2>2. tx \in Nat
    BY DEF BlobInv, DedupInv, DedupTypeOK
  <2>3. [i \in 1..k |-> tx + i - 1] \in Seq(Nat) /\ Len([i \in 1..k |-> tx + i - 1]) = k
    BY <2>2
  <2> QED BY <2>1, <2>3
<1>5. Crc(blob) \in Crcs
  BY <1>2 DEF Crcs
<1>6. transfer_id \in Nat /\ transfer_id' = transfer_id + 1
  BY DEF BlobInv, BlobTypeOK, SendMissionBlob
<1> DEFINE piece(i) == [id |-> transfer_id, idx |-> i, total |-> k, crc |-> Crc(blob),
                        chunk |-> blob[i]]
<1>7. PICK new \in Seq({Stats} \cup Pieces) :
         /\ Len(new) = k /\ fragments' = fragments \o new
         /\ \A i \in 1..k : new[i] = piece(i)
  <2>1. \A i \in 1..k : piece(i) \in Pieces
    BY <1>2, <1>5, <1>6 DEF Pieces
  <2>2. Fragments(transfer_id, blob) = [i \in 1..k |-> piece(i)]
    BY <1>2 DEF Fragments
  <2> HIDE DEF piece
  <2>3. [i \in 1..k |-> piece(i)] \in Seq({Stats} \cup Pieces)
        /\ Len([i \in 1..k |-> piece(i)]) = k
    BY <2>1
  <2>4. fragments' = fragments \o Fragments(transfer_id, blob)
    BY DEF SendMissionBlob
  <2> QED BY <2>2, <2>3, <2>4
<1>8. PICK m \in Nat : /\ m \notin DOMAIN sent /\ m \in DOMAIN sent' /\ sent'[m] = blob
                      /\ sent' \in Seq(Blobs)
                      /\ \A j \in DOMAIN sent : j \in DOMAIN sent' /\ sent'[j] = sent[j]
  <2>1. sent \in Seq(Blobs) /\ sent' = Append(sent, blob)
    BY DEF BlobInv, BlobTypeOK, SendMissionBlob
  <2>2. /\ Len(sent) + 1 \in Nat /\ Len(sent) + 1 \notin DOMAIN sent
        /\ Len(sent) + 1 \in DOMAIN sent' /\ sent'[Len(sent) + 1] = blob
        /\ sent' \in Seq(Blobs)
        /\ \A j \in DOMAIN sent : j \in DOMAIN sent' /\ sent'[j] = sent[j]
    BY <2>1
  <2> QED BY <2>2
<1>9. \A i \in 1..k : /\ m \in DOMAIN sent' /\ i \in DOMAIN sent'[m]
                      /\ new[i].idx = i /\ new[i].total = Len(sent'[m])
                      /\ new[i].crc = Crc(sent'[m]) /\ new[i].chunk = sent'[m][i]
                      /\ new[i].id = transfer_id
  <2> SUFFICES ASSUME NEW i \in 1..k
               PROVE  /\ m \in DOMAIN sent' /\ i \in DOMAIN sent'[m]
                      /\ new[i].idx = i /\ new[i].total = Len(sent'[m])
                      /\ new[i].crc = Crc(sent'[m]) /\ new[i].chunk = sent'[m][i]
                      /\ new[i].id = transfer_id
    OBVIOUS
  <2>1. /\ new[i].idx = i /\ new[i].total = k /\ new[i].crc = Crc(blob)
        /\ new[i].chunk = blob[i] /\ new[i].id = transfer_id
    BY <1>7
  <2>2. m \in DOMAIN sent' /\ sent'[m] = blob /\ i \in DOMAIN blob /\ k = Len(blob)
    BY <1>2, <1>8
  <2> QED BY <2>1, <2>2
<1>10. BlobTypeOK' /\ \E more : Accounts(more, by)'
  <2>1. UNCHANGED <<reassembler, delivered>>
    BY DEF SendMissionBlob
  <2>2. transfer_id' \in Nat /\ transfer_id <= transfer_id' /\ transfer_id < transfer_id'
    BY <1>6
  <2> HIDE DEF piece
  <2>3. \A i \in 1..Len(new) : new[i] # Stats =>
           /\ m \in DOMAIN sent' /\ i \in DOMAIN sent'[m]
           /\ new[i].idx = i /\ new[i].total = Len(sent'[m])
           /\ new[i].crc = Crc(sent'[m]) /\ new[i].chunk = sent'[m][i]
           /\ new[i].id = transfer_id /\ transfer_id < transfer_id'
    BY <1>7, <1>9, <2>2
  <2>4. Len(new) = Len(numbers) /\ fragments' = fragments \o new
    BY <1>4, <1>7
  <2>5. DedupInv /\ BlobTypeOK
    BY DEF BlobInv
  <2> QED BY <1>1, <1>3, <1>4, <1>8, <2>1, <2>2, <2>3, <2>4, <2>5, LeavingAccounts
<1> QED BY <1>3, <1>10 DEF BlobInv

LEMMA SendRadioStatsKeeps == BlobInv /\ SendRadioStats => BlobInv'
<1> SUFFICES ASSUME BlobInv, SendRadioStats PROVE BlobInv'
  OBVIOUS
<1>1. PICK of, by : Accounts(of, by)
  BY DEF BlobInv
<1>2. DedupInv'
  BY SendRacedKeeps DEF BlobInv, SendRadioStats
<1>3. PICK numbers \in Seq(Nat) : Transmit(numbers) /\ Len(numbers) = 1
  <2>1. packing.number \in Nat /\ Transmit(<<packing.number>>)
    BY DEF BlobInv, DedupInv, DedupTypeOK, SendRadioStats, SendRaced
  <2>2. <<packing.number>> \in Seq(Nat) /\ Len(<<packing.number>>) = 1
    BY <2>1
  <2> QED BY <2>1, <2>2
<1>4. PICK new \in Seq({Stats} \cup Pieces) :
         Len(new) = 1 /\ fragments' = fragments \o new /\ \A i \in 1..1 : new[i] = Stats
  <2>1. fragments' = Append(fragments, Stats)
    BY DEF SendRadioStats
  <2>2. fragments \in Seq({Stats} \cup Pieces)
    BY DEF BlobInv, BlobTypeOK
  <2>3. /\ <<Stats>> \in Seq({Stats} \cup Pieces) /\ Len(<<Stats>>) = 1
        /\ \A i \in 1..1 : <<Stats>>[i] = Stats
    OBVIOUS
  <2>4. fragments' = fragments \o <<Stats>>
    BY <2>1, <2>2
  <2> QED BY <2>3, <2>4
<1>5. PICK m \in Nat : m \notin DOMAIN sent
  <2>1. Len(sent) + 1 \in Nat /\ Len(sent) + 1 \notin DOMAIN sent
    BY DEF BlobInv, BlobTypeOK
  <2> QED BY <2>1
<1>6. /\ UNCHANGED <<reassembler, delivered, sent, transfer_id>>
      /\ sent' \in Seq(Blobs) /\ transfer_id' \in Nat /\ transfer_id <= transfer_id'
      /\ \A j \in DOMAIN sent : j \in DOMAIN sent' /\ sent'[j] = sent[j]
  BY DEF BlobInv, BlobTypeOK, SendRadioStats
<1>7. BlobTypeOK' /\ \E more : Accounts(more, by)'
  BY <1>1, <1>2, <1>3, <1>4, <1>5, <1>6, LeavingAccounts DEF BlobInv
<1> QED BY <1>2, <1>7 DEF BlobInv

LEMMA ReceivePacketKeeps ==
    ASSUME BlobInv, NEW c \in Copies, NEW n \in Packets, ReceivePacket(c, n)
    PROVE  BlobInv'
<1>1. PICK of, by : Accounts(of, by)
  BY DEF BlobInv
<1>2. /\ CheckPacket(c, n) /\ UNCHANGED <<fragments, transfer_id, sent>>
      /\ IF New(n) /\ Carries(n)
         THEN Feed(fragments[n]) ELSE UNCHANGED <<reassembler, delivered>>
  BY DEF ReceivePacket, Carries
<1>3. DedupInv'
  BY <1>2, CheckPacketKeeps DEF BlobInv
<1>4. CASE New(n) /\ Carries(n)
  BY <1>1, <1>2, <1>3, <1>4, FeedKeeps DEF BlobInv
<1>5. CASE ~(New(n) /\ Carries(n))
  <2>1. UNCHANGED <<reassembler, delivered>>
    BY <1>2, <1>5
  <2>2. /\ Aloft' \subseteq Aloft /\ UNCHANGED seqs
        /\ \A k \in Packets : handled[k] > 0 => handled'[k] > 0
    BY <1>2, Checked, BlobTypes DEF BlobInv
  <2>3. Accounts(of, by)'
    BY <1>1, <1>2, <2>1, <2>2, QuietKeeps DEF BlobInv
  <2>4. BlobTypeOK'
    BY <1>2, <2>1, <2>2 DEF BlobInv, BlobTypeOK
  <2> QED BY <1>3, <2>3, <2>4 DEF BlobInv
<1> QED BY <1>4, <1>5

LEMMA BlobInitially == TransportInit => BlobInv
<1> SUFFICES ASSUME TransportInit PROVE BlobInv
  OBVIOUS
<1>1. DedupInv /\ Aloft = {} /\ Packets = {}
  BY DedupInitially DEF TransportInit, DedupInit, Aloft, Packets
<1>2. Crc(<<>>) \in Crcs
  <2>1. <<>> \in Seq(Nat)
    OBVIOUS
  <2> QED BY <2>1 DEF Crcs
<1>3. BlobTypeOK
  <2>1. reassembler \in [id : Int, crc : Crcs, frags : Seq(Nat \cup {Missing})]
    BY <1>2 DEF TransportInit, NoTransfer
  <2> QED BY <2>1 DEF TransportInit, DedupInit, BlobTypeOK
<1>4. \A of, by : Accounts(of, by)
  BY <1>1 DEF TransportInit, Accounts, CutUp, OneRun, PutDown, Reassembles
<1> QED BY <1>1, <1>3, <1>4 DEF BlobInv

LEMMA BlobStep == BlobInv /\ [TransportNext]_transportVars => BlobInv'
<1> SUFFICES ASSUME BlobInv, [TransportNext]_transportVars PROVE BlobInv'
  OBVIOUS
<1>1. ASSUME NEW blob \in Blobs, SendMissionBlob(blob) PROVE BlobInv'
  BY <1>1, SendMissionBlobKeeps
<1>2. CASE SendRadioStats
  BY <1>2, SendRadioStatsKeeps
<1>3. ASSUME NEW c \in Copies, NEW n \in Packets, ReceivePacket(c, n) PROVE BlobInv'
  BY <1>3, ReceivePacketKeeps
<1>4. ASSUME DedupInv', UNCHANGED <<seqs, fragments, reassembler, sent, delivered, handled>>,
             \/ Aloft' = {} /\ transfer_id' = 0
             \/ Aloft' \subseteq Aloft /\ UNCHANGED transfer_id
      PROVE  BlobInv'
  <2>1. PICK of, by : Accounts(of, by)
    BY DEF BlobInv
  <2>2. Accounts(of, by)'
    BY <1>4, <2>1, QuietKeeps DEF BlobInv
  <2>3. BlobTypeOK'
    BY <1>4 DEF BlobInv, BlobTypeOK
  <2> QED BY <1>4, <2>2, <2>3 DEF BlobInv
<1>5. CASE ReadNumber /\ UNCHANGED <<fragments, transfer_id, reassembler, sent, delivered>>
  <2>1. DedupInv'
    BY <1>5, ReadNumberKeeps DEF BlobInv
  <2>2. UNCHANGED <<seqs, handled>> /\ Aloft' = Aloft
    BY <1>5 DEF ReadNumber, Aloft
  <2> QED BY <1>4, <1>5, <2>1, <2>2
<1>6. CASE Restart
  <2>1. DedupInv'
    BY <1>6, RestartSenderKeeps DEF BlobInv, Restart
  <2>2. UNCHANGED <<seqs, handled>> /\ Aloft' = {}
    BY <1>6 DEF Restart, RestartSender, Aloft
  <2> QED BY <1>4, <1>6, <2>1, <2>2 DEF Restart
<1>7. CASE UNCHANGED transportVars
  <2>1. DedupInv'
    BY <1>7, DedupStep DEF BlobInv, transportVars
  <2>2. UNCHANGED <<seqs, handled>> /\ Aloft' = Aloft
    BY <1>7 DEF transportVars, dedupVars, Aloft
  <2> QED BY <1>4, <1>7, <2>1, <2>2 DEF transportVars
<1> QED BY <1>1, <1>2, <1>3, <1>5, <1>6, <1>7 DEF TransportNext

LEMMA AccountsBound ==
    ASSUME BlobTypeOK, NEW of, NEW by, Accounts(of, by)
    PROVE  BlobsIntact
<1> SUFFICES ASSUME NEW d \in DOMAIN delivered
             PROVE  Times(delivered, delivered[d]) <= Times(sent, delivered[d])
  BY DEF BlobsIntact
<1> DEFINE S == {k \in DOMAIN delivered : delivered[k] = delivered[d]}
           T == {k \in DOMAIN sent : sent[k] = delivered[d]}
           f == [k \in S |-> by[k]]
<1>1. IsFiniteSet(T)
  <2>1. DOMAIN sent = 1..Len(sent) /\ Len(sent) \in Nat
    BY LenProperties DEF BlobTypeOK
  <2>2. IsFiniteSet(1..Len(sent))
    BY <2>1, FS_Interval
  <2> QED BY <2>1, <2>2, FS_Subset
<1>2. f \in Injection(S, T)
  BY DEF Accounts, PutDown, Injection, IsInjective
<1>3. Cardinality(S) <= Cardinality(T)
  BY <1>1, <1>2, FS_Injection
<1> QED BY <1>3 DEF Times

\* A blob that is handed over was sent as one blob and no more often than it was sent,
\* whatever is lost, repeated or late and however often the sender restarts
\* (MissionReassembler::feed).
THEOREM BlobsComeIntact == TransportSpec => []BlobsIntact
<1>1. BlobInv => BlobsIntact
  BY AccountsBound DEF BlobInv
<1> QED BY <1>1, BlobInitially, BlobStep, PTL DEF TransportSpec

\* The duplicate filter holds under the traffic of the missions as well.
THEOREM FragmentsHandledOnce == TransportSpec => []HandledOnce
<1>1. BlobInv => HandledOnce
  BY DEF BlobInv, DedupInv, Remembered
<1> QED BY <1>1, BlobInitially, BlobStep, PTL DEF TransportSpec

-----------------------------------------------------------------------------
(* Camera frames. The assembler holds fragments of frames of one number,   *)
(* as many as it has counted; a run of comms_uav gives a number once.      *)

Frames == [run : Nat, id : Nat \ {0}, frags : Nat \ {0}]

CameraTypeOK ==
    /\ frames \in Seq(Frames) /\ camera_run \in Nat /\ camera_frame_id \in Nat
    /\ assembler \in [frame_id : Nat, received_count : Nat, owner : Seq(Nat)]

\* A run of comms_uav gives every number once.
Counted ==
    /\ \A m \in DOMAIN frames :
          /\ frames[m].run <= camera_run
          /\ frames[m].run = camera_run => frames[m].id <= camera_frame_id
    /\ \A l, m \in DOMAIN frames :
          frames[l].run = frames[m].run /\ frames[l].id = frames[m].id => l = m

\* The fragments that assembler a holds are of frames of its number, among them one of
\* the frame that it was begun for, and are as many as it has counted.
Held(a) == {i \in DOMAIN a.owner : a.owner[i] # NotReceived}
Assembles(a) ==
    /\ \A i \in Held(a) : /\ a.owner[i] \in DOMAIN frames
                          /\ frames[a.owner[i]].id = a.frame_id
    /\ a.received_count = Cardinality(Held(a))
    /\ a.owner = <<>> => a.frame_id = 0
    /\ a.owner # <<>> => \E i \in Held(a) : Len(a.owner) = frames[a.owner[i]].frags

CameraInv == CameraTypeOK /\ Counted /\ Assembles(assembler) /\ FramesWhole

LEMMA CameraInitially == CameraInit => CameraInv
<1> SUFFICES ASSUME CameraInit PROVE CameraInv
  OBVIOUS
<1>1. /\ frames = <<>> /\ camera_run = 1 /\ camera_frame_id = 0 /\ published = <<>>
      /\ assembler = [frame_id |-> 0, received_count |-> 0, owner |-> <<>>]
  BY DEF CameraInit
<1>2. CameraTypeOK
  BY <1>1 DEF CameraTypeOK
<1>3. Held(assembler) = {} /\ Cardinality({}) = 0
  BY <1>1, FS_EmptySet DEF Held
<1>4. Counted /\ FramesWhole
  BY <1>1 DEF Counted, FramesWhole
<1>5. Assembles(assembler)
  BY <1>1, <1>3 DEF Assembles
<1> QED BY <1>2, <1>4, <1>5 DEF CameraInv

\* What is shown stays a whole frame, or a mixture, whatever frames follow.
LEMMA WholeStays ==
    ASSUME FramesWhole, UNCHANGED published,
           \A m \in DOMAIN frames : m \in DOMAIN frames' /\ frames'[m] = frames[m]
    PROVE  FramesWhole'
<1>1. MixedByRestart => MixedByRestart'
  BY DEF MixedByRestart
<1>2. ASSUME NEW m \in DOMAIN frames, WholeFrame(m) PROVE WholeFrame(m)'
  BY <1>2 DEF WholeFrame
<1> QED BY <1>1, <1>2 DEF FramesWhole

LEMMA OnCameraFrameKeeps ==
    ASSUME CameraInv, NEW size \in FrameSizes, OnCameraFrame(size)
    PROVE  CameraInv'
<1> DEFINE f == [run |-> camera_run, id |-> camera_frame_id + 1, frags |-> size]
<1>1. /\ frames' = Append(frames, f) /\ camera_frame_id' = camera_frame_id + 1
      /\ UNCHANGED <<camera_run, assembler, published>>
  BY DEF OnCameraFrame
<1>2. f \in Frames /\ f.run = camera_run /\ f.id = camera_frame_id + 1
  BY FramesAssumption DEF Frames, CameraInv, CameraTypeOK
<1> HIDE DEF f
<1>3. PICK L \in Nat : /\ L = Len(frames) /\ DOMAIN frames = 1..L
                      /\ \A m \in 1..L : frames[m] \in Frames
  <2>1. frames \in Seq(Frames)
    BY DEF CameraInv, CameraTypeOK
  <2> QED BY <2>1, LenProperties, ElementOfSeq
<1>4. /\ frames' \in Seq(Frames) /\ DOMAIN frames' = 1..L + 1 /\ frames'[L + 1] = f
      /\ \A m \in 1..L : frames'[m] = frames[m]
      /\ \A m \in 1..L + 1 : m \in 1..L \/ m = L + 1
  BY <1>1, <1>2, <1>3 DEF CameraInv, CameraTypeOK
<1>5. \A m \in DOMAIN frames : m \in DOMAIN frames' /\ frames'[m] = frames[m]
  BY <1>3, <1>4
<1>6. CameraTypeOK'
  BY <1>1, <1>4 DEF CameraInv, CameraTypeOK
<1>7. \A m \in 1..L : /\ frames[m].run \in Nat /\ frames[m].id \in Nat
                      /\ frames[m].run <= camera_run
                      /\ frames[m].run = camera_run => frames[m].id <= camera_frame_id
  BY <1>3 DEF Frames, CameraInv, Counted
<1>8. camera_run \in Nat /\ camera_frame_id \in Nat
  BY DEF CameraInv, CameraTypeOK
<1>9. Counted'
  <2>1. ASSUME NEW m \in 1..L + 1
        PROVE  /\ frames'[m].run <= camera_run
               /\ frames'[m].run = camera_run => frames'[m].id <= camera_frame_id + 1
    <3>1. CASE m \in 1..L
      BY <1>4, <1>7, <1>8, <3>1
    <3>2. CASE m = L + 1
      BY <1>2, <1>4, <1>8, <3>2
    <3> QED BY <1>4, <3>1, <3>2
  <2>2. ASSUME NEW l \in 1..L + 1, NEW m \in 1..L + 1,
               frames'[l].run = frames'[m].run, frames'[l].id = frames'[m].id
        PROVE  l = m
    <3>1. CASE l \in 1..L /\ m \in 1..L
      BY <1>3, <1>4, <2>2, <3>1 DEF CameraInv, Counted
    <3>2. CASE l \in 1..L /\ m = L + 1
      BY <1>2, <1>4, <1>7, <1>8, <2>2, <3>2
    <3>3. CASE l = L + 1 /\ m \in 1..L
      BY <1>2, <1>4, <1>7, <1>8, <2>2, <3>3
    <3> QED BY <1>4, <3>1, <3>2, <3>3
  <2> QED BY <1>1, <1>4, <2>1, <2>2 DEF Counted
<1>10. Assembles(assembler)'
  <2>1. Held(assembler)' = Held(assembler) /\ assembler' = assembler
    BY <1>1 DEF Held
  <2> QED BY <1>5, <2>1 DEF CameraInv, Assembles
<1>11. FramesWhole'
  BY <1>1, <1>5, WholeStays DEF CameraInv
<1> QED BY <1>6, <1>9, <1>10, <1>11 DEF CameraInv

LEMMA CameraReceiveKeeps ==
    ASSUME CameraInv, NEW m \in DOMAIN frames, NEW i \in 1..frames[m].frags, CameraReceive(m, i)
    PROVE  CameraInv'
<1>1. /\ frames \in Seq(Frames) /\ frames[m] \in Frames
      /\ frames[m].id \in Nat \ {0} /\ frames[m].frags \in Nat \ {0}
      /\ \A l \in DOMAIN frames : l \in Nat \ {0} /\ frames[l] \in Frames
  <2>1. frames \in Seq(Frames)
    BY DEF CameraInv, CameraTypeOK
  <2>2. \A l \in DOMAIN frames : l \in Nat \ {0} /\ frames[l] \in Frames
    BY <2>1, LenProperties, ElementOfSeq
  <2> QED BY <2>1, <2>2 DEF Frames
<1>2. UNCHANGED <<frames, camera_run, camera_frame_id>>
  BY DEF CameraReceive
<1>3. PICK a \in [frame_id : Nat, received_count : Nat, owner : Seq(Nat)] :
         /\ a = Begun(m) /\ a.frame_id = frames[m].id
         /\ \/ Assembles(a) /\ a.owner # <<>>
            \/ /\ Len(a.owner) = frames[m].frags /\ Held(a) = {} /\ a.received_count = 0
               /\ i \in DOMAIN a.owner
  <2>1. CASE frames[m].id = assembler.frame_id
    <3>1. assembler.owner # <<>>
      BY <1>1, <2>1 DEF CameraInv, Assembles
    <3> QED BY <2>1, <3>1 DEF Begun, CameraInv, CameraTypeOK
  <2>2. CASE frames[m].id # assembler.frame_id
    <3>1. PICK none \in Seq(Nat) : none = [j \in 1..frames[m].frags |-> NotReceived]
      <4>1. [j \in 1..frames[m].frags |-> NotReceived] \in Seq(Nat)
        BY <1>1 DEF NotReceived
      <4> QED BY <4>1
    <3>2. Begun(m) = [frame_id |-> frames[m].id, received_count |-> 0, owner |-> none]
      BY <2>2, <3>1 DEF Begun
    <3>3. Len(none) = frames[m].frags /\ DOMAIN none = 1..frames[m].frags
          /\ \A j \in DOMAIN none : none[j] = NotReceived
      BY <1>1, <3>1
    <3>4. PICK a : a = Begun(m)
      OBVIOUS
    <3>5. a \in [frame_id : Nat, received_count : Nat, owner : Seq(Nat)]
      BY <1>1, <3>2, <3>4
    <3>6. /\ a.frame_id = frames[m].id /\ a.received_count = 0 /\ a.owner = none
      BY <3>2, <3>4
    <3>7. Held(a) = {}
      BY <3>3, <3>6 DEF Held
    <3> QED BY <3>3, <3>4, <3>5, <3>6, <3>7
  <2> QED BY <2>1, <2>2
<1>4. /\ a.owner \in Seq(Nat) /\ DOMAIN a.owner = 1..Len(a.owner) /\ Len(a.owner) \in Nat
      /\ a.received_count \in Nat /\ a.frame_id \in Nat
  <2>1. a.owner \in Seq(Nat) /\ a.received_count \in Nat /\ a.frame_id \in Nat
    OBVIOUS
  <2> QED BY <2>1, LenProperties
<1>5. CASE i \notin DOMAIN a.owner \/ a.owner[i] # NotReceived
  <2>1. assembler' = a /\ published' = published
    BY <1>3, <1>5 DEF CameraReceive, Added
  <2>2. Assembles(a)
    BY <1>3, <1>5 DEF Held
  <2>3. Assembles(assembler)'
    BY <1>2, <2>1, <2>2 DEF Assembles, Held
  <2>4. CameraTypeOK' /\ Counted'
    BY <1>2, <2>1 DEF CameraInv, CameraTypeOK, Counted
  <2>5. FramesWhole'
    BY <1>2, <2>1, WholeStays DEF CameraInv
  <2> QED BY <2>3, <2>4, <2>5 DEF CameraInv
<1>6. CASE i \in DOMAIN a.owner /\ a.owner[i] = NotReceived
  <2>1. PICK b \in [frame_id : Nat, received_count : Nat, owner : Seq(Nat)] :
           /\ b = Added(a, m, i) /\ b # a
           /\ b.frame_id = a.frame_id /\ b.received_count = a.received_count + 1
           /\ DOMAIN b.owner = DOMAIN a.owner /\ Len(b.owner) = Len(a.owner)
           /\ b.owner[i] = m /\ \A j \in DOMAIN a.owner : j # i => b.owner[j] = a.owner[j]
    <3>1. PICK g : g = [a.owner EXCEPT ![i] = m]
      OBVIOUS
    <3>2. /\ g \in Seq(Nat) /\ DOMAIN g = DOMAIN a.owner /\ Len(g) = Len(a.owner) /\ g[i] = m
          /\ \A j \in DOMAIN a.owner : j # i => g[j] = a.owner[j]
      BY <1>1, <1>4, <1>6, <3>1
    <3>3. PICK b : b = [frame_id |-> a.frame_id, received_count |-> a.received_count + 1,
                        owner |-> g]
      OBVIOUS
    <3>4. b = Added(a, m, i)
      BY <1>6, <3>1, <3>3 DEF Added
    <3>5. b \in [frame_id : Nat, received_count : Nat, owner : Seq(Nat)]
      BY <1>4, <3>2, <3>3
    <3>6. b.frame_id = a.frame_id /\ b.received_count = a.received_count + 1 /\ b.owner = g
      BY <3>3
    <3>7. b # a
      BY <1>4, <3>6
    <3> QED BY <3>2, <3>4, <3>5, <3>6, <3>7
  <2>2. m # NotReceived
    BY <1>1 DEF NotReceived
  <2>3. Held(b) = Held(a) \cup {i} /\ i \notin Held(a) /\ i \in Held(b)
    BY <1>6, <2>1, <2>2 DEF Held
  <2>4. Assembles(b)
    <3>1. \A j \in Held(b) : b.owner[j] \in DOMAIN frames /\ frames[b.owner[j]].id = b.frame_id
      <4> SUFFICES ASSUME NEW j \in Held(b)
                   PROVE  b.owner[j] \in DOMAIN frames /\ frames[b.owner[j]].id = b.frame_id
        OBVIOUS
      <4>1. CASE j = i
        BY <1>3, <2>1, <4>1
      <4>2. CASE j # i
        <5>1. j \in Held(a) /\ b.owner[j] = a.owner[j]
          BY <2>1, <2>3, <4>2 DEF Held
        <5> QED BY <1>3, <2>1, <5>1 DEF Assembles
      <4> QED BY <4>1, <4>2
    <3>2. IsFiniteSet(Held(a)) /\ a.received_count = Cardinality(Held(a))
      <4>1. IsFiniteSet(1..Len(a.owner))
        BY <1>4, FS_Interval
      <4>2. IsFiniteSet(Held(a))
        BY <1>4, <4>1, FS_Subset DEF Held
      <4>3. a.received_count = Cardinality(Held(a))
        BY <1>3, FS_EmptySet DEF Assembles
      <4> QED BY <4>2, <4>3
    <3>3. b.received_count = Cardinality(Held(b))
      <4>1. Cardinality(Held(a) \cup {i}) = Cardinality(Held(a)) + 1
        BY <2>3, <3>2, FS_AddElement
      <4> QED BY <2>1, <2>3, <3>2, <4>1
    <3>4. b.owner # <<>>
      BY <1>6, <2>1
    <3>5. \E j \in Held(b) : Len(b.owner) = frames[b.owner[j]].frags
      <4>1. CASE Assembles(a) /\ a.owner # <<>>
        <5>1. PICK j \in Held(a) : Len(a.owner) = frames[a.owner[j]].frags
          BY <4>1 DEF Assembles
        <5>2. j \in Held(b) /\ b.owner[j] = a.owner[j]
          BY <2>1, <2>3, <5>1 DEF Held
        <5> QED BY <2>1, <5>1, <5>2
      <4>2. CASE Len(a.owner) = frames[m].frags
        BY <2>1, <2>3, <4>2
      <4> QED BY <1>3, <4>1, <4>2
    <3> QED BY <3>1, <3>3, <3>4, <3>5 DEF Assembles
  <2>5. /\ assembler' = b
        /\ published' = IF b.received_count = Len(b.owner) THEN b.owner ELSE published
    BY <1>3, <2>1 DEF CameraReceive
  <2>6. Assembles(assembler)'
    BY <1>2, <2>4, <2>5 DEF Assembles, Held
  <2>7. CameraTypeOK' /\ Counted'
    BY <1>2, <2>5 DEF CameraInv, CameraTypeOK, Counted
  <2>8. FramesWhole'
    <3>1. CASE b.received_count # Len(b.owner)
      <4>1. published' = published
        BY <2>5, <3>1
      <4> QED BY <1>2, <4>1, WholeStays DEF CameraInv
    <3>2. CASE b.received_count = Len(b.owner)
      <4>1. Held(b) = DOMAIN b.owner
        <5>1. IsFiniteSet(1..Len(b.owner)) /\ Cardinality(1..Len(b.owner)) = Len(b.owner)
          <6>1. PICK K \in Nat : K = Len(b.owner)
            BY <1>4, <2>1
          <6>2. 1 \in Int /\ K \in Int /\ ~(1 > K /\ K # 0) /\ K - 1 + 1 = K
            OBVIOUS
          <6>3. IsFiniteSet(1..K) /\ Cardinality(1..K) = IF 1 > K THEN 0 ELSE K - 1 + 1
            BY <6>2, FS_Interval
          <6> QED BY <6>1, <6>2, <6>3
        <5>2. Held(b) \subseteq 1..Len(b.owner) /\ Cardinality(Held(b)) = Len(b.owner)
          BY <1>4, <2>1, <2>4, <3>2 DEF Held, Assembles
        <5>3. 1..Len(b.owner) = Held(b)
          BY <5>1, <5>2, FS_Subset
        <5> QED BY <1>4, <2>1, <5>3
      <4>2. PICK j \in DOMAIN b.owner : Len(b.owner) = frames[b.owner[j]].frags
        BY <2>4, <4>1, <1>6, <2>1 DEF Assembles
      <4>3. \A k \in DOMAIN b.owner : b.owner[k] \in DOMAIN frames
                                      /\ frames[b.owner[k]].id = b.frame_id
        BY <2>4, <4>1 DEF Assembles
      <4>4. published' = b.owner
        BY <2>5, <3>2
      <4>5. CASE \A k \in DOMAIN b.owner : b.owner[k] = b.owner[j]
        <5>1. PICK l \in DOMAIN frames : l = b.owner[j]
          BY <4>3
        <5>2. b.owner = [k \in 1..frames[l].frags |-> l]
          <6>1. b.owner \in Seq(Nat) /\ DOMAIN b.owner = 1..frames[l].frags
            BY <1>4, <2>1, <4>2, <5>1
          <6>2. b.owner = [k \in DOMAIN b.owner |-> b.owner[k]]
            BY <6>1, LenProperties
          <6>3. \A k \in DOMAIN b.owner : b.owner[k] = l
            BY <4>5, <5>1
          <6> QED BY <6>1, <6>2, <6>3
        <5>3. WholeFrame(l)'
          BY <1>2, <4>4, <5>2 DEF WholeFrame
        <5> QED BY <1>2, <5>3 DEF FramesWhole
      <4>6. CASE \E k \in DOMAIN b.owner : b.owner[k] # b.owner[j]
        <5>1. PICK k \in DOMAIN b.owner : b.owner[k] # b.owner[j]
          BY <4>6
        <5>2. PICK l \in DOMAIN frames, h \in DOMAIN frames : l = b.owner[j] /\ h = b.owner[k]
          BY <4>3
        <5>3. frames[l].id = frames[h].id /\ frames[l].run # frames[h].run
          BY <4>3, <5>1, <5>2 DEF CameraInv, Counted
        <5>4. MixedByRestart'
          BY <1>2, <4>4, <5>1, <5>2, <5>3 DEF MixedByRestart
        <5> QED BY <5>4 DEF FramesWhole
      <4> QED BY <4>5, <4>6
    <3> QED BY <3>1, <3>2
  <2> QED BY <2>6, <2>7, <2>8 DEF CameraInv
<1> QED BY <1>5, <1>6

LEMMA CameraRestartsKeeps == CameraInv /\ CameraRestarts => CameraInv'
<1> SUFFICES ASSUME CameraInv, CameraRestarts PROVE CameraInv'
  OBVIOUS
<1>1. /\ camera_run' = camera_run + 1 /\ camera_frame_id' = 0
      /\ UNCHANGED <<frames, assembler, published>>
  BY DEF CameraRestarts
<1>2. camera_run \in Nat
  BY DEF CameraInv, CameraTypeOK
<1>3. CameraTypeOK'
  BY <1>1, <1>2 DEF CameraInv, CameraTypeOK
<1>4. \A m \in DOMAIN frames : frames[m].run \in Nat /\ frames[m].run <= camera_run
  <2>1. frames \in Seq(Frames)
    BY DEF CameraInv, CameraTypeOK
  <2>2. \A l \in DOMAIN frames : frames[l] \in Frames
    BY <2>1, LenProperties, ElementOfSeq
  <2> QED BY <2>2 DEF Frames, CameraInv, Counted
<1>5. Counted'
  BY <1>1, <1>2, <1>4 DEF CameraInv, Counted
<1>6. Assembles(assembler)' /\ FramesWhole'
  BY <1>1, WholeStays DEF CameraInv, Assembles, Held
<1> QED BY <1>3, <1>5, <1>6 DEF CameraInv

LEMMA CameraStep == CameraInv /\ [CameraNext]_cameraVars => CameraInv'
<1> SUFFICES ASSUME CameraInv, [CameraNext]_cameraVars PROVE CameraInv'
  OBVIOUS
<1>1. ASSUME NEW size \in FrameSizes, OnCameraFrame(size) PROVE CameraInv'
  BY <1>1, OnCameraFrameKeeps
<1>2. ASSUME NEW m \in DOMAIN frames, NEW i \in 1..frames[m].frags, CameraReceive(m, i)
      PROVE  CameraInv'
  BY <1>2, CameraReceiveKeeps
<1>3. CASE CameraRestarts
  BY <1>3, CameraRestartsKeeps
<1>4. CASE UNCHANGED cameraVars
  <2>1. UNCHANGED <<frames, camera_run, camera_frame_id, assembler, published>>
    BY <1>4 DEF cameraVars
  <2> QED BY <2>1, WholeStays DEF CameraInv, CameraTypeOK, Counted, Assembles, Held
<1> QED BY <1>1, <1>2, <1>3, <1>4 DEF CameraNext

\* What is shown is one frame, all of it and in order, but for frames that a restart of
\* comms_uav gave the same number (CommsGcs::camera_recv_loop).
THEOREM FramesComeWhole == CameraSpec => []FramesWhole
<1>1. CameraInv => FramesWhole
  BY DEF CameraInv
<1> QED BY <1>1, CameraInitially, CameraStep, PTL DEF CameraSpec
=============================================================================
