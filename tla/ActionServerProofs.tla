------------------------- MODULE ActionServerProofs -------------------------
(***************************************************************************)
(* Proofs about the promise of the command server, for any number of       *)
(* goals.                                                                  *)
(***************************************************************************)
EXTENDS ActionServer, SequenceTheorems, TLAPS

IInv == TypeOK /\ OneAtATime

LEMMA NextInRange ==
    ASSUME NEW n \in Nat, NEW w \in 0..n, w # n
    PROVE  w + 1 \in 0..n
OBVIOUS

LEMMA InitIInv == Init => IInv
BY EmptySeq DEF Init, IInv, TypeOK, OneAtATime

LEMMA NextIInv == IInv /\ [Next]_vars => IInv'
<1> SUFFICES ASSUME IInv, [Next]_vars PROVE IInv'
  OBVIOUS
<1> USE DEF IInv, TypeOK, OneAtATime, Resolved
<1>a. Len(status) \in Nat /\ status \in [1..Len(status) -> Status]
  BY LenProperties
<1>1. CASE Accept
  <2>1. /\ Append(status, "executing") \in Seq(Status)
        /\ Len(Append(status, "executing")) = Len(status) + 1
        /\ \A g \in 1..Len(status) : Append(status, "executing")[g] = status[g]
    BY DEF Status
  <2> QED BY <1>1, <1>a, <2>1 DEF Accept, Listening
<1>2. CASE Start
  <2>1. worker' = worker + 1 /\ status' = status
    BY <1>2 DEF Start
  <2>2. \A g \in 1..worker : Resolved(g)
    BY <1>2, <1>a DEF Start
  <2>3. worker # Len(status)
    BY <1>2 DEF Start, Listening
  <2>4. worker \in 0..Len(status)
    OBVIOUS
  <2> HIDE DEF IInv
  <2>5. worker + 1 \in 0..Len(status)
    BY <1>a, <2>3, <2>4, NextInRange
  <2> USE DEF IInv
  <2>6. TypeOK'
    BY <2>1, <2>5
  <2>7. worker' - 1 = worker
    BY <2>1, <2>4
  <2> QED BY <2>1, <2>2, <2>6, <2>7
<1>3. ASSUME NEW g \in DOMAIN status, Cancel(g) PROVE IInv'
  <2>1. /\ status' \in Seq(Status)
        /\ Len(status') = Len(status)
        /\ \A h \in 1..Len(status) : status'[h] = IF h = g THEN "canceling" ELSE status[h]
    BY <1>3, <1>a, ExceptSeq DEF Cancel, Status
  <2> QED BY <1>3, <1>a, <2>1 DEF Cancel
<1>4. CASE Resolve
  <2>1. PICK s \in {"succeeded", "canceled"} : status' = [status EXCEPT ![worker] = s]
    BY <1>4 DEF Resolve
  <2>2. worker > 0
    BY <1>4 DEF Resolve
  <2>3. s \in Status /\ status \in Seq(Status)
    BY DEF Status
  <2>4. /\ status' \in Seq(Status)
        /\ Len(status') = Len(status)
        /\ \A h \in 1..Len(status) : status'[h] = IF h = worker THEN s ELSE status[h]
    BY <2>1, <2>2, <2>3, <1>a, ExceptSeq
  <2> QED BY <1>4, <1>a, <2>2, <2>4 DEF Resolve
<1>5. CASE UNCHANGED vars
  BY <1>5 DEF vars
<1> QED BY <1>1, <1>2, <1>3, <1>4, <1>5 DEF Next

\* No goal is worked on before the goals accepted earlier are resolved.
THEOREM Serialised == Spec => []OneAtATime
<1>1. IInv => OneAtATime
  BY DEF IInv
<1> QED BY <1>1, InitIInv, NextIInv, PTL DEF Spec

\* A resolved goal is never reported a second time, with another result or the
\* same: only the goal worked on changes its status, and only while unresolved.
THEOREM AnswersFinal == Spec => ResolvedOnce
<1> DEFINE Final == \A g \in DOMAIN status : Resolved(g) => status'[g] = status[g]
<1>1. IInv /\ [Next]_vars => [Final]_vars
  <2> SUFFICES ASSUME IInv, Next PROVE Final
    OBVIOUS
  <2> USE DEF IInv, TypeOK, Resolved
  <2>a. Len(status) \in Nat /\ status \in [1..Len(status) -> Status]
    BY LenProperties
  <2>1. CASE Accept
    <3>1. \A g \in 1..Len(status) : Append(status, "executing")[g] = status[g]
      BY <2>a
    <3> QED BY <2>1, <2>a, <3>1 DEF Accept
  <2>2. CASE Start
    BY <2>2 DEF Start
  <2>3. ASSUME NEW g \in DOMAIN status, Cancel(g) PROVE Final
    BY <2>3, <2>a DEF Cancel
  <2>4. CASE Resolve
    <3>1. PICK s : status' = [status EXCEPT ![worker] = s]
      BY <2>4 DEF Resolve
    <3>2. ~Resolved(worker)
      BY <2>4 DEF Resolve
    <3> QED BY <2>a, <3>1, <3>2
  <2> QED BY <2>1, <2>2, <2>3, <2>4 DEF Next
<1> QED BY <1>1, InitIInv, NextIInv, PTL DEF Spec, ResolvedOnce
=============================================================================
